----------------------------- MODULE MCSignalFiles -----------------------------
EXTENDS SignalFiles

CONSTANTS t1, t2

Ints == <<"INT", "TERM">>
Kills == <<"SEGV">>

\* One thread, with and without an interrupt function; two threads, where the
\* handlers are registered before the second one starts.
Plain == [threads |-> {t1}, StackTrace |-> FALSE, Interruptible |-> FALSE,
          sent |-> {"INT", "TERM"}, outputs |-> 3, signals |-> 3]
MCTools == {Plain,
            [Plain EXCEPT !.Interruptible = TRUE, !.outputs = 2],
            [Plain EXCEPT !.threads = {t1, t2}, !.StackTrace = TRUE,
                          !.sent = {"INT"}, !.outputs = 2, !.signals = 1]}
=============================================================================
