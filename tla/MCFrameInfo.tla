---------------------------- MODULE MCFrameInfo ----------------------------
(* Small functions for TLC: argument counts on both sides of the eight      *)
(* argument registers, object sizes on both sides of the nine-bit range.    *)
EXTENDS ARCFrameInfo

MCNamedCounts == {0, 7, 8, 10}
MCCallCounts == {3, 10}
MCObjectSizes == {4, 261}
MCObjectAligns == {1, 8}
MCCalleeSaved == {0, 2}
=============================================================================
