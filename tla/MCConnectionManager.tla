------------------------ MODULE MCConnectionManager ------------------------
(***************************************************************************)
(* Constants for the model checker. A tick stands for the smallest wait    *)
(* the program makes; allow_time[] keeps its shape: it grows, and its last *)
(* entry is used for every further failure.                                *)
(***************************************************************************)
EXTENDS ConnectionManager

Backoff2 == <<1, 2>>
Backoff1 == <<1>>
============================================================================
