---------------------------- MODULE MCSimiWorker ----------------------------
(* Instances of SimiWorker for TLC.                                        *)
EXTENDS SimiWorker

Of(n, u) == [text |-> "size", num |-> n, unit |-> u]

\* Pauses as simi.yaml may have them: negative, missing, positive.
Periods == {-1, 0, 1}

\* Sizes at the limits: of the pattern and the table, of an argument, of a
\* string, of an int64; and the chart's 32KB.
Sizes ==
    {[text |-> "nomatch"], [text |-> "number"], [text |-> "vast"], Of(1, "k"), Of(1, "zib")} \cup
    {Of(0, "yb"), Of(32, "kb"), Of(131071, "b"), Of(131072, "b"), Of(127, "kib"), Of(128, "kib"),
     Of(1, "mb"), Of(281, "tb"), Of(282, "tb"), Of(256, "tib"), Of(257, "tib"),
     Of(281474976, "mb"), Of(281474977, "mb"), Of(8388608, "tib"), Of(9, "eb"), Of(1, "zb")}
=============================================================================
