----------------------------- MODULE MCSkaSort -----------------------------
(* Model-checking instance of the sort.                                    *)
EXTENDS SkaSort

Sub(t, n) == [type |-> t, bytes |-> n]

MCCases ==
  { [shape |-> <<Sub("unsigned", 2)>>,
     elements |-> {<<u>> : u \in {0, 2, 5, 6, 7, 13}}],
    [shape |-> <<Sub("bool", 1), Sub("unsigned", 1)>>,
     elements |-> {0, 1} \X {0, 1, 2}],
    [shape |-> <<Sub("signed", 1), Sub("float", 1)>>,
     elements |-> {0, 2, 3} \X {0, 1, 3}],
    [shape |-> <<Sub("char", 1), Sub("unsigned", 1)>>,
     elements |-> {1, 2, 3} \X {0, 2}] }

MCThresholds == {<<2, 3>>, <<3, 5>>}
=============================================================================
