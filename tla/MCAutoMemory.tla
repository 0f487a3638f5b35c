---------------------------- MODULE MCAutoMemory ----------------------------
(***************************************************************************)
(* Instances of AutoMemory with pages of two bytes.                        *)
(***************************************************************************)
EXTENDS AutoMemory, TLC

Alloc(s, l, p, pre) == [start |-> s, len |-> l, prot |-> p, pre_alloc |-> pre]
To(x, k) == [addr |-> x, kind |-> k]

\* The code's allocator; one of data that may not be run and begins in the
\* code's last page; one that, as an int, begins in the data's last page and
\* reaches beyond the ints.
MCConfig == ("code" :> Alloc(0, 3, AllKinds, 1)) @@ ("data" :> Alloc(3, 4, {"read", "write"}, 0)) @@
            ("far" :> Alloc(22, 3, AllKinds, 0))
MCTouches == {To(2, "run"), To(3, "write"), To(4, "write"), To(5, "run"), To(22, "read"), To(24, "read")}
=============================================================================
