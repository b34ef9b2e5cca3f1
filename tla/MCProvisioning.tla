--------------------------- MODULE MCProvisioning ---------------------------
(* Instances of Provisioning: images of several versions, written with and *)
(* without the patch number, one without a version, one not pinned, and    *)
(* two with a number that no int holds (MaxInt is 100 there).              *)
EXTENDS Provisioning

Pinned(version, build) == [form |-> "pinned", version |-> version, build |-> build]

MCImages ==
    {Pinned(<<6, 2, 100>>, "x64"), Pinned(<<7, 1>>, "x64"),
     Pinned(<<7, 1, 0>>, "arm64"), Pinned(<<>>, "x64"),
     Pinned(<<7, 200>>, "x64"), Pinned(<<7, 150, 3>>, "x64"),
     [form |-> "floating", version |-> <<7, 1, 0>>, build |-> "x64"]}

MCFirstImages == {Pinned(<<7, 1>>, "x64")}

TwoImages == {Pinned(<<7, 0, 0>>, "x64"), Pinned(<<7, 1, 0>>, "x64")}

=============================================================================
