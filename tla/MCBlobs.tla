------------------------------- MODULE MCBlobs -------------------------------
(***************************************************************************)
(* The blob stores, the reading of open files, and the object store of     *)
(* directories over every closure of four directories with at most two     *)
(* entries each, in every order and with repeated children.  A behaviour   *)
(* is about one of them; the others keep a fixed state.                    *)
(***************************************************************************)
EXTENDS BlobStores, FileReads, ObjectStoreDirectory, SequencesExt

CONSTANTS c1, c2

MCBlobSet == {<<>>, <<c1>>, <<c1, c2>>, <<c2, c2, c1>>}
MCLayouts == {from_iter(<<1, 2>>), from_iter(<<2, 1, 1>>)}

MaxEntries == 2

MCChildLists ==
    {<<a, b, c, <<>>>> : a \in BoundedSeq({2, 3, 4}, MaxEntries),
                         b \in BoundedSeq({3, 4}, MaxEntries),
                         c \in BoundedSeq({4}, MaxEntries)}

VARIABLE part   \* what the behaviour is about

allvars == <<part, bvars, fvars, objectvars>>

OneClosure == CHOOSE f \in ChildLists : Referred(f) = Nodes \ {1}

Init ==
    /\ part \in {"stores", "reads", "objects"}
    /\ part # "reads" => chunks = from_iter(<<1, 2>>)
    /\ part # "objects" => children = OneClosure /\ walk = "leaves_to_root"
    /\ BlobInit /\ FileInit
    /\ part # "stores" =>
          /\ \A w \in Writers : wr[w].store = "local" /\ wr[w].blob = <<>>
          /\ \A r \in Readers : rd[r].service = "local" /\ rd[r].blob = <<>>
    /\ ObjectInit

Next ==
    \/ part = "stores" /\ BlobNext /\ UNCHANGED <<part, fvars, objectvars>>
    \/ part = "reads" /\ FileNext /\ UNCHANGED <<part, bvars, objectvars>>
    \/ part = "objects" /\ ObjectNext /\ UNCHANGED <<part, bvars, fvars>>

Spec == Init /\ [][Next]_allvars
=============================================================================
