------------------------------ MODULE MCOutput ------------------------------
(***************************************************************************)
(* A small instance of Output: the command lines of MCFields and others    *)
(* about the layout, and results of up to three records.  The records have *)
(* values at and beyond the limits of their columns: a long address, 999,  *)
(* 1000 and 999960 bytes, 111 hours, a protocol with a long name, a value  *)
(* that is not set and one that is not a number.                           *)
(***************************************************************************)
EXTENDS Output, MCFields

MCSpecial == (first :> "timestamp") @@ (bytes :> "volume") @@ (pkts :> "volume")
             @@ (bps :> "double_volume") @@ (prot :> "ip_proto") @@ (duration :> "duration")

MCType == [id \in Ids |-> CASE id = srcip -> "addr" [] id \in {prot, direction} -> "uint8"
                             [] OTHER -> "uint64"]

MCNameLen == (srcip :> 5) @@ (first :> 5) @@ (bytes :> 5) @@ (pkts :> 4) @@ (bps :> 3)
             @@ (prot :> 5) @@ (duration :> 8) @@ (direction :> 3)

MCFuncLen == [id \in Ids |-> IF id \in {bps, duration} THEN 4 ELSE 3]

MCDefaultDir == (srcip :> "asc") @@ (bytes :> "desc")

MCProtoNameLen == (6 :> 3) @@ (17 :> 3) @@ (254 :> 27)

OK(v) == [ret |-> "OK", val |-> v]

Record1 == (srcip :> OK([text |-> 7, numbers |-> 16])) @@ (first :> OK(1500000000))
           @@ (bytes :> OK(1000)) @@ (pkts :> OK(999)) @@ (bps :> OK(123456789))
           @@ (prot :> OK(6)) @@ (duration :> OK(3599999))
           @@ (direction :> OK(255))

Record2 == (srcip :> OK([text |-> 39, numbers |-> 43])) @@ (first :> OK(0))
           @@ (bytes :> OK(999960)) @@ (pkts :> [ret |-> "NOTSET", val |-> 0])
           @@ (bps :> [ret |-> "NAN", val |-> 1024]) @@ (prot :> OK(254))
           @@ (duration :> OK(400000000)) @@ (direction :> [ret |-> "NOTSET", val |-> 0])

Record3 == (srcip :> OK([text |-> 15, numbers |-> 16])) @@ (first :> OK(1400000000))
           @@ (bytes :> OK(999940)) @@ (pkts :> OK(1001)) @@ (bps :> OK(0))
           @@ (prot :> OK(200)) @@ (duration :> OK(0)) @@ (direction :> OK(0))

MCTables == {<<>>, <<Record2>>, <<Record1, Record3, Record2>>}

\* Every layout of some tables.
Switches(S) == {SetToSeq(T) : T \in SUBSET S}

LayoutCommands ==
    {Command(a \o o \o f \o c \o l \o s) :
        a \in {<<>>, <<<<"aggr", <<srcip, prot>>>>>>, <<<<"aggr", <<first>>>>>>,
               <<<<"aggr", <<srcip>>>>, <<"sort", [token |-> srcip, dir |-> "desc"]>>>>,
               <<<<"aggr", <<prot>>>>, <<"sort", [token |-> bytes, dir |-> "default"]>>>>,
               <<<<"sort", [token |-> bytes, dir |-> "asc"]>>>>},
        o \in {<<>>, <<<<"output", <<duration, prot, bps>>>>>>, <<<<"output", <<pkts, direction, bytes>>>>>>},
        f \in {<<>>, <<<<"format", "csv">>>>},
        c \in {<<>>, <<<<"volume", "none">>, <<"duration", "none">>>>,
               <<<<"volume", "binary">>, <<"ip_addr", "none">>, <<"ip_proto", "none">>>>},
        l \in {<<>>, <<<<"limit", 1>>>>},
        s \in Switches({<<"rich_header", None>>, <<"no_ellipsize", None>>})}

MCOutputCommands == MCCommandLines \cup LayoutCommands

============================================================================
