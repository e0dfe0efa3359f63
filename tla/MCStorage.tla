------------------------------- MODULE MCStorage -------------------------------
(***************************************************************************)
(* A registry of three: two lending pools whose hashes collide and a DEX   *)
(* pool that only the repository's build knows, and whose lending rulebook *)
(* has since been bumped to 2.                                             *)
(***************************************************************************)
EXTENDS Storage, TLC

MCProtocols == {"fixed", "yieldblox", "aqua"}
MCCategoryOf == [p \in MCProtocols |-> IF p = "aqua" THEN "dex" ELSE "lending"]
MCHash == [p \in MCProtocols |-> IF p = "aqua" THEN 9 ELSE 7]
MCAlphabetical == [p \in MCProtocols |-> CASE p = "aqua" -> 1 [] p = "fixed" -> 2 [] OTHER -> 3]
MCSlowestFirst == <<"yieldblox">>
MCMethodology ==
    [b \in Builds |-> [c \in {"lending", "dex"} |->
        IF b = "current" /\ c = "lending" THEN 2 ELSE 1]]
MCRegistry ==
    [b \in Builds |-> CASE b = "first"    -> <<"fixed">>
                        [] b = "stamping" -> <<"fixed">>
                        [] b = "current"  -> <<"yieldblox", "fixed", "aqua">>]

AllAbsent == [v \in Settings |-> "absent"]
AllGood == [v \in Settings |-> IF v \in Required THEN "good" ELSE "absent"]
Misconfigured == Environment([AllAbsent EXCEPT !["STENION_CYCLE_BUDGET_MS"] = "wrong"], AllGood)

Request(shard, total) ==
    [secret |-> TRUE, bearer |-> TRUE, shard |-> shard, total |-> total,
     env |-> Environment(AllGood, AllAbsent)]
Whole == Request(Blank, Blank)
Half(n) == Request(Digits(n), Digits(2))
Refused ==
    {[Whole EXCEPT !.secret = FALSE], [Whole EXCEPT !.bearer = FALSE],
     [Whole EXCEPT !.env = Misconfigured], Request(Digits(0), Blank), Request(Blank, Digits(2)),
     Request(Junk, Digits(2)), Request(Digits(0), Digits(0)), Half(2)}

Good == Environment(AllGood, AllAbsent)

MCSymmetry == Permutations(Migrators)

\* A database migrated under a serving indexer; the shards of a rotation and requests
\* that are refused; overlapping invocations under a reader; and the long-running
\* process, whose cycles overlap each other.
MCScenes ==
    {[migrated |-> FALSE, migrators |-> Migrators, slots |-> {1}, stamps |-> 1,
      requests |-> {Whole}, consoles |-> {}, readers |-> {}],
     [migrated |-> TRUE, migrators |-> {}, slots |-> Slots, stamps |-> 0,
      requests |-> {Whole, Half(0), Half(1)} \cup Refused, consoles |-> {}, readers |-> {}],
     [migrated |-> TRUE, migrators |-> {}, slots |-> Slots, stamps |-> 2,
      requests |-> {Whole}, consoles |-> {}, readers |-> Readers],
     [migrated |-> TRUE, migrators |-> {}, slots |-> Slots, stamps |-> 2,
      requests |-> {}, consoles |-> {Good, Misconfigured}, readers |-> {}]}
================================================================================
