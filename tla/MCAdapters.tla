------------------------------- MODULE MCAdapters -------------------------------
(***************************************************************************)
(* The chains the three adapters start from, for TLC: for each protocol a  *)
(* plain one and its single variations.                                    *)
(***************************************************************************)
EXTENDS Adapters

MCAssets == {"xlm", "usdc"}
List == <<"xlm", "usdc">>
OneKey == [kind |-> "account", signers |-> 1, threshold |-> 1]
ManyKeys == [kind |-> "account", signers |-> 3, threshold |-> 2]
AnAccount == [kind |-> "account"]
AContract == [kind |-> "contract"]

Priced(usd, at) == <<[usd |-> usd, at |-> at]>>
Of(x, y) == [a \in {"xlm", "usdc"} |-> IF a = "xlm" THEN x ELSE y]

Variations(plain, edits) ==
    {plain} \cup {Edited(plain, edits[i]) : i \in DOMAIN edits}

--------------------------------------------------------------------------------
(* Blend.                                                                  *)

Reserve(rev, cap, supplied, borrowed) ==
    [config |-> <<[rev |-> rev, cap |-> cap]>>,
     data   |-> <<[rev |-> rev, supplied |-> supplied, borrowed |-> borrowed]>>]

BlendPlain ==
    [status |-> 1, floor |-> 0, admin |-> AnAccount, account |-> OneKey, list |-> List,
     functions |-> {"max_age", "oracles", "asset_configs"}, maxAge |-> 4,
     resolutions |-> <<2>>,
     feeds |-> Of(<<[oracle |-> 1, dev |-> 5]>>, <<[oracle |-> 1, dev |-> 5]>>),
     oracleInstance |-> <<{}>>, baseAsset |-> "usd",
     book |-> Of(Reserve(0, 90, 100, 50), Reserve(0, 90, 100, 20)),
     price |-> Of(Priced(1, 10), Priced(1, 8)), ops |-> 0]

MCBlendEdits ==
    <<[part |-> "status", to |-> 3], [part |-> "status", to |-> 5], [part |-> "status", to |-> 6],
      [part |-> "status", to |-> 7], [part |-> "ops", to |-> 4],
      [part |-> "account", to |-> ManyKeys],
      [part |-> "book", to |-> Of(Reserve(1, 50, 100, 60), Reserve(0, 90, 100, 20))],
      [part |-> "book", to |-> Of(Reserve(0, 90, 100, 50), Reserve(1, 90, 0, 0))],
      [part |-> "price", to |-> Of(Priced(1, 11), Priced(1, 11))],
      [part |-> "price", to |-> Of(Priced(1, 6), <<>>)]>>

MCBlendStarts ==
    Variations(BlendPlain, MCBlendEdits \o
        <<[part |-> "admin", to |-> AContract], [part |-> "list", to |-> <<>>],
          [part |-> "functions", to |-> {"oracles", "asset_configs"}],
          [part |-> "resolutions", to |-> <<>>], [part |-> "oracleInstance", to |-> <<>>],
          [part |-> "oracleInstance", to |-> <<{"xlm", "usdc"}>>],
          [part |-> "feeds", to |-> Of(<<[oracle |-> 1, dev |-> 5]>>, <<>>)],
          [part |-> "book", to |-> Of([config |-> <<>>, data |-> <<>>], Reserve(0, 90, 100, 20))],
          [part |-> "book", to |-> Of(Reserve(0, 90, 400, 300), Reserve(0, 0, 1, 0))]>>)


--------------------------------------------------------------------------------
(* Kinetic.                                                                *)

Flags(active, frozen, borrowing, paused) ==
    [active |-> active, frozen |-> frozen, borrowing |-> borrowing, paused |-> paused]

Open == Flags(TRUE, FALSE, TRUE, FALSE)

KineticPlain ==
    [configured |-> TRUE, admin |-> AnAccount, account |-> OneKey, paused |-> FALSE, list |-> List,
     flags |-> Of(Open, Open), supplied |-> Of(100, 100), borrowed |-> Of(50, 20),
     price |-> Of(Priced(1, 10), Priced(1, 8)), breaker |-> 5, threshold |-> 4, ttl |-> 2,
     config |-> Of(<<[maxAge |-> <<>>]>>, <<[maxAge |-> <<3>>]>>),
     baseline |-> Of(<<1>>, <<1>>), ops |-> 0]

MCKineticEdits ==
    <<[part |-> "paused", to |-> TRUE],
      [part |-> "flags", key |-> "xlm", to |-> Flags(TRUE, FALSE, FALSE, FALSE)],
      [part |-> "flags", key |-> "usdc", to |-> Flags(TRUE, TRUE, TRUE, FALSE)],
      [part |-> "flags", key |-> "usdc", to |-> Flags(FALSE, FALSE, TRUE, FALSE)],
      [part |-> "account", to |-> ManyKeys],
      [part |-> "supplied", to |-> Of(40, 100)], [part |-> "borrowed", to |-> Of(50, 110)],
      [part |-> "price", to |-> Of(Priced(1, 6), <<>>)]>>

MCKineticStarts ==
    Variations(KineticPlain, MCKineticEdits \o
        <<[part |-> "configured", to |-> FALSE], [part |-> "list", to |-> <<>>],
          [part |-> "admin", to |-> AContract], [part |-> "breaker", to |-> 0],
          [part |-> "config", to |-> Of(<<[maxAge |-> <<>>]>>, <<>>)],
          [part |-> "baseline", to |-> Of(<<0>>, <<1>>)],
          [part |-> "supplied", to |-> Of(400, 1)], [part |-> "supplied", to |-> Of(0, 0)]>>)


--------------------------------------------------------------------------------
(* Aquarius.                                                               *)

RoleOf(name, holders) == [role |-> name, holders |-> holders]
RoleList(roles) == [kind |-> "record", roles |-> roles]
BothRoles(admin, pause) == RoleList(<<RoleOf("Admin", admin), RoleOf("Pause", pause)>>)

WasmInstance(deadline) == <<[executable |-> "wasm", deadline |-> deadline, name |-> "none"]>>
AssetInstance(name) == <<[executable |-> "stellarAsset", deadline |-> <<>>, name |-> name]>>
IssuerFlags(clawback, revocable, immutable) ==
    [clawback |-> clawback, revocable |-> revocable, immutable |-> immutable]

Account(holder, ops) == [kind |-> "account", signers |-> holder.signers,
                         threshold |-> holder.threshold, ops |-> ops]
Holding(key, other) == [address \in {"key", "other"} |-> IF address = "key" THEN key ELSE other]
Instances(pool, router, usdc) ==
    [pool |-> pool, router |-> router, xlm |-> AssetInstance("native"), usdc |-> usdc]

AquariusPlain ==
    [type |-> "stable", tokens |-> List,
     killed |-> [swap |-> FALSE, deposit |-> FALSE, claim |-> FALSE],
     instance |-> Instances(WasmInstance(<<0>>), WasmInstance(<<12>>), AssetInstance("circle")),
     issuer |-> [circle |-> IssuerFlags(FALSE, FALSE, FALSE)],
     roles |-> [pool |-> BothRoles(<<"key">>, <<"other">>), router |-> BothRoles(<<"key">>, <<>>)],
     account |-> Holding(Account(ManyKeys, 0), AContract)]

MCAquariusEdits ==
    <<[part |-> "killed", key |-> "swap", to |-> TRUE],
      [part |-> "killed", key |-> "claim", to |-> TRUE],
      [part |-> "killed", key |-> "deposit", to |-> TRUE],
      [part |-> "issuer", to |-> [circle |-> IssuerFlags(FALSE, TRUE, FALSE)]],
      [part |-> "account", to |-> Holding(Account(OneKey, 4), AContract)]>>

MCAquariusStarts ==
    Variations(AquariusPlain, MCAquariusEdits \o
        <<[part |-> "type", to |-> "unknown"], [part |-> "tokens", to |-> <<>>],
          [part |-> "instance", to |-> Instances(WasmInstance(<<>>), <<>>, WasmInstance(<<>>))],
          [part |-> "instance", to |-> Instances(WasmInstance(<<0>>), WasmInstance(<<0>>), <<>>)],
          [part |-> "instance", to |->
              Instances(WasmInstance(<<0>>), WasmInstance(<<9>>), AssetInstance("unparsed"))],
          [part |-> "issuer", to |-> [circle |-> IssuerFlags(TRUE, TRUE, FALSE)]],
          [part |-> "issuer", to |-> [circle |-> IssuerFlags(FALSE, FALSE, TRUE)]],
          [part |-> "roles", to |-> [pool   |-> BothRoles(<<"key">>, <<"key">>),
                                     router |-> BothRoles(<<"key">>, <<"key">>)]],
          [part |-> "roles", to |-> [pool   |-> BothRoles(<<"key">>, <<"key">>),
                                     router |-> RoleList(<<RoleOf("Admin", <<"key">>)>>)]],
          [part |-> "roles", to |-> [pool   |-> [kind |-> "other"],
                                     router |-> BothRoles(<<"key">>, <<"key">>)]]>>)
================================================================================
