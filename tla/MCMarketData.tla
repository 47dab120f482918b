----------------------------- MODULE MCMarketData -----------------------------
(***************************************************************************)
(* Two users and two instruments.  The listing comes in three layouts: as  *)
(* ISS sends it; with the columns turned round, one of them unknown to the *)
(* client, and a row cut short that has no long name; and with a cell that *)
(* is no number, which fails the whole answer.                             *)
(***************************************************************************)
EXTENDS MarketData, TLC

MCCalls == Users \X {1, 2}

Text(v) == [json |-> "text", v |-> v]
Num(n)  == [json |-> "number", v |-> n]
Null    == [json |-> "null", v |-> "null"]

Securities(columns, data) ==
  [securities |-> Table(columns, data), metadata |-> NoTable]

Usual == Securities(<<"SECID", "SHORTNAME", "LOTVOLUME", "MINSTEP">>,
                    <<<<Text("SiZ6"), Text("Si-12.26"), Num("1"), Num("1")>>,
                      <<Text("RIZ6"), Text("RTS-12.26"), Num("1"), Null>>>>)

Turned == Securities(<<"SHORTNAME", "ASSETCODE", "SECID", "LOTVOLUME">>,
                     <<<<Text("RTS-12.26"), Text("RTS"), Text("RIZ6"), Num("1")>>,
                       <<Null, Null, Text("SiZ6")>>>>)

Bad == Securities(<<"SECID", "SHORTNAME", "LOTVOLUME">>,
                  <<<<Text("SiZ6"), Text("Si-12.26"), Text("one")>>>>)

MCListings == [usual |-> Usual, turned |-> Turned, bad |-> Bad]

Answers(secid) ==
  [candles |-> Table(<<"open", "begin">>,
                     <<<<Num(<<secid, 1>>), Text("b")>>, <<Num(<<secid, 2>>), Text("b")>>>>)]

MCCandles == [s \in {"SiZ6", "RIZ6"} |-> Answers(s)]

MCSecurityIds == [s \in {"Si-12.26", "RTS-12.26"} |-> IF s = "Si-12.26" THEN {101} ELSE {202}]

\* Evaluated before the run: ScanInto does not depend on the order of the columns,
\* nor on columns that no field asks for (table.go:81-87).
Permuted(t, p) == Table([i \in DOMAIN p |-> t.columns[p[i]]],
                        [r \in DOMAIN t.data |-> [i \in DOMAIN p |-> t.data[r][p[i]]]])

ASSUME LayoutDoesNotMatter ==
  LET cells == {Text("a"), Num("7"), [json |-> "digits", v |-> "7"], Null}
      names == <<"SECID", "LOTVOLUME", "BOARDID">>
      scan(t) == ScanInto(t, SecurityRow)
  IN  \A row \in [1..3 -> cells] : \A p \in Permutations(1..3) :
        LET t == Table(names, <<row, row>>)
        IN  /\ scan(Permuted(t, p)) = scan(t)
            /\ scan(Table(SubSeq(names, 1, 2), [r \in 1..2 |-> SubSeq(row, 1, 2)])) = scan(t)
=============================================================================
