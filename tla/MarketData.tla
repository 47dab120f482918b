------------------------------- MODULE MarketData -------------------------------
(***************************************************************************)
(* What users ask of the market data client: GetSymbolInfo and             *)
(* GetHistoricalCandles of forts/market.go, made of one and two requests   *)
(* of the ISS client, and ResolveSecurityID of forts/stream.go, which      *)
(* listens to the Instruments feed and shares a cache with everybody.      *)
(*                                                                         *)
(* ISS and the exchange's feed are modelled from how the code uses them:   *)
(* the listing may come with its columns in any layout, the candles are    *)
(* those of the SECID in the path, and the feed repeats the definitions of *)
(* all instruments.                                                        *)
(***************************************************************************)
EXTENDS IssClient, IssTables

CONSTANTS Users,       \* each makes one call; Calls are their requests
          Symbols,     \* what they may ask for
          Listings,    \* by layout, the body in which ISS answers with the securities
          Candles,     \* its candles, by SECID
          SecurityIds  \* by symbol, the ids that the feed has for it

ASSUME TwoRequestsEach == Calls = Users \X {1, 2}
ASSUME IdsAreNatural   == \A s \in DOMAIN SecurityIds : SecurityIds[s] \subseteq Nat

\* A table of ISS: no column comes twice, and no row has more cells than columns.
IsTable(t) ==
  /\ t.table = TRUE
  /\ DOMAIN t.columns = 1..Len(t.columns) /\ Len(t.columns) \in Nat /\ IsInjective(t.columns)
  /\ DOMAIN t.data = 1..Len(t.data) /\ Len(t.data) \in Nat
  /\ \A r \in DOMAIN t.data :
       /\ DOMAIN t.data[r] = 1..Len(t.data[r]) /\ Len(t.data[r]) \in 0..Len(t.columns)
       /\ \A c \in DOMAIN t.data[r] : t.data[r][c].json \in JsonForms

\* Row r has a value v in the column of this name.
Holds(t, r, name, v) ==
  \E c \in DOMAIN t.data[r] :
    t.columns[c] = name /\ t.data[r][c].json # "null" /\ t.data[r][c].v = v

\* The listing is a table whose rows all have a SECID, one for which ISS has candles;
\* a cell that is null holds no name; and nobody asks for the empty name.
ASSUME ListingsNameIssues ==
  \A b \in DOMAIN Listings :
    /\ "securities" \in DOMAIN Listings[b] /\ IsTable(Listings[b].securities)
    /\ LET t == Listings[b].securities
       IN  \A r \in DOMAIN t.data :
             /\ \E secid \in DOMAIN Candles : Holds(t, r, "SECID", secid)
             /\ \A c \in DOMAIN t.data[r] :
                  t.data[r][c].json = "null" => t.data[r][c].v \notin Symbols
ASSUME SymbolsAreNames == Zero \notin Symbols

\* The opening price of a candle stands for where the candle comes from.
ASSUME CandlesNameTheirIssue ==
  \A s \in DOMAIN Candles :
    /\ "candles" \in DOMAIN Candles[s] /\ IsTable(Candles[s].candles)
    /\ \A i \in DOMAIN Candles[s].candles.data : Holds(Candles[s].candles, i, "open", <<s, i>>)

VARIABLES stage,     \* where each user's call is
          asked,     \* what it asks for
          listing,   \* history: the layout it was answered in
          answer,    \* what it returned, or has found so far
          ids        \* symbolToSecurityID

marketVars == <<stage, asked, listing, answer, ids>>
allVars    == <<vars, marketVars>>

Nothing  == [type |-> "nothing"]
Failed   == [type |-> "error"]
Unknown  == [type |-> "unknown"]
Info(s)  == [type |-> "info", symbol |-> s]
Ids(id)  == [type |-> "id", id |-> id]
Series(rows) == [type |-> "candles", rows |-> rows]

-----------------------------------------------------------------------------
(* Decoding the answers                                                     *)

SecurityRow == [SECID |-> "string", SHORTNAME |-> "string", LOTVOLUME |-> "int",
                MINSTEP |-> "float"]

CandleRow == [begin |-> "string", open |-> "float"]

\* Mutant: the names are taken for what they say.
AsNamed(r) == [Symbol |-> r.SECID, ShortSymbol |-> r.SHORTNAME, LotSize |-> r.LOTVOLUME,
               MinPriceStep |-> r.MINSTEP]

\* ISS calls the long form SHORTNAME and the short form SECID.
SymbolInfoFromISSRow(r) ==
  [Symbol |-> r.SHORTNAME, ShortSymbol |-> r.SECID, LotSize |-> r.LOTVOLUME,
   MinPriceStep |-> r.MINSTEP]

\* GetSymbols and GetSymbolInfo, given the body.
FindSymbol(body, symbol) ==
  LET scan == ScanInto(Block(ParseResponse(body), "securities"), SecurityRow)
      all  == [i \in DOMAIN scan.rows |-> SymbolInfoFromISSRow(scan.rows[i])]
      hits == {i \in DOMAIN all : symbol \in {all[i].Symbol, all[i].ShortSymbol}}
  IN  IF scan.err THEN Failed
      ELSE IF hits = {} THEN Unknown
      ELSE Info(all[CHOOSE i \in hits : \A j \in hits : i <= j])

\* The end of GetHistoricalCandles.
DecodeCandles(body) ==
  LET scan == ScanInto(Block(ParseResponse(body), "candles"), CandleRow)
  IN  IF scan.err THEN Failed ELSE Series(scan.rows)

\* What comes of each answer of ISS.
SymbolFound == [b \in DOMAIN Listings |-> [s \in Symbols |-> FindSymbol(Listings[b], s)]]
CandlesRead == [s \in DOMAIN Candles |-> DecodeCandles(Candles[s])]

-----------------------------------------------------------------------------
(* The calls                                                                *)

At(u, s)        == stage[u] = s
Move(u, s)      == stage' = [stage EXCEPT ![u] = s]
Answer(u, a)    == answer' = [answer EXCEPT ![u] = a]
Finished(u, a)  == Move(u, "done") /\ Answer(u, a)

\* GetSymbolInfo, GetHistoricalCandles with a supported timeframe, or
\* ResolveSecurityID.
Ask(u) ==
  /\ At(u, "new")
  /\ \E s \in Symbols : asked' = [asked EXCEPT ![u] = s]
  /\ \/ \E goal \in {"info", "history"} : Move(u, goal) /\ Start(<<u, 1>>)
     \/ Move(u, "resolve") /\ UNCHANGED vars
  /\ UNCHANGED <<listing, answer, ids>>

\* intervalFromTimeframe knows no such timeframe.
Unsupported(u) ==
  /\ At(u, "new") /\ Finished(u, Failed)
  /\ UNCHANGED <<vars, asked, listing, ids>>

\* What goes on inside a request.
Travels(c) == Travel(c) /\ UNCHANGED marketVars

ContextDone(u) ==
  /\ \E n \in {1, 2} : GiveUp(<<u, n>>)
  /\ Finished(u, Failed)
  /\ UNCHANGED <<asked, listing, ids>>

\* The answer to the first request; the candles take another one.
ListingAnswered(u) ==
  /\ At(u, "info") \/ At(u, "history")
  /\ Finish(<<u, 1>>)
  /\ \/ ret'[<<u, 1>>] = "error" /\ Finished(u, Failed) /\ UNCHANGED listing
     \/ /\ ret'[<<u, 1>>] = "ok"
        /\ \E b \in DOMAIN Listings :
             LET found == SymbolFound[b][asked[u]]
             IN  /\ listing' = [listing EXCEPT ![u] = b]
                 /\ Answer(u, found)
                 /\ Move(u, IF At(u, "info") \/ found.type # "info" THEN "done" ELSE "found")
  /\ UNCHANGED <<asked, ids>>

AskCandles(u) ==
  /\ At(u, "found") /\ Move(u, "candles") /\ Start(<<u, 2>>)
  /\ UNCHANGED <<asked, listing, answer, ids>>

\* The SECID in the path of the second request.
Path(u) == answer[u].symbol.ShortSymbol

\* ISS answers 404 for what it does not list.
CandlesAnswered(u) ==
  /\ At(u, "candles") /\ Finish(<<u, 2>>)
  /\ \/ ret'[<<u, 2>>] = "error" /\ Finished(u, Failed)
     \/ /\ ret'[<<u, 2>>] = "ok" /\ Path(u) \in DOMAIN Candles
        /\ Finished(u, CandlesRead[Path(u)])
  /\ UNCHANGED <<asked, listing, ids>>

-----------------------------------------------------------------------------
(* ResolveSecurityID                                                        *)

\* The cache is read under simbaMu; without an entry the user joins the group.
LookUp(u) ==
  /\ At(u, "resolve")
  /\ IF asked[u] \in DOMAIN ids THEN Finished(u, Ids(ids[asked[u]]))
     ELSE Move(u, "listen") /\ UNCHANGED answer
  /\ UNCHANGED <<vars, asked, listing, ids>>

\* A SecurityDefinition; also one that is handled after the one that was sought.
Definition(u) ==
  /\ At(u, "listen")
  /\ \E s \in DOMAIN SecurityIds : \E id \in SecurityIds[s] :
       /\ ids' = [x \in DOMAIN ids \cup {s} |-> IF x = s THEN id ELSE ids[x]]
       /\ answer' = IF s = asked[u] THEN [answer EXCEPT ![u] = Ids(id)] ELSE answer
  /\ UNCHANGED <<vars, stage, asked, listing>>

\* Mutant: only the definition ends the search.
WhenFound(u) == answer[u] # Nothing

\* The group is not configured or cannot be joined, the context or the thirty
\* seconds are over, or the id was found.
MayStop(u) == TRUE

StopListening(u) ==
  /\ At(u, "listen") /\ MayStop(u)
  /\ IF answer[u] = Nothing THEN Finished(u, Unknown) ELSE Move(u, "done") /\ UNCHANGED answer
  /\ UNCHANGED <<vars, asked, listing, ids>>

-----------------------------------------------------------------------------
MarketInit ==
  /\ Init
  /\ stage = [u \in Users |-> "new"]
  /\ asked = [u \in Users |-> Zero] /\ listing = [u \in Users |-> "none"]
  /\ answer = [u \in Users |-> Nothing] /\ ids = <<>>

\* What a call does once it has been made.
Act(u) == \/ ListingAnswered(u) \/ AskCandles(u) \/ CandlesAnswered(u)
          \/ LookUp(u) \/ StopListening(u)

MarketNext ==
  \/ Tick /\ UNCHANGED marketVars
  \/ \E c \in Calls : Travels(c)
  \/ \E u \in Users : Ask(u) \/ Unsupported(u) \/ ContextDone(u) \/ Definition(u) \/ Act(u)

MarketSpec == MarketInit /\ [][MarketNext]_allVars

\* As for the ISS client; listening ends with its timeout.
FairMarketSpec ==
  /\ MarketSpec
  /\ WF_allVars(Tick /\ UNCHANGED marketVars)
  /\ \A c \in Calls : WF_allVars(Travels(c))
  /\ \A u \in Users : WF_allVars(Act(u))

-----------------------------------------------------------------------------
(* Properties                                                               *)

MarketTypeOK ==
  /\ TypeOK
  /\ stage \in [Users -> {"new", "info", "history", "found", "candles", "resolve", "listen",
                          "done"}]
  /\ asked \in [Users -> Symbols \cup {Zero}]
  /\ listing \in [Users -> DOMAIN Listings \cup {"none"}]
  /\ \A u \in Users : answer[u].type \in {"nothing", "error", "unknown", "info", "id", "candles"}
  /\ DOMAIN ids \subseteq DOMAIN SecurityIds

\* The rows of a listing that hold a symbol in a cell for names, in any layout.
Listed == [b \in DOMAIN Listings |->
  LET t == Listings[b].securities
      Named(r) == {t.data[r][c].v : c \in {c \in DOMAIN t.data[r] :
                                            t.columns[c] \in {"SECID", "SHORTNAME"}}}
  IN  [s \in Symbols \cup DOMAIN Candles |-> {r \in DOMAIN t.data : s \in Named(r)}]]

\* A call answers about the instrument it was asked for, by its long or its short
\* name and however the columns of the listing lie (forts/market.go:78-79, 147-150,
\* table.go:81-87): candles are requested by a SECID that ISS knows, and are those of
\* the SECID beside the name, all of them and oldest first; a symbol that is called
\* unknown was not listed; and an id was published for that symbol, whoever put it
\* into the cache.
AnswersAskedFor ==
  \A u \in Users :
    LET a == answer[u]
        rows == Listed[listing[u]]
    IN  /\ At(u, "candles") => Path(u) \in DOMAIN Candles
        /\ At(u, "done") =>
             CASE a.type = "candles" ->
                    \E secid \in DOMAIN Candles :
                      /\ rows[asked[u]] \cap rows[secid] # {}
                      /\ [i \in DOMAIN a.rows |-> a.rows[i].open]
                         = [i \in DOMAIN Candles[secid].candles.data |-> <<secid, i>>]
               [] a.type = "info" -> asked[u] \in {a.symbol.Symbol, a.symbol.ShortSymbol}
               [] a.type = "unknown" -> listing[u] = "none" \/ rows[asked[u]] = {}
               [] a.type = "id" -> a.id \in SecurityIds[asked[u]]
               [] OTHER -> TRUE

\* Every call returns, those of two requests as well (forts/market.go:153-179) and
\* those that wait for a definition that never comes (forts/stream.go:80-103).
MarketReturns ==
  Capacity >= Token => \A u \in Users : ~At(u, "new") ~> At(u, "done")
=============================================================================
