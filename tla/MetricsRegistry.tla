--------------------------- MODULE MetricsRegistry ---------------------------
(***************************************************************************)
(* The metrics registry and the HTTP middleware that feeds it              *)
(* (internal/metrics).  A family is a map from label values to cells: a    *)
(* cell is looked up under the read lock, created under the write lock     *)
(* when it is missing, and added to without a lock, while a scrape copies  *)
(* the list of cells and loads them one after the other.                   *)
(***************************************************************************)
EXTENDS Integers, Sequences, FiniteSets, SequencesExt

CONSTANTS Handlers,              \* HTTP requests, one goroutine each
          Methods,             \* the method of a request
          Codes,               \* status codes a handler answers with
          MaxScrapes           \* bound

ASSUME MetricsAssumption == MaxScrapes \in Nat /\ 200 \in Codes

VARIABLES series,   \* family -> label values -> index of its cell
          cells,    \* the cells ever made, each a map from fields to numbers
          serving,  \* where each request is
          scrape,   \* the scrape in progress or the one before
          added     \* how often each number has been added to

metricsVars == <<series, cells, serving, scrape, added>>

knownMethods == {"GET", "POST"}
normalizeMethod(m) == IF m \in knownMethods THEN m ELSE "other"

(* A histogram cell: two buckets and the count; its sum is left out.       *)
Fields(family) == IF family = "duration" THEN <<"fast", "slow", "count">> ELSE <<"value">>

RenderOrder == <<"total", "inflight", "duration">>

(* What Middleware adds for one request: Inc and the deferred Dec of the   *)
(* gauge around the handler, then Inc and Observe.  Observe looks its cell *)
(* up once, for its two additions.                                         *)
Additions(r) ==
    LET method == normalizeMethod(serving[r].method)
    IN  << <<"inflight", << >>, "value", 1>>,
           <<"total", <<method, serving[r].code>>, "value", 1>>,
           <<"duration", <<method>>, serving[r].bucket, 1>>,
           <<"duration", <<method>>, "count", 1>>,
           <<"inflight", << >>, "value", -1>> >>

Adds(r) == Additions(r)[serving[r].next]
FamilyOf(r) == Adds(r)[1]
Labels(r) == Adds(r)[2]
AtStage(r, stage) == serving[r].stage = stage

MetricsInit ==
    /\ series = [f \in ToSet(RenderOrder) |-> << >>]
    /\ cells = << >> /\ added = [name \in {} |-> 0]
    /\ serving \in [Handlers -> {[next |-> 1, stage |-> "find", cell |-> 0, method |-> m,
                             code |-> 200, bucket |-> "fast"] : m \in Methods}]
    /\ scrape = [family |-> 0, loads |-> << >>, read |-> {},
                 before |-> [name \in {} |-> 0], steady |-> {}, met |-> {}, runs |-> 0]
-----------------------------------------------------------------------------
InFlight == {r \in Handlers : serving'[r].next \in 2..5}
Scraped == scrape' = [scrape EXCEPT !.steady = @ \cap InFlight, !.met = @ \cup InFlight]
Move(r, c) == serving' = [serving EXCEPT ![r] = c] /\ Scraped

(* cell, first half: the read lock.                                        *)
FindCell(r) ==
    /\ AtStage(r, "find")
    /\ Move(r, IF Labels(r) \in DOMAIN series[FamilyOf(r)]
               THEN [serving[r] EXCEPT !.stage = "add", !.cell = series[FamilyOf(r)][Labels(r)]]
               ELSE [serving[r] EXCEPT !.stage = "create"])
    /\ UNCHANGED <<series, cells, added>>

(* Mutant: no second look under the write lock.                            *)
MutHasCell(family, labels) == FALSE

HasCell(family, labels) == labels \in DOMAIN series[family]

(* cell, second half: the write lock, and a second look.                   *)
CreateCell(r) ==
    LET family == FamilyOf(r)
        labels == Labels(r)
        new == [x \in ToSet(Fields(family)) |-> 0]
    IN  /\ AtStage(r, "create")
        /\ IF HasCell(family, labels)
           THEN /\ Move(r, [serving[r] EXCEPT !.stage = "add", !.cell = series[family][labels]])
                /\ UNCHANGED <<series, cells>>
           ELSE /\ cells' = Append(cells, new)
                /\ series' = [series EXCEPT ![family] =
                     [l \in DOMAIN @ \cup {labels} |->
                        IF l = labels THEN Len(cells) + 1 ELSE @[l]]]
                /\ Move(r, [serving[r] EXCEPT !.stage = "add", !.cell = Len(cells) + 1])
        /\ UNCHANGED added

NextStage(n) == CASE n = 2 -> "serve" [] n = 4 -> "add" [] n = 6 -> "done" [] OTHER -> "find"

Times(counts, name) == IF name \in DOMAIN counts THEN counts[name] ELSE 0

(* An atomic addition, without a lock.                                     *)
AddTo(r) ==
    LET next == serving[r].next + 1
        name == SubSeq(Adds(r), 1, 3)
    IN  /\ AtStage(r, "add")
        /\ cells' = [cells EXCEPT ![serving[r].cell][Adds(r)[3]] = @ + Adds(r)[4]]
        /\ added' = [n \in DOMAIN added \cup {name} |->
                      Times(added, n) + (IF n = name THEN 1 ELSE 0)]
        /\ Move(r, [serving[r] EXCEPT !.next = next, !.stage = NextStage(next)])
        /\ UNCHANGED series

(* statusWriter keeps the first status; a body written first means 200.    *)
ServeHTTP(r) ==
    /\ AtStage(r, "serve")
    /\ \E code \in Codes, body \in BOOLEAN, b \in {"fast", "slow"} :
         Move(r, [serving[r] EXCEPT !.stage = "find", !.bucket = b,
                                 !.code = IF body THEN 200 ELSE code])
    /\ UNCHANGED <<series, cells, added>>

(* A handler that aborts its connection: only the deferred Dec runs.       *)
Abort(r) ==
    /\ AtStage(r, "serve")
    /\ Move(r, [serving[r] EXCEPT !.next = 5, !.stage = "find"])
    /\ UNCHANGED <<series, cells, added>>

Request(r) == FindCell(r) \/ CreateCell(r) \/ AddTo(r) \/ ServeHTTP(r) \/ Abort(r)
-----------------------------------------------------------------------------
(* Render: the families in turn.                                           *)

Ended == scrape.family > Len(RenderOrder) /\ scrape.loads = << >>

RenderStart ==
    /\ scrape.family = 0 \/ Ended
    /\ scrape.runs < MaxScrapes
    /\ LET now == {r \in Handlers : serving[r].next \in 2..5}
       IN  scrape' = [scrape EXCEPT !.family = 1, !.runs = @ + 1, !.read = {},
                        !.before = added, !.steady = now, !.met = now]
    /\ UNCHANGED <<series, cells, serving, added>>

(* write, under the read lock: the cells of the next family.               *)
WriteCopy ==
    LET family == RenderOrder[scrape.family]
        loads(labels) == [i \in DOMAIN Fields(family) |->
                            <<family, labels, Fields(family)[i], series[family][labels]>>]
        order == SetToSeq(DOMAIN series[family])
    IN  /\ scrape.family \in DOMAIN RenderOrder /\ scrape.loads = << >>
        /\ scrape' = [scrape EXCEPT !.family = @ + 1,
                        !.loads = FlattenSeq([i \in DOMAIN order |-> loads(order[i])])]
        /\ UNCHANGED <<series, cells, serving, added>>

(* write, after it: one atomic load at a time.                             *)
WriteLoad ==
    /\ scrape.loads # << >>
    /\ LET l == Head(scrape.loads)
       IN  scrape' = [scrape EXCEPT !.loads = Tail(@),
                        !.read = @ \cup {<<SubSeq(l, 1, 3), cells[l[4]][l[3]]>>}]
    /\ UNCHANGED <<series, cells, serving, added>>

(* A behaviour stops with its last scrape.                                 *)
MetricsNext ==
    \/ \E r \in Handlers : Request(r) /\ (Ended => scrape.runs < MaxScrapes)
    \/ RenderStart \/ WriteCopy \/ WriteLoad

MetricsSpec == MetricsInit /\ [][MetricsNext]_metricsVars
-----------------------------------------------------------------------------
Reported(name) == IF \E v \in scrape.read : v[1] = name
              THEN (CHOOSE v \in scrape.read : v[1] = name)[2] ELSE 0

(* A scrape reports every addition to a counter or a bucket that was made  *)
(* before it began and none that has not been made by its end, whoever     *)
(* created the series and however many created it at once; and the gauge   *)
(* it reports is no less than the requests that were in flight throughout  *)
(* it and no more than those that were in flight at some point of it.      *)
ScrapesAreComplete ==
    Ended =>
      /\ \A name \in DOMAIN added : name[1] # "inflight" =>
           Reported(name) \in Times(scrape.before, name)..added[name]
      /\ Reported(<<"inflight", << >>, "value">>) \in
           Cardinality(scrape.steady)..Cardinality(scrape.met)
=============================================================================
