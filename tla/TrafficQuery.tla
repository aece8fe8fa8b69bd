----------------------------- MODULE TrafficQuery -----------------------------
(***************************************************************************)
(* GET /api/v1/traffic over the ledger: handleTraffic validates a request, *)
(* the query of its window reads the clock once or twice, one SELECT lists *)
(* the rows, and a page of them is the answer.  Flushes, prunes and        *)
(* midnight come in between, as steps of the ledger.  One handler at a     *)
(* time is enough: a handler changes nothing, so two cannot disturb each   *)
(* other.  A client may ask anything, or walk through all pages.           *)
(*                                                                         *)
(* A key is a pair <<ifindex, mac>>.  MAC addresses are compared ignoring  *)
(* case, which is left out.  A row exists where something was credited.    *)
(***************************************************************************)
EXTENDS Ledger, FiniteSets, Functions, Sums

CONSTANTS
  MaxTotal,      \* bound: how much one field of one key is credited
  Seven,         \* the days of window 7days
  Thirty,        \* the days of window 30days
  MonthLen,      \* the days of a month
  DefaultLimit,  \* 100 in the code
  MaxLimit,      \* 1000 in the code
  Limits,        \* limits that are asked for
  Offsets,       \* offsets that are asked for
  IfaceFilters,  \* interfaces that are asked for, by ifindex; Nil for any
  MacFilters     \* MACs that are asked for; Nil for any

ASSUME QueryAssumption ==
  /\ {MaxTotal, DefaultLimit, MaxLimit} \subseteq Nat
  /\ DefaultLimit \in 1 .. MaxLimit
  /\ {Seven, Thirty, MonthLen} \subseteq Nat \ {0, 1}
  /\ Limits \subseteq Int /\ Offsets \subseteq Int

(* The columns of the primary key are ordered, MAC addresses as numbers. *)
ASSUME KeysAssumption == IsFiniteSet(Keys) /\ Keys \subseteq Nat \X Nat

ASSUME NilIsNoDate == Nil \notin Int

VARIABLES
  step,      \* where the handler is
  req,       \* the request
  arrived,   \* the day on which it came in
  clock1,    \* what the first reading of the clock returned
  from,      \* start of the window
  to,        \* end of the window
  answer,    \* the response
  walk,      \* a client's walk through all pages, Nil when none is under way
  told       \* history: the most that any windowed answer said of a key

handler == <<step, req, arrived, clock1, from, to, answer>>

qvars == <<ledger, handler, walk, told>>

Windows == {"all", "today", "7days", "30days", "month"}

InvalidMac == 0

Requests ==
  [window : Windows \union {"other"}, iface : IfaceFilters, mac : MacFilters,
   limit : Limits, offset : Offsets]

Block == [Fields -> Nat]

QueryTypeOK ==
  /\ step \in {"idle", "first", "second", "select", "answered"}
  /\ from \in Int \union {Nil} /\ to \in Dates \union {Nil}
  /\ answer # Nil =>
       /\ answer.status \in {200, 400, 500}
       /\ answer.limit \in 1 .. MaxLimit
       /\ DOMAIN answer.records \subseteq Keys
       /\ Cardinality(DOMAIN answer.records) <= MaxLimit
       /\ \A k \in DOMAIN answer.records : answer.records[k] \in Block
  /\ told \in [Keys -> Block]

NoRecords == [k \in {} |-> Zero]

QueryInit ==
  /\ LedgerInit
  /\ step = "idle"
  /\ req = Nil /\ arrived = Nil /\ clock1 = Nil /\ from = Nil /\ to = Nil
  /\ answer = Nil
  /\ walk = Nil
  /\ told = [k \in Keys |-> Zero]

-------------------------------------------------------------------------------
(* handleTraffic: the parameters. *)

ValidRequest(q) == q.window \in Windows /\ q.mac # InvalidMac

(* Any number that can be parsed is taken. *)
MutLimitOf(n) == n

(* A limit out of range is not refused but replaced. *)
LimitOf(n) == IF n \in 1 .. MaxLimit THEN n ELSE DefaultLimit

OffsetOf(n) == IF n >= 0 THEN n ELSE 0

(* The request of the client is parsed; a bad one is answered at once. *)
Receive(q) ==
  /\ step = "idle"
  /\ IF ValidRequest(q)
       THEN /\ req' = [q EXCEPT !.limit = LimitOf(q.limit), !.offset = OffsetOf(q.offset)]
            /\ step' = IF q.window = "all" THEN "select" ELSE "first"
            /\ arrived' = today
            /\ UNCHANGED answer
       ELSE /\ step' = "answered"
            /\ answer' = [status |-> 400, limit |-> DefaultLimit, records |-> NoRecords]
            /\ UNCHANGED <<req, arrived>>
  /\ UNCHANGED <<ledger, clock1, from, to, told>>

-------------------------------------------------------------------------------
(* The window. *)

NDays(window) == IF window = "7days" THEN Seven ELSE Thirty

FirstOfMonth(day) == day - (day % MonthLen)

(* The start of a window whose clock reads today. *)
StartOf(window) ==
  CASE window = "today" -> today
    [] window = "month" -> FirstOfMonth(today)
    [] window \in {"7days", "30days"} -> today - NDays(window) + 1

(* queryMonth asks for the end of the window first, as queryDays does. *)
MutReadsEndFirst(window) == TRUE

(* queryDays computes the end first, queryMonth the start. *)
ReadsEndFirst(window) == window \in {"7days", "30days"}

ReadClock ==
  /\ step = "first"
  /\ clock1' = today
  /\ IF req.window = "today"
       THEN from' = today /\ to' = today /\ step' = "select"
       ELSE /\ IF ReadsEndFirst(req.window)
                 THEN to' = today /\ UNCHANGED from
                 ELSE from' = StartOf(req.window) /\ UNCHANGED to
            /\ step' = "second"
  /\ UNCHANGED <<ledger, req, arrived, answer, walk, told>>

ReadClockAgain ==
  /\ step = "second"
  /\ IF ReadsEndFirst(req.window)
       THEN from' = StartOf(req.window) /\ UNCHANGED to
       ELSE to' = today /\ UNCHANGED from
  /\ step' = "select"
  /\ UNCHANGED <<ledger, req, arrived, clock1, answer, walk, told>>

-------------------------------------------------------------------------------
(* The rows. *)

(* The interface_name column: Flush writes every row with "". *)
InterfaceName(k) == Nil

(* WHERE interface_name = ?, and the filter on the MAC. *)
Matches(k) ==
  /\ req.iface # Nil => InterfaceName(k) = req.iface
  /\ req.mac # Nil => k[2] = req.mac

ListTotals == {k \in Keys : totals[k] # Zero /\ Matches(k)}

ListDaily ==
  {r \in Keys \X Dates :
     daily[r[1]][r[2]] # Zero /\ r[2] >= from /\ r[2] <= to /\ Matches(r[1])}

(* aggKey without the interface's index. *)
MutAggKey(k) == k[2]

AggKey(k) == k

(* ORDER BY interface_name, ifindex, mac *)
Before(a, b) == a[1] < b[1] \/ (a[1] = b[1] /\ a[2] < b[2])

SumOf(rows) == [f \in Fields |-> SumOver([r \in rows |-> daily[r[1]][r[2]][f]])]

(* The rows of a window, added up per aggKey; a record has the identity of *)
(* the first row that was added to it.                                     *)
Aggregated ==
  LET keys == {r[1] : r \in ListDaily}
      first == {k \in keys : \A j \in keys : AggKey(j) = AggKey(k) => ~Before(j, k)}
  IN  [k \in first |-> SumOf({r \in ListDaily : AggKey(r[1]) = AggKey(k)})]

AllRecords ==
  IF req.window = "all" THEN [k \in ListTotals |-> totals[k]] ELSE Aggregated

(* How many of the keys S come before k. *)
Place(S, k) == Cardinality({j \in S : Before(j, k)})

(* ListTotals without ORDER BY. *)
MutOrders(S) == Bijection(S, 0 .. (Cardinality(S) - 1))

(* At which positions the records may come: totals in the order of their   *)
(* statement, the others in that of a range over a Go map, which is any.   *)
Orders(S) ==
  IF req.window = "all" THEN {[k \in S |-> Place(S, k)]}
  ELSE Bijection(S, 0 .. (Cardinality(S) - 1))

(* offset records are skipped, then at most limit are taken. *)
Page(order) ==
  {k \in DOMAIN order : order[k] >= req.offset /\ order[k] < req.offset + req.limit}

Larger(a, b) == [f \in Fields |-> IF a[f] >= b[f] THEN a[f] ELSE b[f]]

Done ==
  /\ step' = "answered"
  /\ clock1' = Nil /\ from' = Nil /\ to' = Nil /\ arrived' = Nil /\ req' = Nil

(* queryAll or queryDateRange, and the response. *)
Respond ==
  /\ step = "select"
  /\ \E order \in Orders(DOMAIN AllRecords) :
       answer' = [status |-> 200, limit |-> req.limit,
                  records |-> [k \in Page(order) |-> AllRecords[k]]]
  /\ told' = [k \in Keys |->
       IF req.window # "all" /\ k \in DOMAIN answer'.records
         THEN Larger(told[k], answer'.records[k]) ELSE told[k]]
  /\ Done
  /\ UNCHANGED <<ledger, walk>>

(* The SELECT fails. *)
RespondError ==
  /\ step = "select"
  /\ answer' = [status |-> 500, limit |-> req.limit, records |-> NoRecords]
  /\ Done
  /\ UNCHANGED <<ledger, walk, told>>

-------------------------------------------------------------------------------
(* The clients. *)

Ask ==
  /\ walk = Nil
  /\ \E q \in Requests : Receive(q)
  /\ UNCHANGED walk

(* A client sets out to read all records, limit at a time. *)
StartWalk ==
  /\ step = "idle" /\ walk = Nil
  /\ \E n \in Limits :
       walk' = [goal |-> {k \in Keys : totals[k] # Zero}, seen |-> {},
                limit |-> n, offset |-> 0, over |-> FALSE]
  /\ UNCHANGED <<ledger, handler, told>>

AskPage ==
  /\ walk # Nil /\ ~walk.over
  /\ Receive([window |-> "all", iface |-> Nil, mac |-> Nil, limit |-> walk.limit,
              offset |-> walk.offset])
  /\ UNCHANGED walk

(* The answer arrives.  The walk is over with a page that is not full;     *)
(* after an error the page is asked for again.                             *)
GetAnswer ==
  /\ step = "answered"
  /\ step' = "idle" /\ answer' = Nil
  /\ walk' = IF walk = Nil \/ answer.status # 200 THEN walk
             ELSE [walk EXCEPT !.seen = @ \union DOMAIN answer.records,
                               !.offset = @ + answer.limit,
                               !.over = Cardinality(DOMAIN answer.records) < answer.limit]
  /\ UNCHANGED <<ledger, req, arrived, clock1, from, to, told>>

EndWalk ==
  /\ walk # Nil /\ walk.over
  /\ walk' = Nil
  /\ UNCHANGED <<ledger, handler, told>>

-------------------------------------------------------------------------------
(* The database and the calendar under the handler.  A request is answered *)
(* before the day after the one on which it came in is over.               *)
WriterStep ==
  /\ LedgerNext
  /\ \A k \in Keys, f \in Fields : totals'[k][f] <= MaxTotal
  /\ today' # today /\ arrived # Nil => today = arrived
  /\ UNCHANGED <<handler, walk, told>>

QueryNext ==
  \/ Ask
  \/ ReadClock
  \/ ReadClockAgain
  \/ Respond
  \/ RespondError
  \/ StartWalk
  \/ AskPage
  \/ GetAnswer
  \/ EndWalk
  \/ WriterStep

QuerySpec == QueryInit /\ [][QueryNext]_qvars

-------------------------------------------------------------------------------
(* The answer to a request that filters nothing and leaves nothing out. *)
Everything ==
  /\ req.iface = Nil /\ req.mac = Nil
  /\ req.offset = 0 /\ req.limit >= Cardinality(DOMAIN AllRecords)

(***************************************************************************)
(* A client that walks through window=all sees every key that had traffic  *)
(* when it set out, although flushes insert rows while it walks: rows of   *)
(* the totals are never deleted and come in a stable order, so an insert   *)
(* can repeat a record and never hide one; and a limit that the server     *)
(* replaced is the one in the response.                                    *)
(***************************************************************************)
AllPagesMissNothing ==
  walk # Nil => (walk.over => walk.goal \subseteq walk.seen)

(***************************************************************************)
(* When midnight comes between the two readings of the clock the window is *)
(* made of two days' bounds.  Still it is never empty or in the past: what *)
(* is stored for the day the handler read first is in the answer; and a    *)
(* window of n days never holds more than n.                               *)
(***************************************************************************)
WindowHoldsItsDay ==
  [][/\ Respond /\ req.window # "all" /\ Everything =>
          \A k \in Keys : daily[k][clock1] # Zero =>
            /\ k \in DOMAIN answer'.records
            /\ AtLeast(answer'.records[k], daily[k][clock1])
     /\ Respond /\ req.window \in {"7days", "30days"} =>
          to - from < NDays(req.window)]_qvars

(***************************************************************************)
(* No window ever says more of a key than window=all says later: the       *)
(* totals cover every answer a client has had, whatever was pruned since.  *)
(***************************************************************************)
AllCoversEveryWindow ==
  [][Respond /\ req.window = "all" =>
       \A k \in Keys :
         /\ k \in DOMAIN answer'.records => AtLeast(answer'.records[k], told[k])
         /\ Everything /\ told[k] # Zero => k \in DOMAIN answer'.records]_qvars

(***************************************************************************)
(* README.md: the parameter interface filters by interface name.  Asked    *)
(* for an interface, the answer has the records of that interface.         *)
(***************************************************************************)
InterfaceFilterFinds ==
  [][Respond /\ req.window = "all" /\ req.iface # Nil /\ req.mac = Nil
       /\ req.offset = 0 /\ req.limit >= Cardinality(Keys) =>
       \A k \in Keys : k[1] = req.iface /\ totals[k] # Zero =>
         k \in DOMAIN answer'.records]_qvars

-------------------------------------------------------------------------------
(* The inductive invariants behind these properties. *)

DataTypes ==
  /\ totals \in [Keys -> Block]
  /\ daily \in [Keys -> [Dates -> Block]]
  /\ today \in Dates
  /\ told \in [Keys -> Block]

(* What handleTraffic hands to the query of the window. *)
Parsed ==
  [window : Windows, iface : IfaceFilters \union {Nil}, mac : MacFilters \union {Nil},
   limit : 1 .. MaxLimit, offset : Nat]

(* A handler under way has a parsed request, which came in today or        *)
(* yesterday, and no answer yet.                                           *)
HandlerPlace ==
  /\ step \in {"idle", "first", "second", "select", "answered"}
  /\ step \in {"first", "second", "select"} =>
       req \in Parsed /\ arrived \in Dates /\ arrived <= today /\ today <= arrived + 1
  /\ step = "first" => req.window # "all"
  /\ step = "second" => req.window \notin {"all", "today"}
  /\ step # "answered" => answer = Nil

(* The bounds of the window hold the day of the first reading. *)
WindowPlace ==
  /\ from \in Int \union {Nil} /\ to \in Dates \union {Nil}
  /\ step = "second" \/ (step = "select" /\ req.window # "all") =>
       clock1 \in Dates /\ arrived <= clock1 /\ clock1 <= today
  /\ step = "second" =>
       IF ReadsEndFirst(req.window) THEN to = clock1 ELSE from \in Int /\ from <= clock1
  /\ step = "select" /\ req.window # "all" =>
       from \in Int /\ to \in Dates /\ from <= clock1 /\ clock1 <= to
  /\ step = "select" /\ req.window \in {"7days", "30days"} => to - from < NDays(req.window)

AnswerOK ==
  step = "answered" =>
    /\ answer.status \in {200, 400, 500}
    /\ answer.limit \in 1 .. MaxLimit
    /\ DOMAIN answer.records \subseteq Keys
    /\ Cardinality(DOMAIN answer.records) <= answer.limit
    /\ \A k \in DOMAIN answer.records : answer.records[k] \in Block

(* A day that was not forgotten is in the total, and so is every answer. *)
TotalsCover ==
  \A k \in Keys : AtLeast(totals[k], SumOf({k} \X Dates)) /\ AtLeast(totals[k], told[k])

Rows == {k \in Keys : totals[k] # Zero}

Walks ==
  [goal : SUBSET Keys, seen : SUBSET Keys, limit : Limits, offset : Nat, over : BOOLEAN]

(* The page that a walk is asking for. *)
WalkRequest ==
  [window |-> "all", iface |-> Nil, mac |-> Nil,
   limit |-> LimitOf(walk.limit), offset |-> walk.offset]

(* What the walk has not seen, with the answer that is on its way. *)
Unseen == walk.goal \ (walk.seen \union DOMAIN answer.records)

(* What a walk has yet to see lies ahead of it, whatever was inserted. *)
WalkPlace ==
  walk # Nil =>
    /\ walk \in Walks
    /\ step \in {"idle", "select", "answered"}
    /\ step = "select" => req = WalkRequest
    /\ step # "idle" => ~walk.over
    /\ walk.goal \subseteq Rows
    /\ walk.over => walk.goal \subseteq walk.seen
    /\ \A k \in walk.goal \ walk.seen : walk.offset <= Place(Rows, k)
    /\ step = "answered" /\ answer.status = 200 =>
         /\ \A k \in Unseen : walk.offset + answer.limit <= Place(Rows, k)
         /\ Cardinality(DOMAIN answer.records) < answer.limit => Unseen = {}

QueryInv ==
  /\ DataTypes
  /\ HandlerPlace
  /\ WindowPlace
  /\ AnswerOK
  /\ TotalsCover
  /\ WalkPlace

==============================================================================
