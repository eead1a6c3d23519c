------------------------------ MODULE LogStream ------------------------------
(***************************************************************************)
(* The live log: the logs page of the admin frontend (app/logs/page.tsx)   *)
(* with its EventSource, and HandleLogsStream (handler/logs.go), which for *)
(* each connection follows a container's log at Docker: a scanner          *)
(* goroutine reads lines into a bounded channel, the handler takes them    *)
(* from there and writes events, until either end is gone.                 *)
(*                                                                         *)
(* The browser connects again when a connection ends, and is then sent the *)
(* tail of the log again; it gives up after an answer that is no stream.   *)
(*                                                                         *)
(* An event is written and received in one step: those on their way when   *)
(* a connection is closed or breaks are lost like those not yet written.   *)
(***************************************************************************)
EXTENDS Naturals, Sequences

CONSTANTS
  Services, DefaultService,  \* the containers whose log can be asked for
  Tails, DefaultTail,        \* the sizes of tail in the menu
  Conns,      \* connections whose handler or scanner may be alive together
  MaxLog,     \* bound: lines each service logs
  Cap,        \* of the handler's channel
  MAX_LINES,  \* the page keeps so many lines
  None        \* no service

ASSUME ConstantsAssumption ==
  /\ DefaultService \in Services /\ None \notin Services
  /\ Tails \subseteq Nat /\ DefaultTail \in Tails
  /\ MaxLog \in [Services -> Nat] /\ Cap \in Nat \ {0} /\ MAX_LINES \in Nat \ {0}
  /\ Conns \cap {"gone", "dead", "trying"} = {}

VARIABLES
  log,       \* lines each service has logged
  conn,      \* the server's end of each connection
  service, tail, paused,  \* what the user has chosen
  connected, lines,       \* what the page shows
  es,        \* its EventSource: gone, dead for good, trying, or the connection
  fresh      \* history: nothing has come from that connection yet

chosen == <<service, tail, paused>>
vars == <<log, conn, chosen, connected, lines, es, fresh>>

Free == [of |-> None, scanner |-> "ended", next |-> 1, chan |-> <<>>,
         handler |-> "over", ctx |-> "done"]

Numbers(s) == 1..MaxLog[s]
Line == UNION {[of : {s}, n : Numbers(s), first : BOOLEAN] : s \in Services}

TypeOK ==
  /\ \A s \in Services : log[s] \in 0..MaxLog[s]
  /\ \A c \in Conns :
       /\ conn[c] = Free \/ conn[c].of \in Services
       /\ conn[c].scanner \in {"reading", "holding", "ended"}
       /\ conn[c] # Free => /\ conn[c].next \in 1..MaxLog[conn[c].of] + 1
                            /\ conn[c].chan \in Seq(Numbers(conn[c].of))
                            /\ Len(conn[c].chan) <= Cap
       /\ conn[c].handler \in {"serving", "over"} /\ conn[c].ctx \in {"live", "done"}
  /\ service \in Services /\ tail \in Tails
  /\ paused \in BOOLEAN /\ connected \in BOOLEAN
  /\ lines \in Seq(Line) /\ Len(lines) <= MAX_LINES
  /\ es \in Conns \cup {"gone", "dead", "trying"}
  /\ fresh \in BOOLEAN

Init ==
  /\ log = [s \in Services |-> 0]
  /\ conn = [c \in Conns |-> Free]
  /\ service = DefaultService /\ tail = DefaultTail /\ paused = FALSE
  /\ connected = FALSE /\ lines = <<>>
  /\ es = "gone" /\ fresh = FALSE

----------------------------------------------------------------------------
(* The page *)

\* Faulty: the page keeps what it showed.
KeepsLines ==
  IF paused'
  THEN es' = "gone" /\ connected' = FALSE /\ UNCHANGED lines
  ELSE es' = "trying" /\ UNCHANGED <<lines, connected>>

\* The effect: the EventSource there was is closed; unless paused, there is a new one.
Effect ==
  IF paused'
  THEN es' = "gone" /\ connected' = FALSE /\ UNCHANGED lines
  ELSE es' = "trying" /\ lines' = <<>> /\ UNCHANGED connected

OpenPage ==
  /\ es = "gone" /\ ~paused
  /\ UNCHANGED chosen /\ Effect
  /\ UNCHANGED <<log, conn, fresh>>

\* Or the tab is closed.
LeavePage ==
  /\ paused \/ es # "gone"
  /\ service' = DefaultService /\ tail' = DefaultTail /\ paused' = FALSE
  /\ es' = "gone" /\ connected' = FALSE /\ lines' = <<>>
  /\ UNCHANGED <<log, conn, fresh>>

\* The two menus, and Pause or Resume.
Choose(s, t, p) ==
  /\ paused \/ es # "gone"
  /\ <<s, t, p>> # chosen
  /\ service' = s /\ tail' = t /\ paused' = p /\ Effect
  /\ UNCHANGED <<log, conn, fresh>>

ChooseOne ==
  \E c \in {<<s, tail, paused>> : s \in Services} \cup {<<service, t, paused>> : t \in Tails}
           \cup {<<service, tail, ~paused>>} :
    Choose(c[1], c[2], c[3])

\* Faulty: one line more than the page may keep.
AddsOneMore(l) ==
  Append(IF Len(lines) > MAX_LINES THEN Tail(lines) ELSE lines, l)

Added(l) ==
  Append(IF Len(lines) >= MAX_LINES
         THEN SubSeq(lines, Len(lines) - MAX_LINES + 2, Len(lines)) ELSE lines, l)

\* No answer, or the connection ends: the browser will try again.
Tries == es' = "trying" /\ connected' = FALSE

\* The connection breaks under the page; the server learns of it later.
Breaks ==
  /\ es \in Conns \cup {"trying"} /\ Tries
  /\ UNCHANGED <<log, conn, chosen, lines, fresh>>

\* The answer is a status: the container is not there, the session has expired.
Refused ==
  /\ es = "trying"
  /\ es' = "dead" /\ connected' = FALSE
  /\ UNCHANGED <<log, conn, chosen, lines, fresh>>

----------------------------------------------------------------------------
(* The server *)

Logs(s) ==
  /\ log[s] < MaxLog[s]
  /\ log' = [log EXCEPT ![s] = @ + 1]
  /\ UNCHANGED <<conn, chosen, connected, lines, es, fresh>>

TailStart(s, t) == IF t >= log[s] THEN 1 ELSE log[s] - t + 1

\* A request of the page is answered with a stream.
Start ==
  /\ es = "trying" /\ \E c \in Conns : conn[c] = Free
  /\ es' = CHOOSE c \in Conns : conn[c] = Free
  /\ conn' = [conn EXCEPT ![es'] =
       [of |-> service, scanner |-> "reading", next |-> TailStart(service, tail),
        chan |-> <<>>, handler |-> "serving", ctx |-> "live"]]
  /\ connected' = TRUE /\ fresh' = TRUE
  /\ UNCHANGED <<log, chosen, lines>>

\* A connection is done with when both its handler and its scanner are.
Rest(r) == IF r.handler = "over" /\ r.scanner = "ended" THEN Free ELSE r
Becomes(c, r) == conn' = [conn EXCEPT ![c] = Rest(r)]

\* net/http notices that the client is gone.
Disconnect(c) ==
  /\ es # c /\ conn[c].ctx = "live"
  /\ conn' = [conn EXCEPT ![c].ctx = "done"]
  /\ UNCHANGED <<log, chosen, connected, lines, es, fresh>>

ScannerReads(c) ==
  /\ conn[c].scanner = "reading" /\ conn[c].next <= log[conn[c].of]
  /\ conn' = [conn EXCEPT ![c].scanner = "holding"]
  /\ UNCHANGED <<log, chosen, connected, lines, es, fresh>>

\* Faulty: a line that finds the channel full is dropped.
DropsLine(c) ==
  [conn[c] EXCEPT !.scanner = "reading", !.next = @ + 1,
     !.chan = IF Len(@) < Cap THEN Append(@, conn[c].next) ELSE @]
HasRoom(c) == Len(conn[c].chan) < Cap
Put(c) ==
  [conn[c] EXCEPT !.scanner = IF HasRoom(c) THEN "reading" ELSE "holding",
     !.next = IF HasRoom(c) THEN @ + 1 ELSE @,
     !.chan = IF HasRoom(c) THEN Append(@, conn[c].next) ELSE @]

ScannerPuts(c) ==
  /\ conn[c].scanner = "holding"
  /\ Put(c) # conn[c] /\ Becomes(c, Put(c))
  /\ UNCHANGED <<log, chosen, connected, lines, es, fresh>>

\* Faulty: a send that waits for nothing but the channel.
WaitsForRoom(c) == conn[c].scanner = "reading" /\ conn[c].ctx = "done"
GivesUp(c) == conn[c].scanner \in {"reading", "holding"} /\ conn[c].ctx = "done"

\* The request is over: the read fails, the send is given up.
ScannerStops(c) ==
  /\ GivesUp(c)
  /\ Becomes(c, [conn[c] EXCEPT !.scanner = "ended"])
  /\ UNCHANGED <<log, chosen, connected, lines, es, fresh>>

\* The container stops, or a line is too long for the scanner.
StreamEnds(c) ==
  /\ conn[c].scanner = "reading"
  /\ Becomes(c, [conn[c] EXCEPT !.scanner = "ended"])
  /\ UNCHANGED <<log, chosen, connected, lines, es, fresh>>

\* An event nobody receives may be written all the same.
HandlerSends(c) ==
  /\ conn[c].handler = "serving" /\ conn[c].chan # <<>>
  /\ conn' = [conn EXCEPT ![c].chan = Tail(@)]
  /\ IF es = c
     THEN /\ lines' = Added([of |-> conn[c].of, n |-> Head(conn[c].chan), first |-> fresh])
          /\ fresh' = FALSE
     ELSE UNCHANGED <<lines, fresh>>
  /\ UNCHANGED <<log, chosen, connected, es>>

\* The context is done, the channel is closed and empty, or a line or a ping cannot
\* be written.  The context of a request is done when its handler has returned.
HandlerEnds(c) ==
  /\ conn[c].handler = "serving"
  /\ \/ conn[c].ctx = "done" \/ es # c
     \/ conn[c].scanner = "ended" /\ conn[c].chan = <<>>
  /\ Becomes(c, [conn[c] EXCEPT !.handler = "over", !.ctx = "done"])
  /\ IF es = c THEN Tries ELSE UNCHANGED <<es, connected>>
  /\ UNCHANGED <<log, chosen, lines, fresh>>

----------------------------------------------------------------------------
Next ==
  \/ OpenPage \/ LeavePage \/ ChooseOne \/ Breaks \/ Refused \/ Start
  \/ \E s \in Services : Logs(s)
  \/ \E c \in Conns :
       \/ Disconnect(c)
       \/ ScannerReads(c) \/ ScannerPuts(c) \/ ScannerStops(c) \/ StreamEnds(c)
       \/ HandlerSends(c) \/ HandlerEnds(c)

Spec == Init /\ [][Next]_vars

\* Goroutines run; the server notices in the end that a client is gone.
Fairness ==
  \A c \in Conns :
    /\ WF_vars(ScannerReads(c) \/ ScannerPuts(c) \/ ScannerStops(c))
    /\ WF_vars(HandlerSends(c) \/ HandlerEnds(c))
    /\ WF_vars(Disconnect(c))

FairSpec == Spec /\ Fairness

----------------------------------------------------------------------------
(* Properties *)

\* The page shows the lines of one service, of the chosen one unless it is paused,
\* and with none left out or repeated but where the browser connected again.
LinesInOrder ==
  \A i \in 1..Len(lines) :
    /\ lines[i].of = lines[1].of
    /\ ~paused => lines[i].of = service
    /\ i > 1 /\ ~lines[i].first => lines[i].n = lines[i - 1].n + 1

\* A connection the page has left, by Pause, a menu or closing the tab, or that broke
\* under it, ends at the server: no scanner goes on reading from Docker, be it in
\* the middle of a line that does not fit in the channel.
NoOrphans == \A c \in Conns : (es # c) ~> (conn[c] = Free \/ es = c)
===============================================================================
