-------------------------- MODULE LogStreamProofs --------------------------
(***************************************************************************)
(* Theorems about LogStream, for any services, connections, lengths of the *)
(* logs, of the channel and of what the page keeps.                        *)
(***************************************************************************)
EXTENDS LogStream, SequenceTheorems, TLAPS

Ends == [of : Services \cup {None}, scanner : {"reading", "holding", "ended"},
         next : Nat, chan : Seq(Nat), handler : {"serving", "over"}, ctx : {"live", "done"}]

\* The lines of a channel are those before line n, which is to be read next.
Before(chan, n) ==
  /\ Len(chan) < n
  /\ \A i \in 1..Len(chan) : chan[i] = n - Len(chan) + i - 1

\* The line that the handler is to send next.
Oldest(r) == r.next - Len(r.chan)

\* The scanner holds a line that has been logged.
Sound(r) ==
  /\ r \in Ends
  /\ Len(r.chan) <= Cap /\ Before(r.chan, r.next)
  /\ r # Free => /\ r.of \in Services
                 /\ r.next <= log[r.of] + 1
                 /\ r.scanner = "holding" => r.next <= log[r.of]

ServerInv ==
  /\ log \in [Services -> Nat] /\ \A s \in Services : log[s] <= MaxLog[s]
  /\ conn \in [Conns -> Ends]
  /\ \A c \in Conns : Sound(conn[c])

PageTypes ==
  /\ service \in Services /\ tail \in Tails
  /\ paused \in BOOLEAN /\ connected \in BOOLEAN /\ fresh \in BOOLEAN
  /\ es \in Conns \cup {"gone", "dead", "trying"}
  /\ lines \in Seq(Line) /\ Len(lines) <= MAX_LINES

\* The open connection serves the chosen service, and what it sends next follows
\* the last line of the page, once it has sent one.
FollowsOn(r) ==
  /\ r.handler = "serving" /\ r.of = service
  /\ fresh \/ (lines # <<>> /\ lines[Len(lines)].n + 1 = Oldest(r))

StreamInv ==
  /\ paused => es = "gone"
  /\ es \in Conns => FollowsOn(conn[es])

IInv == ServerInv /\ PageTypes /\ StreamInv /\ LinesInOrder

\* What the constants are.
LEMMA Constants ==
  /\ DefaultService \in Services /\ None \notin Services
  /\ Tails \subseteq Nat /\ DefaultTail \in Tails
  /\ MaxLog \in [Services -> Nat] /\ Cap \in Nat /\ Cap > 0
  /\ MAX_LINES \in Nat /\ MAX_LINES > 0
  /\ "gone" \notin Conns /\ "dead" \notin Conns /\ "trying" \notin Conns
BY ConstantsAssumption DEF ConstantsAssumption

LEMMA FreeIsSound == Free \in Ends /\ Sound(Free)
<1>1. Free \in Ends /\ Free.chan = <<>> /\ Len(Free.chan) = 0 /\ Free.next = 1
  BY DEF Free, Ends
<1> QED
  BY <1>1, Constants DEF Sound, Before

\* A connection whose handler serves is not given up.
LEMMA RestIsSound ==
  ASSUME NEW r, Sound(r)
  PROVE  /\ Rest(r) \in Ends /\ Sound(Rest(r))
         /\ r.handler = "serving" => Rest(r) = r
<1>1. r \in Ends
  BY DEF Sound
<1> QED
  BY <1>1, FreeIsSound DEF Rest

\* A line is what Line says.
LEMMA LineShape ==
  /\ \A l \in Line : l.of \in Services /\ l.n \in Numbers(l.of) /\ l.first \in BOOLEAN /\ l.n \in Nat
  /\ \A s \in Services, k \in Nat, b \in BOOLEAN :
       1 <= k /\ k <= MaxLog[s] => [of |-> s, n |-> k, first |-> b] \in Line
<1>1. ASSUME NEW l \in Line
      PROVE  l.of \in Services /\ l.n \in Numbers(l.of) /\ l.first \in BOOLEAN /\ l.n \in Nat
  <2>1. PICK s \in Services : l \in [of : {s}, n : Numbers(s), first : BOOLEAN]
    BY DEF Line
  <2> QED
    BY <2>1, Constants DEF Numbers
<1>2. ASSUME NEW s \in Services, NEW k \in Nat, NEW b \in BOOLEAN, 1 <= k, k <= MaxLog[s]
      PROVE  [of |-> s, n |-> k, first |-> b] \in Line
  <2>1. k \in Numbers(s)
    BY <1>2, Constants DEF Numbers
  <2>2. [of |-> s, n |-> k, first |-> b] \in [of : {s}, n : Numbers(s), first : BOOLEAN]
    BY <2>1
  <2> QED
    BY <2>2 DEF Line
<1> QED
  BY <1>1, <1>2

LEMMA PutLast ==
  ASSUME NEW chan \in Seq(Nat), NEW n \in Nat, Before(chan, n)
  PROVE  /\ Append(chan, n) \in Seq(Nat) /\ Len(Append(chan, n)) = Len(chan) + 1
         /\ Before(Append(chan, n), n + 1)
         /\ n + 1 - Len(Append(chan, n)) = n - Len(chan)
BY DEF Before

LEMMA OldestStays ==
  ASSUME NEW q, NEW r, q.next \in Nat, q.chan \in Seq(Nat), Before(q.chan, q.next),
         r.next = q.next + 1, r.chan = Append(q.chan, q.next)
  PROVE  /\ Len(r.chan) = Len(q.chan) + 1 /\ Before(r.chan, r.next)
         /\ Oldest(r) = Oldest(q)
<1>1. /\ Len(Append(q.chan, q.next)) = Len(q.chan) + 1
      /\ Before(Append(q.chan, q.next), q.next + 1)
      /\ q.next + 1 - Len(Append(q.chan, q.next)) = q.next - Len(q.chan)
  BY PutLast
<1> QED
  BY <1>1 DEF Oldest

LEMMA TakeFirst ==
  ASSUME NEW chan \in Seq(Nat), NEW n \in Nat, Before(chan, n), chan # <<>>
  PROVE  /\ Tail(chan) \in Seq(Nat) /\ Len(Tail(chan)) = Len(chan) - 1
         /\ Before(Tail(chan), n)
         /\ Head(chan) = n - Len(chan) /\ n - Len(Tail(chan)) = Head(chan) + 1
         /\ Head(chan) \in Nat /\ Head(chan) > 0 /\ Head(chan) < n
<1>1. /\ Len(chan) \in Nat /\ Len(chan) > 0 /\ Head(chan) = chan[1]
  OBVIOUS
<1>2. /\ Tail(chan) \in Seq(Nat) /\ Len(Tail(chan)) = Len(chan) - 1
      /\ \A i \in 1..Len(Tail(chan)) : Tail(chan)[i] = chan[i + 1]
  BY HeadTailProperties
<1>3. chan[1] = n - Len(chan)
  BY <1>1 DEF Before
<1>4. Before(Tail(chan), n)
  BY <1>1, <1>2 DEF Before
<1> QED
  BY <1>1, <1>2, <1>3, <1>4 DEF Before

LEMMA InitInv == Init => IInv
<1> SUFFICES ASSUME Init PROVE IInv
  OBVIOUS
<1>1. ServerInv
  <2>1. /\ log \in [Services -> Nat] /\ \A s \in Services : log[s] <= MaxLog[s]
        /\ conn = [c \in Conns |-> Free]
    BY Constants DEF Init
  <2> QED
    BY <2>1, FreeIsSound DEF ServerInv
<1>2. PageTypes
  <2>1. lines = <<>> /\ lines \in Seq(Line) /\ Len(lines) = 0
    BY DEF Init
  <2>2. paused \in BOOLEAN /\ connected \in BOOLEAN /\ fresh \in BOOLEAN
    BY DEF Init
  <2>3. service \in Services /\ tail \in Tails /\ es = "gone"
    BY Constants DEF Init
  <2>4. Len(lines) <= MAX_LINES
    BY <2>1, Constants
  <2> QED
    BY <2>1, <2>2, <2>3, <2>4 DEF PageTypes
<1>3. StreamInv /\ LinesInOrder
  <2>1. lines = <<>> /\ es = "gone" /\ paused = FALSE
    BY DEF Init
  <2>2. es \notin Conns
    BY <2>1, Constants
  <2>3. 1..Len(lines) = {}
    BY <2>1
  <2>4. StreamInv
    BY <2>1, <2>2 DEF StreamInv
  <2>5. LinesInOrder
    BY <2>3 DEF LinesInOrder
  <2> QED
    BY <2>4, <2>5
<1> QED
  BY <1>1, <1>2, <1>3 DEF IInv

\* What the page shows after one more line.
LEMMA AddedLine ==
  ASSUME lines \in Seq(Line), Len(lines) <= MAX_LINES, NEW l \in Line
  PROVE  /\ Added(l) \in Seq(Line) /\ Len(Added(l)) <= MAX_LINES
         /\ Len(Added(l)) > 0 /\ Added(l)[Len(Added(l))] = l
         /\ \E k \in Nat :
              /\ Len(Added(l)) + k = Len(lines) + 1
              /\ \A i \in 1..Len(Added(l)) - 1 : Added(l)[i] = lines[i + k]
<1> USE Constants
<1>0. Len(lines) \in Nat
  OBVIOUS
<1>1. CASE Len(lines) >= MAX_LINES
  <2> DEFINE rest == SubSeq(lines, 2, Len(lines))
  <2>1. Len(lines) = MAX_LINES /\ Added(l) = Append(rest, l)
    <3>1. Len(lines) = MAX_LINES /\ Len(lines) - MAX_LINES + 2 = 2
      BY <1>0, <1>1
    <3> QED
      BY <1>1, <3>1, Zenon DEF Added
  <2>2. /\ rest \in Seq(Line) /\ Len(rest) = Len(lines) - 1
        /\ \A i \in 1..Len(rest) : rest[i] = lines[i + 1]
    <3>1. \A i \in 2..Len(lines) : lines[i] \in Line
      BY <1>0
    <3>2. /\ rest \in Seq(Line)
          /\ Len(rest) = IF 2 <= Len(lines) THEN Len(lines) - 2 + 1 ELSE 0
          /\ \A i \in 1..Len(lines) - 2 + 1 : rest[i] = lines[2 + i - 1]
      BY <1>0, <3>1, SubSeqProperties
    <3> HIDE DEF rest
    <3>3. Len(rest) = Len(lines) - 1
      BY <1>0, <2>1, <3>2
    <3>4. \A i \in 1..Len(rest) : 2 + i - 1 = i + 1
      BY <1>0, <3>3
    <3> QED
      BY <1>0, <3>2, <3>3, <3>4
  <2> HIDE DEF rest
  <2>3. /\ Append(rest, l) \in Seq(Line) /\ Len(Append(rest, l)) = Len(rest) + 1
        /\ Append(rest, l)[Len(rest) + 1] = l
        /\ \A i \in 1..Len(rest) : Append(rest, l)[i] = rest[i]
    BY <2>2
  <2> QED
    BY <1>0, <2>1, <2>2, <2>3
<1>2. CASE Len(lines) < MAX_LINES
  <2>1. Added(l) = Append(lines, l)
    BY <1>0, <1>2 DEF Added
  <2>2. /\ Append(lines, l) \in Seq(Line) /\ Len(Append(lines, l)) = Len(lines) + 1
        /\ Append(lines, l)[Len(lines) + 1] = l
        /\ \A i \in 1..Len(lines) : Append(lines, l)[i] = lines[i]
    OBVIOUS
  <2>3. \A i \in 1..Len(Added(l)) - 1 : Added(l)[i] = lines[i + 0]
    BY <1>0, <2>1, <2>2
  <2>4. Len(Added(l)) + 0 = Len(lines) + 1
    BY <1>0, <2>1, <2>2
  <2>5. /\ Added(l) \in Seq(Line) /\ Len(Added(l)) <= MAX_LINES
        /\ Len(Added(l)) > 0 /\ Added(l)[Len(Added(l))] = l
    BY <1>0, <1>2, <2>1, <2>2
  <2> QED
    BY <2>3, <2>4, <2>5
<1> QED
  BY <1>0, <1>1, <1>2

\* A step of the page that leaves it without a connection.
LEMMA NoConnection ==
  ASSUME IInv, UNCHANGED <<log, conn>>, es' \in {"gone", "dead", "trying"},
         service' \in Services, tail' \in Tails, paused' \in BOOLEAN, connected' \in BOOLEAN,
         fresh' = fresh, paused' => es' = "gone",
         \/ lines' = <<>>
         \/ lines' = lines /\ (paused' \/ UNCHANGED chosen)
  PROVE  IInv'
<1> USE DEF IInv
<1>1. ServerInv'
  BY DEF ServerInv, Sound
<1>2. StreamInv'
  BY Constants DEF StreamInv
<1>3. lines' \in Seq(Line) /\ Len(lines') <= MAX_LINES
  <2>1. CASE lines' = <<>>
    <3>1. lines' \in Seq(Line) /\ Len(lines') = 0
      BY <2>1
    <3> QED
      BY <3>1, Constants
  <2>2. CASE lines' = lines
    BY <2>2 DEF PageTypes
  <2> QED
    BY <2>1, <2>2
<1>4. PageTypes'
  BY <1>3 DEF PageTypes
<1>5. CASE lines' = <<>>
  <2>1. 1..Len(lines') = {}
    BY <1>5
  <2>2. LinesInOrder'
    BY <2>1 DEF LinesInOrder
  <2> QED
    BY <1>1, <1>2, <1>4, <2>2
<1>6. CASE lines' = lines /\ (paused' \/ UNCHANGED chosen)
  <2>1. LinesInOrder'
    BY <1>6 DEF LinesInOrder, chosen
  <2> QED
    BY <1>1, <1>2, <1>4, <2>1
<1> QED
  BY <1>5, <1>6

LEMMA PageStep ==
  ASSUME IInv, OpenPage \/ LeavePage \/ ChooseOne \/ Breaks \/ Refused
  PROVE  IInv'
<1>1. /\ service \in Services /\ tail \in Tails /\ paused \in BOOLEAN /\ connected \in BOOLEAN
      /\ paused => es = "gone"
  BY DEF IInv, PageTypes, StreamInv
<1>2. CASE OpenPage
  <2>1. /\ ~paused' /\ es' = "trying" /\ lines' = <<>>
        /\ UNCHANGED <<log, conn, fresh, connected, service, tail, paused>>
    BY <1>2 DEF OpenPage, Effect, chosen
  <2> QED
    BY <1>1, <2>1, NoConnection
<1>3. CASE LeavePage
  <2>1. /\ es' = "gone" /\ lines' = <<>> /\ connected' = FALSE /\ paused' = FALSE
        /\ service' = DefaultService /\ tail' = DefaultTail /\ UNCHANGED <<log, conn, fresh>>
    BY <1>3 DEF LeavePage
  <2> QED
    BY <2>1, Constants, NoConnection
<1>4. ASSUME NEW s \in Services, NEW t \in Tails, NEW b \in BOOLEAN, Choose(s, t, b) PROVE IInv'
  <2>1. /\ service' = s /\ tail' = t /\ paused' = b /\ Effect /\ UNCHANGED <<log, conn, fresh>>
    BY <1>4 DEF Choose
  <2>2. CASE paused'
    <3>1. es' = "gone" /\ connected' = FALSE /\ lines' = lines
      BY <2>1, <2>2 DEF Effect
    <3> QED
      BY <2>1, <2>2, <3>1, NoConnection
  <2>3. CASE ~paused'
    <3>1. es' = "trying" /\ connected' = connected /\ lines' = <<>>
      BY <2>1, <2>3 DEF Effect
    <3> QED
      BY <1>1, <2>1, <2>3, <3>1, NoConnection
  <2> QED
    BY <2>2, <2>3
<1>5. CASE ChooseOne
  <2>1. PICK c \in {<<s, tail, paused>> : s \in Services}
                  \cup {<<service, t, paused>> : t \in Tails} \cup {<<service, tail, ~paused>>} :
          Choose(c[1], c[2], c[3])
    BY <1>5 DEF ChooseOne
  <2>2. CASE c \in {<<s, tail, paused>> : s \in Services}
    <3>1. PICK s \in Services : c = <<s, tail, paused>>
      BY <2>2
    <3> QED
      BY <1>1, <1>4, <2>1, <3>1
  <2>3. CASE c \in {<<service, t, paused>> : t \in Tails}
    <3>1. PICK t \in Tails : c = <<service, t, paused>>
      BY <2>3
    <3> QED
      BY <1>1, <1>4, <2>1, <3>1
  <2>4. CASE c = <<service, tail, ~paused>>
    <3>1. c[1] = service /\ c[2] = tail /\ c[3] = ~paused
      BY <2>4
    <3>2. c[3] \in BOOLEAN
      BY <1>1, <3>1
    <3> QED
      BY <1>1, <1>4, <2>1, <3>1, <3>2
  <2> QED
    BY <2>1, <2>2, <2>3, <2>4
<1>6. CASE Breaks \/ Refused
  <2>1. /\ es' \in {"trying", "dead"} /\ connected' = FALSE /\ es # "gone"
        /\ UNCHANGED <<log, conn, chosen, lines, fresh>>
    BY <1>6, Constants DEF Breaks, Refused, Tries
  <2>2. ~paused' /\ UNCHANGED <<service, tail, paused>>
    BY <1>1, <2>1 DEF chosen
  <2> QED
    BY <1>1, <2>1, <2>2, NoConnection
<1> QED
  BY <1>2, <1>3, <1>5, <1>6

\* A step of the server's end of one connection that the page does not notice.
LEMMA EndChanges ==
  ASSUME IInv, NEW c \in Conns, UNCHANGED <<log, chosen, connected, lines, es, fresh>>,
         conn' \in [Conns -> Ends], \A d \in Conns : d # c => conn'[d] = conn[d],
         Sound(conn'[c]),
         es = c => FollowsOn(conn'[c])
  PROVE  IInv'
<1> USE DEF IInv
<1>1. conn'[c] \in Ends /\ conn[c] \in Ends
  BY DEF Sound, ServerInv
<1>2. ServerInv'
  <2>1. \A d \in Conns : Sound(conn[d])'
    BY DEF ServerInv, Sound
  <2> QED
    BY <2>1 DEF ServerInv
<1>3. PageTypes' /\ LinesInOrder'
  BY DEF PageTypes, LinesInOrder, chosen
<1>4. StreamInv'
  <2>1. CASE es = c
    BY <2>1 DEF StreamInv, FollowsOn, chosen
  <2>2. CASE es # c
    BY <2>2 DEF StreamInv, FollowsOn, ServerInv, chosen
  <2> QED
    BY <2>1, <2>2
<1> QED
  BY <1>2, <1>3, <1>4

\* What a scanner or a handler does to its own end, where its connection is Free
\* once both are done.
LEMMA BecomesSound ==
  ASSUME IInv, NEW c \in Conns, NEW r, r \in Ends, Sound(r), Becomes(c, r),
         UNCHANGED <<log, chosen, connected, lines, es, fresh>>,
         es = c => FollowsOn(r)
  PROVE  IInv'
<1>1. conn' = [conn EXCEPT ![c] = Rest(r)] /\ conn \in [Conns -> Ends]
  BY DEF Becomes, IInv, ServerInv
<1>2. /\ Rest(r) \in Ends /\ Sound(Rest(r))
      /\ es = c => FollowsOn(Rest(r))
  BY RestIsSound DEF FollowsOn
<1>3. /\ conn' \in [Conns -> Ends] /\ conn'[c] = Rest(r)
      /\ \A d \in Conns : d # c => conn'[d] = conn[d]
  BY <1>1, <1>2
<1> QED
  BY <1>2, <1>3, EndChanges

\* What is known of the end of a connection that is at work.
LEMMA AtWork ==
  ASSUME IInv, NEW c \in Conns, conn[c] # Free
  PROVE  /\ conn[c] \in Ends /\ Sound(conn[c]) /\ conn[c].of \in Services
         /\ conn[c].next \in Nat /\ conn[c].chan \in Seq(Nat) /\ Len(conn[c].chan) \in Nat
         /\ log[conn[c].of] \in Nat
         /\ es = c => FollowsOn(conn[c])
BY DEF IInv, ServerInv, StreamInv, Sound, Ends

LEMMA ScannerReadsStep ==
  ASSUME IInv, NEW c \in Conns, ScannerReads(c)
  PROVE  IInv'
<1> DEFINE r == [conn[c] EXCEPT !.scanner = "holding"]
<1>1. /\ conn[c].scanner = "reading" /\ conn[c].next <= log[conn[c].of]
      /\ conn' = [conn EXCEPT ![c] = r]
      /\ UNCHANGED <<log, chosen, connected, lines, es, fresh>>
  BY DEF ScannerReads
<1>2. conn[c] # Free
  BY <1>1 DEF Free
<1>3. /\ r \in Ends /\ r.next = conn[c].next /\ r.chan = conn[c].chan /\ r.of = conn[c].of
      /\ r.handler = conn[c].handler
  BY <1>2, AtWork DEF Ends
<1> HIDE DEF r
<1>4. Sound(r)
  BY <1>1, <1>2, <1>3, AtWork DEF Sound
<1>5. es = c => FollowsOn(r)
  BY <1>2, <1>3, AtWork DEF FollowsOn, Oldest
<1>6. /\ conn' \in [Conns -> Ends] /\ conn'[c] = r
      /\ \A d \in Conns : d # c => conn'[d] = conn[d]
  BY <1>1, <1>3 DEF IInv, ServerInv
<1> QED
  BY <1>1, <1>4, <1>5, <1>6, EndChanges

LEMMA DisconnectStep ==
  ASSUME IInv, NEW c \in Conns, Disconnect(c)
  PROVE  IInv'
<1> DEFINE r == [conn[c] EXCEPT !.ctx = "done"]
<1>1. /\ es # c /\ conn[c].ctx = "live" /\ conn' = [conn EXCEPT ![c] = r]
      /\ UNCHANGED <<log, chosen, connected, lines, es, fresh>>
  BY DEF Disconnect
<1>2. conn[c] # Free
  BY <1>1 DEF Free
<1>3. /\ r \in Ends /\ r.next = conn[c].next /\ r.chan = conn[c].chan /\ r.of = conn[c].of
      /\ r.scanner = conn[c].scanner
  BY <1>2, AtWork DEF Ends
<1> HIDE DEF r
<1>4. Sound(r)
  BY <1>2, <1>3, AtWork DEF Sound
<1>5. /\ conn' \in [Conns -> Ends] /\ conn'[c] = r
      /\ \A d \in Conns : d # c => conn'[d] = conn[d]
  BY <1>1, <1>3 DEF IInv, ServerInv
<1> QED
  BY <1>1, <1>4, <1>5, EndChanges

LEMMA ScannerEndsStep ==
  ASSUME IInv, NEW c \in Conns, ScannerStops(c) \/ StreamEnds(c)
  PROVE  IInv'
<1> DEFINE r == [conn[c] EXCEPT !.scanner = "ended"]
<1>1. /\ conn[c].scanner \in {"reading", "holding"} /\ Becomes(c, r)
      /\ UNCHANGED <<log, chosen, connected, lines, es, fresh>>
  BY DEF ScannerStops, StreamEnds, GivesUp
<1>2. conn[c] # Free
  BY <1>1 DEF Free
<1>3. /\ r \in Ends /\ r.next = conn[c].next /\ r.chan = conn[c].chan /\ r.of = conn[c].of
      /\ r.handler = conn[c].handler /\ r.scanner = "ended"
  BY <1>2, AtWork DEF Ends
<1> HIDE DEF r
<1>4. Sound(r)
  BY <1>2, <1>3, AtWork DEF Sound
<1>5. es = c => FollowsOn(r)
  BY <1>2, <1>3, AtWork DEF FollowsOn, Oldest
<1> QED
  BY <1>1, <1>3, <1>4, <1>5, BecomesSound

LEMMA ScannerPutsStep ==
  ASSUME IInv, NEW c \in Conns, ScannerPuts(c)
  PROVE  IInv'
<1> DEFINE r == [conn[c] EXCEPT !.scanner = "reading", !.next = conn[c].next + 1,
                   !.chan = Append(conn[c].chan, conn[c].next)]
<1>1. /\ conn[c].scanner = "holding" /\ Put(c) # conn[c] /\ Becomes(c, Put(c))
      /\ UNCHANGED <<log, chosen, connected, lines, es, fresh>>
  BY DEF ScannerPuts
<1>2. conn[c] # Free
  BY <1>1 DEF Free
<1>3. HasRoom(c)
  <2>1. CASE ~HasRoom(c)
    <3>1. Put(c) = conn[c]
      BY <1>1, <1>2, <2>1, AtWork DEF Put, Ends
    <3> QED
      BY <1>1, <3>1
  <2> QED
    BY <2>1
<1>4. Put(c) = r
  BY <1>3 DEF Put
<1>5. /\ r.next = conn[c].next + 1 /\ r.chan = Append(conn[c].chan, conn[c].next)
      /\ r.of = conn[c].of /\ r.handler = conn[c].handler /\ r.scanner = "reading"
      /\ r \in Ends
  <2>1. /\ conn[c] \in Ends /\ conn[c].next + 1 \in Nat
        /\ Append(conn[c].chan, conn[c].next) \in Seq(Nat)
    BY <1>2, AtWork, AppendProperties
  <2> QED
    BY <2>1 DEF Ends
<1> HIDE DEF r
<1>6. /\ Len(r.chan) = Len(conn[c].chan) + 1 /\ Before(r.chan, r.next)
      /\ Oldest(r) = Oldest(conn[c])
  <2>1. /\ conn[c].next \in Nat /\ conn[c].chan \in Seq(Nat) /\ Before(conn[c].chan, conn[c].next)
    BY <1>2, AtWork DEF Sound
  <2> QED
    BY <1>5, <2>1, OldestStays
<1>7. /\ Len(r.chan) <= Cap /\ r.next <= log[r.of] + 1 /\ r.of \in Services
  <2>1. /\ conn[c].next <= log[conn[c].of] /\ Len(conn[c].chan) < Cap
        /\ conn[c].next \in Nat /\ Len(conn[c].chan) \in Nat
        /\ log[conn[c].of] \in Nat /\ conn[c].of \in Services
    BY <1>1, <1>2, <1>3, AtWork DEF HasRoom, Sound
  <2> QED
    BY <1>5, <1>6, <2>1, Constants
<1>8. Sound(r)
  BY <1>5, <1>6, <1>7 DEF Sound
<1>9. es = c => FollowsOn(r)
  BY <1>2, <1>5, <1>6, AtWork DEF FollowsOn
<1> QED
  BY <1>1, <1>4, <1>5, <1>8, <1>9, BecomesSound

\* The line that the handler takes is the oldest one of the channel.
LEMMA OldestTaken ==
  ASSUME NEW q, NEW r, q.next \in Nat, q.chan \in Seq(Nat), Before(q.chan, q.next),
         q.chan # <<>>, r.next = q.next, r.chan = Tail(q.chan)
  PROVE  /\ r.chan \in Seq(Nat) /\ Len(r.chan) = Len(q.chan) - 1 /\ Before(r.chan, r.next)
         /\ Oldest(q) = Head(q.chan) /\ Oldest(r) = Head(q.chan) + 1
         /\ Head(q.chan) \in Nat /\ Head(q.chan) > 0 /\ Head(q.chan) < q.next
<1>1. /\ Tail(q.chan) \in Seq(Nat) /\ Len(Tail(q.chan)) = Len(q.chan) - 1
      /\ Before(Tail(q.chan), q.next)
      /\ Head(q.chan) = q.next - Len(q.chan) /\ q.next - Len(Tail(q.chan)) = Head(q.chan) + 1
      /\ Head(q.chan) \in Nat /\ Head(q.chan) > 0 /\ Head(q.chan) < q.next
  BY TakeFirst
<1> QED
  BY <1>1 DEF Oldest

\* The order of the lines after one more, which is the first of its connection or
\* follows the last one shown.
LEMMA AddedInOrder ==
  ASSUME lines \in Seq(Line), Len(lines) <= MAX_LINES, LinesInOrder,
         NEW l \in Line, lines' = Added(l), UNCHANGED chosen, ~paused, l.of = service,
         l.first \/ (lines # <<>> /\ lines[Len(lines)].n + 1 = l.n)
  PROVE  LinesInOrder'
<1>1. /\ Len(lines) \in Nat /\ Len(lines') \in Nat /\ lines'[Len(lines')] = l /\ Len(lines') > 0
      /\ ~paused' /\ service' = service
  <2>1. lines' \in Seq(Line) /\ lines'[Len(lines')] = l /\ Len(lines') > 0
    BY AddedLine
  <2>2. ~paused' /\ service' = service
    BY DEF chosen
  <2> QED
    BY <2>1, <2>2
<1>2. PICK k \in Nat :
        /\ Len(lines') + k = Len(lines) + 1
        /\ \A i \in 1..Len(lines') - 1 : lines'[i] = lines[i + k]
  BY AddedLine
<1>3. \A i \in 1..Len(lines) : lines[i].of = service
  BY DEF LinesInOrder
<1>4. \A i \in 1..Len(lines') : lines'[i].of = service
  <2> SUFFICES ASSUME NEW i \in 1..Len(lines') PROVE lines'[i].of = service
    OBVIOUS
  <2>1. CASE i = Len(lines')
    BY <1>1, <2>1
  <2>2. CASE i # Len(lines')
    <3>1. i \in 1..Len(lines') - 1 /\ i + k \in 1..Len(lines)
      BY <1>1, <1>2, <2>2
    <3> QED
      BY <1>2, <1>3, <3>1
  <2> QED
    BY <2>1, <2>2
<1>5. ASSUME NEW i \in 1..Len(lines'), i > 1, ~lines'[i].first
      PROVE  lines'[i].n = lines'[i - 1].n + 1
  <2>1. /\ i - 1 \in 1..Len(lines') - 1 /\ i - 1 + k \in 1..Len(lines)
    BY <1>1, <1>2, <1>5
  <2>2. lines'[i - 1] = lines[i - 1 + k]
    BY <1>2, <2>1
  <2>3. CASE i = Len(lines')
    <3>1. lines'[i] = l /\ ~l.first
      BY <1>1, <1>5, <2>3
    <3>2. i - 1 + k = Len(lines)
      BY <1>1, <1>2, <2>3
    <3>3. lines[Len(lines)].n + 1 = l.n
      BY <3>1
    <3> QED
      BY <2>2, <3>1, <3>2, <3>3
  <2>4. CASE i # Len(lines')
    <3>1. i \in 1..Len(lines') - 1 /\ i + k \in 1..Len(lines) /\ i + k > 1
          /\ i - 1 + k = (i + k) - 1
      BY <1>1, <1>2, <1>5, <2>4
    <3>2. lines'[i] = lines[i + k]
      BY <1>2, <3>1
    <3>3. lines[i + k].n = lines[(i + k) - 1].n + 1
      BY <1>5, <3>1, <3>2 DEF LinesInOrder
    <3> QED
      BY <2>2, <3>1, <3>2, <3>3
  <2> QED
    BY <2>3, <2>4
<1>6. 1 \in 1..Len(lines')
  BY <1>1
<1> QED
  BY <1>1, <1>4, <1>5, <1>6 DEF LinesInOrder

\* A line before the one to be read next has been logged.
LEMMA Within ==
  ASSUME NEW head \in Nat, NEW next \in Nat, NEW logged \in Nat, NEW max \in Nat,
         head < next, next <= logged + 1, logged <= max
  PROVE  head <= max
OBVIOUS

LEMMA HandlerSendsStep ==
  ASSUME IInv, NEW c \in Conns, HandlerSends(c)
  PROVE  IInv'
<1> DEFINE r == [conn[c] EXCEPT !.chan = Tail(conn[c].chan)]
           l == [of |-> conn[c].of, n |-> Head(conn[c].chan), first |-> fresh]
<1>1. /\ conn[c].handler = "serving" /\ conn[c].chan # <<>>
      /\ conn' = [conn EXCEPT ![c] = r]
      /\ UNCHANGED <<log, chosen, connected, es>>
  BY DEF HandlerSends
<1>2. conn[c] # Free
  BY <1>1 DEF Free
<1>3. /\ conn[c].next \in Nat /\ conn[c].chan \in Seq(Nat) /\ Before(conn[c].chan, conn[c].next)
      /\ conn[c] \in Ends /\ Len(conn[c].chan) \in Nat /\ Len(conn[c].chan) <= Cap
      /\ conn[c].of \in Services /\ conn[c].next <= log[conn[c].of] + 1
      /\ log[conn[c].of] \in Nat
      /\ conn[c].scanner = "holding" => conn[c].next <= log[conn[c].of]
  BY <1>2, AtWork DEF Sound
<1>4. /\ r.next = conn[c].next /\ r.chan = Tail(conn[c].chan) /\ r.of = conn[c].of
      /\ r.handler = conn[c].handler /\ r.scanner = conn[c].scanner
  BY <1>3 DEF Ends
<1>5. Tail(conn[c].chan) \in Seq(Nat)
  BY <1>1, <1>3, HeadTailProperties
<1>6. r \in Ends
  BY <1>3, <1>5 DEF Ends
<1>7. l.of = conn[c].of /\ l.n = Head(conn[c].chan) /\ l.first = fresh
  OBVIOUS
<1>8. fresh \in BOOLEAN => (1 <= Head(conn[c].chan) /\ Head(conn[c].chan) <= MaxLog[conn[c].of]
                              /\ Head(conn[c].chan) \in Nat => l \in Line)
  BY <1>3, LineShape
<1> HIDE DEF r, l
<1>9. /\ Len(r.chan) = Len(conn[c].chan) - 1 /\ Before(r.chan, r.next)
      /\ Oldest(conn[c]) = Head(conn[c].chan) /\ Oldest(r) = Head(conn[c].chan) + 1
      /\ Head(conn[c].chan) \in Nat /\ Head(conn[c].chan) > 0 /\ Head(conn[c].chan) < conn[c].next
  BY <1>1, <1>3, <1>4, OldestTaken
<1>10. Sound(r)
  <2>1. Len(r.chan) <= Cap
    BY <1>3, <1>9, Constants
  <2> QED
    BY <1>3, <1>4, <1>6, <1>9, <2>1 DEF Sound
<1>11. /\ conn' \in [Conns -> Ends] /\ conn'[c] = r
       /\ \A d \in Conns : d # c => conn'[d] = conn[d]
  BY <1>1, <1>6 DEF IInv, ServerInv
<1>12. CASE es # c
  <2>1. UNCHANGED <<log, chosen, connected, lines, es, fresh>>
    BY <1>1, <1>12 DEF HandlerSends
  <2> QED
    BY <1>10, <1>11, <1>12, <2>1, EndChanges
<1>13. CASE es = c
  <2>1. lines' = Added(l) /\ fresh' = FALSE
    BY <1>13 DEF HandlerSends, l
  <2>2. /\ FollowsOn(conn[c]) /\ ~paused
    <3>1. es # "gone"
      BY <1>13, Constants
    <3> QED
      BY <1>2, <1>13, <3>1, AtWork DEF IInv, StreamInv
  <2>3. /\ conn[c].of = service
        /\ fresh \/ (lines # <<>> /\ lines[Len(lines)].n + 1 = Head(conn[c].chan))
    BY <1>9, <2>2 DEF FollowsOn
  <2>4. /\ lines \in Seq(Line) /\ Len(lines) <= MAX_LINES /\ LinesInOrder /\ fresh \in BOOLEAN
        /\ log[conn[c].of] <= MaxLog[conn[c].of]
    BY <1>3 DEF IInv, PageTypes, ServerInv
  <2>5. Head(conn[c].chan) <= MaxLog[conn[c].of]
    <3>1. MaxLog[conn[c].of] \in Nat
      BY <1>3, Constants
    <3>2. /\ conn[c].next \in Nat /\ conn[c].next <= log[conn[c].of] + 1
          /\ log[conn[c].of] \in Nat /\ Head(conn[c].chan) \in Nat
          /\ Head(conn[c].chan) < conn[c].next
      BY <1>3, <1>9
    <3> QED
      BY <2>4, <3>1, <3>2, Within
  <2>6. l \in Line
    BY <1>8, <1>9, <2>4, <2>5
  <2>7. LinesInOrder'
    BY <1>1, <1>7, <2>1, <2>2, <2>3, <2>4, <2>6, AddedInOrder
  <2>8. /\ lines' \in Seq(Line) /\ Len(lines') <= MAX_LINES
        /\ Len(lines') > 0 /\ lines'[Len(lines')] = l
    BY <2>1, <2>4, <2>6, AddedLine
  <2>9. PageTypes'
    BY <1>1, <2>1, <2>8 DEF PageTypes, chosen, IInv
  <2>10. ServerInv'
    <3>1. \A d \in Conns : Sound(conn[d])'
      BY <1>1, <1>10, <1>11 DEF IInv, ServerInv, Sound
    <3> QED
      BY <1>1, <1>11, <3>1 DEF IInv, ServerInv
  <2>11. StreamInv'
    <3>1. /\ lines' # <<>> /\ lines'[Len(lines')].n + 1 = Oldest(conn'[c])
      BY <1>7, <1>9, <1>11, <2>8
    <3>2. conn'[c].handler = "serving" /\ conn'[c].of = service' /\ ~paused' /\ es' = c
      BY <1>1, <1>4, <1>11, <1>13, <2>2, <2>3 DEF chosen
    <3> QED
      BY <3>1, <3>2 DEF StreamInv, FollowsOn, Oldest
  <2> QED
    BY <2>7, <2>9, <2>10, <2>11 DEF IInv
<1> QED
  BY <1>12, <1>13

LEMMA HandlerEndsStep ==
  ASSUME IInv, NEW c \in Conns, HandlerEnds(c)
  PROVE  IInv'
<1> DEFINE r == [conn[c] EXCEPT !.handler = "over", !.ctx = "done"]
<1>1. /\ conn[c].handler = "serving" /\ Becomes(c, r)
      /\ UNCHANGED <<log, chosen, lines, fresh>>
  BY DEF HandlerEnds
<1>2. conn[c] # Free
  BY <1>1 DEF Free
<1>3. /\ r \in Ends /\ r.next = conn[c].next /\ r.chan = conn[c].chan /\ r.of = conn[c].of
      /\ r.scanner = conn[c].scanner
  BY <1>2, AtWork DEF Ends
<1> HIDE DEF r
<1>4. Sound(r)
  BY <1>2, <1>3, AtWork DEF Sound
<1>5. CASE es # c
  <2>1. UNCHANGED <<log, chosen, connected, lines, es, fresh>>
    BY <1>1, <1>5 DEF HandlerEnds
  <2> QED
    BY <1>1, <1>3, <1>4, <1>5, <2>1, BecomesSound
<1>6. CASE es = c
  <2>1. es' = "trying" /\ connected' = FALSE
    BY <1>6 DEF HandlerEnds, Tries
  <2>2. conn \in [Conns -> Ends] /\ conn' = [conn EXCEPT ![c] = Rest(r)]
    BY <1>1 DEF Becomes, IInv, ServerInv
  <2>3. Rest(r) \in Ends /\ Sound(Rest(r))
    BY <1>4, RestIsSound
  <2>4. ServerInv'
    <3>1. /\ conn' \in [Conns -> Ends] /\ conn'[c] = Rest(r)
          /\ \A d \in Conns : d # c => conn'[d] = conn[d]
      BY <2>2, <2>3
    <3>2. \A d \in Conns : Sound(conn[d])'
      BY <1>1, <2>3, <3>1 DEF IInv, ServerInv, Sound
    <3> QED
      BY <1>1, <3>1, <3>2 DEF IInv, ServerInv
  <2>5. ~paused
    BY <1>6, Constants DEF IInv, StreamInv
  <2>6. PageTypes' /\ LinesInOrder'
    BY <1>1, <2>1 DEF IInv, PageTypes, LinesInOrder, chosen
  <2>7. StreamInv'
    BY <1>1, <2>1, <2>5, Constants DEF StreamInv, chosen
  <2> QED
    BY <2>4, <2>6, <2>7 DEF IInv
<1> QED
  BY <1>5, <1>6

LEMMA TailStartBounds ==
  ASSUME NEW s \in Services, NEW t \in Nat, log[s] \in Nat
  PROVE  /\ TailStart(s, t) \in Nat /\ TailStart(s, t) > 0
         /\ TailStart(s, t) <= log[s] + 1
BY DEF TailStart

LEMMA StartStep ==
  ASSUME IInv, Start
  PROVE  IInv'
<1> DEFINE from == TailStart(service, tail)
           r == [of |-> service, scanner |-> "reading", next |-> from,
                 chan |-> <<>>, handler |-> "serving", ctx |-> "live"]
<1>1. /\ es = "trying" /\ \E c \in Conns : conn[c] = Free
      /\ es' = CHOOSE c \in Conns : conn[c] = Free
      /\ conn' = [conn EXCEPT ![es'] = r]
      /\ connected' = TRUE /\ fresh' = TRUE /\ UNCHANGED <<log, chosen, lines>>
  BY DEF Start
<1>2. PICK c \in Conns : c = es'
  BY <1>1
<1>3. /\ service \in Services /\ tail \in Nat /\ log[service] \in Nat /\ ~paused
      /\ conn \in [Conns -> Ends]
  BY <1>1, Constants DEF IInv, PageTypes, ServerInv, StreamInv
<1>4. from \in Nat /\ from > 0 /\ from <= log[service] + 1
  BY <1>3, TailStartBounds
<1> HIDE DEF from
<1>5. /\ r \in Ends /\ r.of = service /\ r.scanner = "reading" /\ r.next = from
      /\ r.chan = <<>> /\ r.handler = "serving"
  BY <1>3, <1>4 DEF Ends
<1> HIDE DEF r
<1>6. Sound(r)
  <2>1. Len(r.chan) = 0 /\ Len(r.chan) <= Cap /\ Before(r.chan, r.next)
    BY <1>4, <1>5, Constants DEF Before
  <2> QED
    BY <1>3, <1>4, <1>5, <2>1 DEF Sound
<1>7. /\ conn' \in [Conns -> Ends] /\ conn'[c] = r
      /\ \A d \in Conns : d # c => conn'[d] = conn[d]
  BY <1>1, <1>2, <1>3, <1>5
<1>8. ServerInv'
  <2>1. \A d \in Conns : Sound(conn[d])'
    BY <1>1, <1>6, <1>7 DEF IInv, ServerInv, Sound
  <2> QED
    BY <1>1, <1>7, <2>1 DEF IInv, ServerInv
<1>9. PageTypes' /\ LinesInOrder'
  BY <1>1, <1>2 DEF IInv, PageTypes, LinesInOrder, chosen
<1>10. StreamInv'
  BY <1>1, <1>2, <1>3, <1>5, <1>7 DEF StreamInv, FollowsOn, chosen
<1> QED
  BY <1>8, <1>9, <1>10 DEF IInv

LEMMA LogsStep ==
  ASSUME IInv, NEW s \in Services, Logs(s)
  PROVE  IInv'
<1>1. /\ log[s] < MaxLog[s] /\ log' = [log EXCEPT ![s] = log[s] + 1]
      /\ UNCHANGED <<conn, chosen, connected, lines, es, fresh>>
  BY DEF Logs
<1>2. /\ log \in [Services -> Nat] /\ \A t \in Services : log[t] <= MaxLog[t]
      /\ conn \in [Conns -> Ends] /\ \A c \in Conns : Sound(conn[c])
  BY DEF IInv, ServerInv
<1>3. /\ log' \in [Services -> Nat]
      /\ \A t \in Services : log'[t] <= MaxLog[t] /\ log[t] <= log'[t]
  <2>1. log[s] \in Nat /\ MaxLog[s] \in Nat
    BY <1>2, Constants
  <2> QED
    BY <1>1, <1>2, <2>1
<1>4. ASSUME NEW c \in Conns PROVE Sound(conn[c])'
  <2>1. PICK r \in Ends : r = conn[c] /\ r = conn'[c]
    BY <1>1, <1>2
  <2>2. /\ Len(r.chan) <= Cap /\ Before(r.chan, r.next)
        /\ r # Free => /\ r.of \in Services /\ r.next <= log[r.of] + 1
                       /\ r.scanner = "holding" => r.next <= log[r.of]
    BY <1>2, <2>1 DEF Sound
  <2>3. ASSUME r # Free
        PROVE  /\ r.next <= log'[r.of] + 1
               /\ r.scanner = "holding" => r.next <= log'[r.of]
    <3>1. r.of \in Services /\ r.next \in Nat
      BY <2>2, <2>3 DEF Ends
    <3>2. log[r.of] \in Nat /\ log'[r.of] \in Nat /\ log[r.of] <= log'[r.of]
      BY <1>2, <1>3, <3>1
    <3> QED
      BY <2>2, <2>3, <3>1, <3>2
  <2> QED
    BY <2>1, <2>2, <2>3 DEF Sound
<1>5. ServerInv'
  BY <1>1, <1>2, <1>3, <1>4 DEF ServerInv
<1>6. PageTypes' /\ StreamInv' /\ LinesInOrder'
  BY <1>1 DEF IInv, PageTypes, StreamInv, FollowsOn, LinesInOrder, chosen
<1> QED
  BY <1>5, <1>6 DEF IInv

LEMMA StepInv == IInv /\ [Next]_vars => IInv'
<1> SUFFICES ASSUME IInv, [Next]_vars PROVE IInv'
  OBVIOUS
<1>1. CASE OpenPage \/ LeavePage \/ ChooseOne \/ Breaks \/ Refused
  BY <1>1, PageStep
<1>2. CASE Start
  BY <1>2, StartStep
<1>3. ASSUME NEW s \in Services, Logs(s) PROVE IInv'
  BY <1>3, LogsStep
<1>4. ASSUME NEW c \in Conns,
             \/ Disconnect(c) \/ ScannerReads(c) \/ ScannerPuts(c) \/ ScannerStops(c)
             \/ StreamEnds(c) \/ HandlerSends(c) \/ HandlerEnds(c)
      PROVE  IInv'
  BY <1>4, DisconnectStep, ScannerReadsStep, ScannerPutsStep, ScannerEndsStep,
     HandlerSendsStep, HandlerEndsStep
<1>5. CASE UNCHANGED vars
  BY <1>5 DEF vars, chosen, IInv, ServerInv, Sound, PageTypes, StreamInv, FollowsOn, LinesInOrder
<1> QED
  BY <1>1, <1>2, <1>3, <1>4, <1>5 DEF Next

LEMMA Invariant == Spec => []IInv
BY InitInv, StepInv, PTL DEF Spec

LEMMA AllBefore ==
  ASSUME NEW chan \in Seq(Nat), NEW n \in Nat, NEW max \in Nat, Before(chan, n), n <= max + 1
  PROVE  n \in 1..max + 1 /\ chan \in Seq(1..max)
<1>1. Len(chan) \in Nat /\ Len(chan) < n
  BY DEF Before
<1>2. \A i \in 1..Len(chan) : chan[i] \in 1..max
  BY <1>1 DEF Before
<1>3. chan \in Seq(1..max)
  BY <1>1, <1>2
<1> QED
  BY <1>1, <1>3

\* The numbers in a channel are of lines that the service has logged.
LEMMA ChannelTypes ==
  ASSUME ServerInv, NEW c \in Conns, conn[c] # Free
  PROVE  /\ conn[c].next \in 1..MaxLog[conn[c].of] + 1
         /\ conn[c].chan \in Seq(Numbers(conn[c].of))
<1>1. conn[c] \in Ends /\ Sound(conn[c])
  BY DEF ServerInv
<1>2. /\ conn[c].chan \in Seq(Nat) /\ conn[c].next \in Nat /\ Before(conn[c].chan, conn[c].next)
      /\ conn[c].of \in Services /\ conn[c].next <= log[conn[c].of] + 1
  BY <1>1 DEF Sound, Ends
<1>3. log[conn[c].of] \in Nat /\ log[conn[c].of] <= MaxLog[conn[c].of] /\ MaxLog[conn[c].of] \in Nat
  BY <1>2, Constants DEF ServerInv
<1>4. conn[c].next <= MaxLog[conn[c].of] + 1
  BY <1>2, <1>3
<1> QED
  BY <1>2, <1>3, <1>4, AllBefore DEF Numbers

\* Every variable keeps its type; the channel and the page keep to their sizes
\* (HandleLogsStream and the logs page).
THEOREM TypeCorrect == Spec => []TypeOK
<1>1. IInv => TypeOK
  <2> SUFFICES ASSUME IInv PROVE TypeOK
    OBVIOUS
  <2>1. \A s \in Services : log[s] \in 0..MaxLog[s]
    <3> SUFFICES ASSUME NEW s \in Services PROVE log[s] \in 0..MaxLog[s]
      OBVIOUS
    <3>1. log[s] \in Nat /\ log[s] <= MaxLog[s]
      BY DEF IInv, ServerInv
    <3>2. MaxLog[s] \in Nat
      BY Constants
    <3> QED
      BY <3>1, <3>2
  <2>2. ASSUME NEW c \in Conns
        PROVE  /\ conn[c] = Free \/ conn[c].of \in Services
               /\ conn[c].scanner \in {"reading", "holding", "ended"}
               /\ conn[c].handler \in {"serving", "over"} /\ conn[c].ctx \in {"live", "done"}
               /\ Len(conn[c].chan) <= Cap
    <3>1. conn[c] \in Ends /\ Sound(conn[c])
      BY DEF IInv, ServerInv
    <3>2. Len(conn[c].chan) <= Cap /\ (conn[c] = Free \/ conn[c].of \in Services)
      BY <3>1 DEF Sound
    <3>3. /\ conn[c].scanner \in {"reading", "holding", "ended"}
          /\ conn[c].handler \in {"serving", "over"} /\ conn[c].ctx \in {"live", "done"}
      BY <3>1 DEF Ends
    <3> QED
      BY <3>2, <3>3
  <2>3. \A c \in Conns : conn[c] # Free =>
          /\ conn[c].next \in 1..MaxLog[conn[c].of] + 1
          /\ conn[c].chan \in Seq(Numbers(conn[c].of))
    BY ChannelTypes DEF IInv
  <2>4. PageTypes
    BY DEF IInv
  <2> QED
    BY <2>1, <2>2, <2>3, <2>4 DEF TypeOK, PageTypes
<1> QED
  BY <1>1, Invariant, PTL

\* The page shows the lines of the service that was chosen, none left out and none
\* twice but where the browser connected again: whatever the channel holds back and
\* however connections end (logs.go, app/logs/page.tsx).
THEOREM LinesKeepOrder == Spec => []LinesInOrder
<1>1. IInv => LinesInOrder
  BY DEF IInv
<1> QED
  BY <1>1, Invariant, PTL
=============================================================================
