---------------------------- MODULE ScreensProofs ----------------------------
(* What a view shows and how it ends, whatever the views are: no busy flag    *)
(* outlives the calls of its handlers as long as these are accountable for    *)
(* their flags; what is shown is what the server has as long as they read     *)
(* again what they change; and it is of the selected item as long as they     *)
(* load it for that item alone.  The catalogue of the application is one of   *)
(* which all this holds: the run evaluates it.                                *)
EXTENDS Screens, FiniteSetTheorems, TLAPS

(* The catalogue: handlers are accountable and their stages a sequence.       *)
Sound(v) == /\ Accountable(v)
            /\ \A h \in DOMAIN v.handlers :
                  /\ Len(v.handlers[h].stages) \in Nat
                  /\ DOMAIN v.handlers[h].stages = 1 .. Len(v.handlers[h].stages)
                  /\ v.handlers[h].stages # <<>> => Len(v.handlers[h].stages) >= 1

IsCall(c) ==
    /\ c = [handler |-> c.handler, item |-> c.item, stage |-> c.stage,
            live |-> c.live, home |-> c.home, waits |-> c.waits, got |-> c.got]
    /\ c.handler \in Play
    /\ c.stage \in 1 .. Len(H(c.handler).stages)
    /\ c.live \in BOOLEAN /\ c.home \in BOOLEAN

(* The call that will reset f: still listened to and, if the flag is set      *)
(* late, in its last stage.                                                   *)
Resets(c, f) == /\ c.live /\ H(c.handler).flag = f
                /\ H(c.handler).late => LastStage(c)

IInv == /\ Sound(view)
        /\ calls = [i \in InFlight |-> calls[i]]
        /\ InFlight \subseteq Nat /\ IsFiniteSet(InFlight)
        /\ \A i \in InFlight : IsCall(calls[i])
        /\ NoFlag \notin flags
        /\ \A f \in flags \ Told : \E i \in InFlight : Resets(calls[i], f)

LEMMA PlaysSound ==
    ASSUME NEW v, Sound(v), NEW p \in Plays(v)
    PROVE  Sound(p)
<1>1. PICK P \in {Played(v.handlers, hs) : hs \in Playable(v.handlers)} :
         p = [v EXCEPT !.mount = @ \cap P, !.opened = @ \cap P, !.handlers = [h \in P |-> v.handlers[h]]]
  BY DEF Plays
<1>2. P \subseteq DOMAIN v.handlers
  BY <1>1 DEF Played, Playable, Along, Calling, kSubset
<1>3. "handlers" \in DOMAIN v
  BY DEF Sound, Accountable
<1>4. "handlers" \in DOMAIN p /\ p.handlers = [h \in P |-> v.handlers[h]]
  BY <1>1, <1>3
<1>5. QED
  BY <1>2, <1>4 DEF Sound, Accountable

LEMMA FreeIsFree ==
    ASSUME IsFiniteSet(InFlight), InFlight \subseteq Nat
    PROVE  Free \notin InFlight /\ Free \in Nat
<1> DEFINE n == Cardinality(InFlight)
           N == 1 .. (n + 1)
<1>1. n \in Nat
  BY FS_CardinalityType
<1>2. IsFiniteSet(N) /\ Cardinality(N) = n + 1
  BY <1>1, FS_Interval
<1>3. \E i \in N : i \notin InFlight
  <2> SUFFICES ASSUME N \subseteq InFlight PROVE FALSE
    OBVIOUS
  <2>1. Cardinality(N) <= n
    BY FS_Subset
  <2> QED
    BY <1>1, <1>2, <2>1
<1>4. QED
  BY <1>1, <1>3 DEF Free

LEMMA FlagOfHandler ==
    ASSUME Sound(view), NEW h \in Play
    PROVE  /\ H(h).flag \notin Told => "error" \in H(h).ends /\ H(h).ends \cap {"answer", "first"} # {}
           /\ H(h).guarded \/ H(h).restarts => H(h).stages # <<>>
           /\ H(h).late => H(h).flag # NoFlag /\ Len(H(h).stages) = 2 /\ ~H(h).guarded
           /\ \A g \in Play : H(h).flag # NoFlag /\ H(g).flag = H(h).flag => H(g).kept = H(h).kept
           /\ Len(H(h).stages) \in Nat /\ (H(h).stages # <<>> => Len(H(h).stages) >= 1)
           /\ DOMAIN H(h).stages = 1 .. Len(H(h).stages)
BY DEF Sound, Accountable, H, Play

(* A call of which only what listens to it changes.                           *)
LEMMA CallDetached ==
    ASSUME NEW d, IsCall(d), NEW l \in BOOLEAN, NEW m \in BOOLEAN,
           NEW e, e = [[d EXCEPT !.live = l] EXCEPT !.home = m]
    PROVE  e = [handler |-> d.handler, item |-> d.item, stage |-> d.stage,
                live |-> l, home |-> m, waits |-> d.waits, got |-> d.got]
<1> DEFINE b == [handler |-> d.handler, item |-> d.item, stage |-> d.stage,
                 live |-> l, home |-> d.home, waits |-> d.waits, got |-> d.got]
<1>1. [d EXCEPT !.live = l] = b
  BY DEF IsCall
<1>2. [b EXCEPT !.home = m] = [handler |-> d.handler, item |-> d.item, stage |-> d.stage,
                               live |-> l, home |-> m, waits |-> d.waits, got |-> d.got]
  OBVIOUS
<1> HIDE DEF b
<1>3. QED
  BY <1>1, <1>2

(* Beginning a handler: the calls in flight go on, perhaps not listened to    *)
(* any more, and a call of the handler joins them if it sends anything.       *)
Carried(j) == /\ calls'[j].handler = calls[j].handler /\ calls'[j].item = calls[j].item
              /\ calls'[j].stage = calls[j].stage
              /\ calls'[j].waits = calls[j].waits /\ calls'[j].got = calls[j].got
AboutItem(h, item) == IF H(h).ofChosen THEN chosen ELSE IF H(h).selects \/ H(h).opens THEN item ELSE NoItem
Begun(h, item) == [handler |-> h, item |-> AboutItem(h, item), stage |-> 1, live |-> TRUE, home |-> TRUE,
                   waits |-> Requests(H(h).stages[1]), got |-> {}]

LEMMA BeginCalls ==
    ASSUME IInv, NEW h \in Play, NEW item, Begin(h, item)
    PROVE  /\ \A j \in InFlight :
                 /\ Carried(j) /\ IsCall(calls'[j])
                 /\ calls'[j].live = (calls[j].live /\ ~Cancels(h, calls[j].handler))
                 /\ calls'[j].home = (calls[j].home /\ ~H(h).restarts)
           /\ calls' = [j \in InFlight' |-> calls'[j]]
           /\ H(h).stages = <<>> => InFlight' = InFlight
           /\ H(h).stages # <<>> => /\ InFlight' = InFlight \cup {Free} /\ calls'[Free] = Begun(h, item)
                                    /\ Free \notin InFlight /\ Free \in Nat
<1> DEFINE o == H(h)
           about == IF o.ofChosen THEN chosen ELSE IF o.selects \/ o.opens THEN item ELSE NoItem
           kept == [j \in InFlight |-> [calls[j] EXCEPT !.live = @ /\ ~Cancels(h, calls[j].handler),
                                                        !.home = @ /\ ~o.restarts]]
           c == [handler |-> h, item |-> about, stage |-> 1, live |-> TRUE, home |-> TRUE,
                 waits |-> Requests(o.stages[1]), got |-> {}]
<1>1. view' = view
  BY DEF Begin
<1>2. \A j \in InFlight :
         /\ kept[j] = [handler |-> calls[j].handler, item |-> calls[j].item, stage |-> calls[j].stage,
                       live |-> calls[j].live /\ ~Cancels(h, calls[j].handler),
                       home |-> calls[j].home /\ ~o.restarts, waits |-> calls[j].waits, got |-> calls[j].got]
         /\ IsCall(kept[j])
  <2> SUFFICES ASSUME NEW j \in InFlight
               PROVE  /\ kept[j] = [handler |-> calls[j].handler, item |-> calls[j].item, stage |-> calls[j].stage,
                                    live |-> calls[j].live /\ ~Cancels(h, calls[j].handler),
                                    home |-> calls[j].home /\ ~o.restarts, waits |-> calls[j].waits, got |-> calls[j].got]
                      /\ IsCall(kept[j])
    OBVIOUS
  <2> DEFINE d == calls[j]
             l == d.live /\ ~Cancels(h, d.handler)
             m == d.home /\ ~o.restarts
  <2>1. IsCall(d)
    BY DEF IInv
  <2>2. l \in BOOLEAN /\ m \in BOOLEAN
    OBVIOUS
  <2>3. kept[j] = [[d EXCEPT !.live = l] EXCEPT !.home = m]
    <3> HIDE DEF o
    <3>1. kept[j] = [d EXCEPT !.live = l, !.home = m]
      OBVIOUS
    <3>2. QED
      BY <3>1
  <2> HIDE DEF l, m, kept
  <2>4. kept[j] = [handler |-> d.handler, item |-> d.item, stage |-> d.stage,
                   live |-> l, home |-> m, waits |-> d.waits, got |-> d.got]
    BY <2>1, <2>2, <2>3, CallDetached
  <2>5. IsCall(kept[j])
    BY <2>1, <2>2, <2>4 DEF IsCall
  <2>6. QED
    BY <2>4, <2>5 DEF l, m
<1> HIDE DEF kept
<1>3. \A j \in InFlight : calls'[j] = kept[j] =>
         /\ Carried(j) /\ IsCall(calls'[j])
         /\ calls'[j].live = (calls[j].live /\ ~Cancels(h, calls[j].handler))
         /\ calls'[j].home = (calls[j].home /\ ~H(h).restarts)
  <2> SUFFICES ASSUME NEW j \in InFlight, calls'[j] = kept[j]
               PROVE  /\ Carried(j) /\ IsCall(calls'[j])
                      /\ calls'[j].live = (calls[j].live /\ ~Cancels(h, calls[j].handler))
                      /\ calls'[j].home = (calls[j].home /\ ~H(h).restarts)
    OBVIOUS
  <2> DEFINE d == calls[j]
             l == d.live /\ ~Cancels(h, d.handler)
             m == d.home /\ ~o.restarts
             e == calls'[j]
  <2>1. /\ e = [handler |-> d.handler, item |-> d.item, stage |-> d.stage,
                live |-> l, home |-> m, waits |-> d.waits, got |-> d.got]
        /\ IsCall(e)
    BY <1>2
  <2>2. l = (d.live /\ ~Cancels(h, d.handler))
    BY DEF Cancels
  <2> HIDE DEF l, m
  <2>3. Carried(j) /\ e.live = l /\ e.home = m
    BY <2>1 DEF Carried
  <2>4. QED
    BY <2>1, <2>2, <2>3 DEF m
<1>4. CASE o.stages = <<>>
  <2>1. calls' = kept
    BY <1>4 DEF Begin, kept
  <2>2. InFlight' = InFlight /\ calls' = [j \in InFlight' |-> calls'[j]]
    BY <2>1 DEF InFlight, kept
  <2>3. QED
    BY <1>3, <1>4, <2>1, <2>2
<1>5. CASE o.stages # <<>>
  <2>1. calls' = [j \in InFlight \cup {Free} |-> IF j = Free THEN c ELSE kept[j]]
    BY <1>5 DEF Begin, kept
  <2>2. Free \notin InFlight /\ Free \in Nat
    BY FreeIsFree DEF IInv
  <2>3. /\ InFlight' = InFlight \cup {Free} /\ calls'[Free] = c
        /\ \A j \in InFlight : calls'[j] = kept[j]
        /\ calls' = [j \in InFlight' |-> calls'[j]]
    BY <2>1, <2>2 DEF InFlight
  <2>4. c = Begun(h, item)
    BY DEF Begun, AboutItem
  <2> HIDE DEF c
  <2>5. QED
    BY <1>3, <1>5, <2>2, <2>3, <2>4
<1>6. QED
  BY <1>4, <1>5

(* A call goes on that is no more and no less listened to.                    *)
LEMMA BeginKeeps ==
    ASSUME IInv, NEW h \in Play, NEW item, Begin(h, item)
    PROVE  IInv'
<1> DEFINE o == H(h)
<1>1. view' = view
  BY DEF Begin
<1>2. \A j \in InFlight :
         /\ Carried(j) /\ IsCall(calls'[j])
         /\ calls'[j].live = (calls[j].live /\ ~Cancels(h, calls[j].handler))
  BY BeginCalls
<1>3. calls' = [j \in InFlight' |-> calls'[j]]
  BY BeginCalls
<1>4. CASE o.stages = <<>>
  <2>1. flags' = flags
    BY <1>4 DEF Begin
  <2>0. InFlight' = InFlight
    BY <1>4, BeginCalls
  <2>2. \A j \in InFlight : calls'[j].live = calls[j].live
    BY <1>2, <1>4, FlagOfHandler DEF IInv, IsCall, Cancels
  <2>3. \A i \in InFlight : IsCall(calls[i])'
    BY <1>1, <1>2 DEF IsCall, H, Play
  <2>4. ASSUME NEW i \in InFlight, NEW f, Resets(calls[i], f)
        PROVE  Resets(calls[i], f)'
    BY <1>1, <1>2, <2>2, <2>4 DEF Resets, LastStage, H, Carried
  <2>5. QED
    BY <1>1, <1>3, <2>0, <2>1, <2>3, <2>4 DEF IInv, Sound, Accountable
<1>5. CASE o.stages # <<>>
  <2>1. flags' = (IF o.restarts THEN flags \cap KeptFlags ELSE flags)
                 \cup (IF o.late THEN {} ELSE {o.flag} \ {NoFlag})
    BY <1>5 DEF Begin
  <2> DEFINE c == Begun(h, item)
  <2>2. /\ InFlight' = InFlight \cup {Free} /\ calls'[Free] = c
        /\ Free \notin InFlight /\ Free \in Nat
    BY <1>5, BeginCalls
  <2>3. IsCall(c) /\ c.live /\ c.handler = h /\ c.stage = 1
    BY <1>5, FlagOfHandler DEF IsCall, IInv, Begun
  <2> HIDE DEF c
  <2>4. ASSUME NEW f \in flags' \ Told
        PROVE  \E i \in InFlight' : Resets(calls[i], f)'
    <3>1. CASE f = o.flag /\ ~o.late
      BY <1>1, <2>2, <2>3, <3>1 DEF Resets, H
    <3>2. CASE f # o.flag \/ o.late
      <4>1. f \in flags /\ (o.restarts => f \in KeptFlags)
        BY <2>1, <3>2
      <4>2. PICK i \in InFlight : Resets(calls[i], f)
        BY <4>1 DEF IInv
      <4>3. ~Cancels(h, calls[i].handler)
        <5>1. calls[i].handler \in Play /\ H(calls[i].handler).flag = f /\ f # NoFlag
          BY <4>1, <4>2 DEF IInv, IsCall, Resets
        <5>2. o.guarded => calls[i].handler # h
          BY <3>2, <5>1, FlagOfHandler DEF IInv
        <5>3. o.restarts => H(calls[i].handler).kept
          BY <4>1, <5>1, FlagOfHandler DEF IInv, KeptFlags
        <5>4. QED
          BY <5>2, <5>3 DEF Cancels
      <4>4. Resets(calls[i], f)'
        BY <1>1, <1>2, <4>2, <4>3 DEF Resets, LastStage, H, Carried
      <4>5. QED
        BY <2>2, <4>4
    <3>3. QED
      BY <3>1, <3>2
  <2>5. NoFlag \notin flags'
    BY <2>1 DEF IInv
  <2>6. \A i \in InFlight' : IsCall(calls[i])'
    BY <1>1, <1>2, <2>2, <2>3 DEF IsCall, H, Play
  <2>7. IsFiniteSet(InFlight') /\ InFlight' \subseteq Nat
    BY <2>2, FS_AddElement DEF IInv
  <2>8. QED
    BY <1>1, <1>3, <2>4, <2>5, <2>6, <2>7 DEF IInv, Sound, Accountable
<1>6. QED
  BY <1>4, <1>5

LEMMA InitFlags ==
    ASSUME \A v \in DOMAIN Views : Sound(Views[v]), Init
    PROVE  IInv
<1>1. Sound(view)
  BY PlaysSound DEF Init
<1>2. calls = <<>> /\ flags = {} /\ InFlight = {}
  BY DEF Init, InFlight
<1>3. QED
  BY <1>1, <1>2, FS_EmptySet DEF IInv

(* A step that leaves the flags alone and every call with its handler, its    *)
(* stage and those that listen to it.                                         *)
LEMMA CallsGoOn ==
    ASSUME IInv, view' = view, flags' \subseteq flags, InFlight' = InFlight,
           calls' = [i \in InFlight |-> calls'[i]],
           \A i \in InFlight :
              /\ IsCall(calls[i])'
              /\ calls'[i].handler = calls[i].handler
              /\ calls'[i].stage = calls[i].stage
              /\ (calls[i].live /\ H(calls[i].handler).flag \in flags') => calls'[i].live
    PROVE  IInv'
<1>1. ASSUME NEW f \in flags' \ Told
      PROVE  \E i \in InFlight' : Resets(calls[i], f)'
  <2>1. PICK i \in InFlight : Resets(calls[i], f)
    BY DEF IInv
  <2>2. QED
    BY <2>1 DEF Resets, LastStage, H
<1>2. QED
  BY <1>1 DEF IInv, Sound, Accountable

LEMMA CallsAsTheyWere ==
    ASSUME IInv, UNCHANGED <<view, flags, calls>>
    PROVE  IInv'
<1>1. InFlight' = InFlight
  BY DEF InFlight
<1>2. \A i \in InFlight : IsCall(calls[i])'
  BY DEF IInv, IsCall, H, Play
<1>3. calls' = [i \in InFlight |-> calls'[i]]
  BY DEF IInv
<1>4. QED
  BY <1>1, <1>2, <1>3, CallsGoOn

LEMMA LeaveCalls ==
    ASSUME IInv, Leave
    PROVE  /\ InFlight' = InFlight /\ calls' = [i \in InFlight |-> calls'[i]]
           /\ \A i \in InFlight : /\ Carried(i) /\ IsCall(calls'[i])
                                  /\ calls'[i].live = (calls[i].live /\ H(calls[i].handler).kept)
<1> DEFINE left == [i \in InFlight |-> [calls[i] EXCEPT !.live = @ /\ H(calls[i].handler).kept, !.home = FALSE]]
<1>1. calls' = left
  BY DEF Leave
<1>2. ASSUME NEW i \in InFlight, calls'[i] = left[i]
      PROVE  /\ Carried(i) /\ IsCall(calls'[i])
             /\ calls'[i].live = (calls[i].live /\ H(calls[i].handler).kept)
  <2> DEFINE d == calls[i]
             l == d.live /\ H(d.handler).kept
             e == calls'[i]
  <2>1. IsCall(d)
    BY DEF IInv
  <2>2. e = [[d EXCEPT !.live = l] EXCEPT !.home = FALSE]
    <3>1. e = [d EXCEPT !.live = l, !.home = FALSE]
      BY <1>2
    <3>2. QED
      BY <3>1
  <2>3. l \in BOOLEAN
    OBVIOUS
  <2> HIDE DEF l, left
  <2>4. e = [handler |-> d.handler, item |-> d.item, stage |-> d.stage,
             live |-> l, home |-> FALSE, waits |-> d.waits, got |-> d.got]
    BY <2>1, <2>2, <2>3, CallDetached
  <2>5. IsCall(e) /\ Carried(i) /\ e.live = l
    BY <2>1, <2>3, <2>4 DEF IsCall, Carried
  <2>6. QED
    BY <2>5 DEF l
<1>3. InFlight' = InFlight /\ calls' = [i \in InFlight |-> calls'[i]]
  BY <1>1 DEF InFlight
<1> HIDE DEF left
<1>4. QED
  BY <1>1, <1>2, <1>3

LEMMA LeaveKeeps ==
    ASSUME IInv, Leave
    PROVE  IInv'
<1>1. view' = view /\ flags' = flags \cap KeptFlags
  BY DEF Leave
<1>2. /\ InFlight' = InFlight /\ calls' = [i \in InFlight |-> calls'[i]]
      /\ \A i \in InFlight : /\ Carried(i) /\ IsCall(calls'[i])
                             /\ calls'[i].live = (calls[i].live /\ H(calls[i].handler).kept)
  BY LeaveCalls
<1>3. ASSUME NEW i \in InFlight, H(calls[i].handler).flag \in flags'
      PROVE  H(calls[i].handler).kept
  <2>1. calls[i].handler \in Play /\ H(calls[i].handler).flag # NoFlag
    BY <1>1, <1>3 DEF IInv, IsCall
  <2>2. QED
    BY <1>1, <1>3, <2>1, FlagOfHandler DEF IInv, KeptFlags
<1>4. \A i \in InFlight : IsCall(calls[i])'
  BY <1>1, <1>2 DEF IsCall, H, Play
<1>5. QED
  BY <1>1, <1>2, <1>3, <1>4, CallsGoOn DEF Carried

(* The call at i with another list of what it waits for and what it has got.  *)
Waiting(i, w, g) == [handler |-> calls[i].handler, item |-> calls[i].item, stage |-> calls[i].stage,
                   live |-> calls[i].live, home |-> calls[i].home, waits |-> w, got |-> g]

LEMMA CallWaits ==
    ASSUME IInv, NEW i \in InFlight, NEW w, NEW g, NEW e,
           e = [[calls[i] EXCEPT !.waits = w] EXCEPT !.got = g]
    PROVE  e = Waiting(i, w, g)
<1> DEFINE c == calls[i]
           b == [handler |-> c.handler, item |-> c.item, stage |-> c.stage,
                 live |-> c.live, home |-> c.home, waits |-> w, got |-> c.got]
<1>1. [c EXCEPT !.waits = w] = b
  BY DEF IInv, IsCall
<1>2. [b EXCEPT !.got = g] = Waiting(i, w, g)
  BY DEF Waiting
<1> HIDE DEF b
<1>3. QED
  BY <1>1, <1>2

LEMMA CallGoesOn ==
    ASSUME IInv, NEW i \in InFlight, NEW w, NEW g, view' = view, flags' = flags,
           calls' = [j \in InFlight |-> IF j = i THEN Waiting(i, w, g) ELSE calls[j]]
    PROVE  IInv'
<1> DEFINE c == calls[i]
           d == Waiting(i, w, g)
<1>1. IsCall(c)
  BY DEF IInv
<1>2. IsCall(d)
  BY <1>1 DEF IsCall, Waiting
<1>3. d.handler = c.handler /\ d.stage = c.stage /\ d.live = c.live
  BY DEF Waiting
<1>4. calls' = [j \in InFlight |-> IF j = i THEN d ELSE calls[j]]
  OBVIOUS
<1> HIDE DEF d
<1>5. InFlight' = InFlight
  BY <1>4 DEF InFlight
<1>6. \A j \in InFlight : IsCall(calls[j])' /\ calls'[j].handler = calls[j].handler
                         /\ calls'[j].stage = calls[j].stage /\ calls'[j].live = calls[j].live
  <2> TAKE j \in InFlight
  <2>1. IsCall(calls'[j])
    BY <1>2, <1>4 DEF IInv
  <2>2. QED
    BY <1>3, <1>4, <2>1 DEF IsCall, H, Play
<1>7. calls' = [j \in InFlight |-> calls'[j]]
  BY <1>4
<1>8. QED
  BY <1>5, <1>6, <1>7, CallsGoOn

Replies(R) == {Reply(r) : r \in {q \in R : q.kind = "read"}}
Served(i, R) ==
    /\ server' = [r \in DOMAIN server |->
                     IF \E q \in R : q.kind = "change" /\ q.of = r THEN server[r] + 1 ELSE server[r]]
    /\ calls' = [j \in InFlight |->
                    IF j = i THEN Waiting(i, calls[i].waits \ R, calls[i].got \cup Replies(R)) ELSE calls[j]]

LEMMA ServeCalls ==
    ASSUME IInv, NEW i, Serve(i)
    PROVE  \E R \in Taken(i) : Served(i, R)
<1>1. PICK R \in Taken(i) :
         /\ server' = [r \in DOMAIN server |->
                          IF \E q \in R : q.kind = "change" /\ q.of = r THEN server[r] + 1 ELSE server[r]]
         /\ calls' = [calls EXCEPT ![i].waits = @ \ R,
                                   ![i].got = @ \cup {Reply(r) : r \in {q \in R : q.kind = "read"}}]
  BY DEF Serve
<1> DEFINE w == calls[i].waits \ R
           g == calls[i].got \cup Replies(R)
<1>2. i \in InFlight
  BY DEF Serve
<1>3. calls' = [calls EXCEPT ![i].waits = w, ![i].got = g]
  BY <1>1 DEF Replies
<1> HIDE DEF w, g
<1> DEFINE e == [[calls[i] EXCEPT !.waits = w] EXCEPT !.got = g]
<1>4. calls' = [j \in InFlight |-> IF j = i THEN e ELSE calls[j]]
  <2>1. calls = [j \in InFlight |-> calls[j]]
    BY DEF IInv
  <2>2. QED
    BY <1>2, <1>3, <2>1
<1>6. e = Waiting(i, w, g)
  <2>1. PICK f : f = e
    OBVIOUS
  <2>2. QED
    BY <1>2, <2>1, CallWaits
<1> HIDE DEF e
<1>5. QED
  <2>1. Served(i, R)
    BY <1>1, <1>4, <1>6 DEF w, g, Served
  <2>2. QED
    BY <1>1, <2>1

LEMMA ServeKeeps ==
    ASSUME IInv, NEW i, Serve(i)
    PROVE  IInv'
<1>1. i \in InFlight /\ view' = view /\ flags' = flags
  BY DEF Serve
<1>2. QED
  <2>1. PICK R \in Taken(i) : Served(i, R)
    BY ServeCalls
  <2> DEFINE w == calls[i].waits \ R
             g == calls[i].got \cup Replies(R)
  <2> HIDE DEF w, g
  <2>2. calls' = [j \in InFlight |-> IF j = i THEN Waiting(i, w, g) ELSE calls[j]]
    BY <2>1 DEF w, g, Served
  <2>3. QED
    BY <1>1, <2>2, CallGoesOn

(* The call at i ends and resets its flag if it is listened to.               *)
LEMMA CallEnds ==
    ASSUME IInv, NEW i \in InFlight, NEW how, view' = view, calls' = Without(i),
           flags' = Ended(calls[i], how), LastStage(calls[i]) \/ how = {"error"},
           how \in {{"answer", "first"}, {"error"}}
    PROVE  IInv'
<1> DEFINE c == calls[i]
<1>1. InFlight' = InFlight \ {i} /\ calls' = [j \in InFlight' |-> calls[j]]
  BY DEF Without, InFlight
<1>2. flags' \subseteq flags
  BY DEF Ended
<1>3. ASSUME NEW f \in flags' \ Told
      PROVE  \E j \in InFlight' : Resets(calls[j], f)'
  <2>1. PICK j \in InFlight : Resets(calls[j], f)
    BY <1>2 DEF IInv
  <2>2. j # i
    <3> SUFFICES ASSUME Resets(c, f) PROVE FALSE
      BY <2>1
    <3>1. c.live /\ H(c.handler).flag = f /\ (H(c.handler).late => LastStage(c)) /\ c.handler \in Play
      BY DEF Resets, IInv, IsCall
    <3>2. how \cap H(c.handler).ends # {}
      BY <3>1, FlagOfHandler DEF IInv
    <3>3. QED
      BY <3>1, <3>2 DEF Ended
  <2>3. QED
    BY <1>1, <2>1, <2>2 DEF Resets, LastStage, H
<1>4. \A j \in InFlight' : IsCall(calls[j])'
  BY <1>1 DEF IInv, IsCall, H, Play
<1>5. IsFiniteSet(InFlight')
  BY <1>1, FS_RemoveElement DEF IInv
<1>6. calls' = [j \in InFlight' |-> calls'[j]]
  BY <1>1
<1>7. QED
  BY <1>1, <1>2, <1>3, <1>4, <1>5, <1>6 DEF IInv, Sound, Accountable

LEMMA FailKeeps ==
    ASSUME IInv, NEW i, Fail(i)
    PROVE  IInv'
<1>1. i \in InFlight /\ view' = view
  BY DEF Fail
<1>2. CASE H(calls[i].handler).patient
  <2>0. PICK r \in calls[i].waits :
           calls' = [calls EXCEPT ![i].waits = @ \ {r}, ![i].got = @ \cup {[into |-> r.into, version |-> -1]}]
    BY <1>2 DEF Fail
  <2> DEFINE w == calls[i].waits \ {r}
             g == calls[i].got \cup {[into |-> r.into, version |-> -1]}
  <2>3. calls' = [calls EXCEPT ![i].waits = w, ![i].got = g]
    BY <2>0
  <2> HIDE DEF w, g
  <2> DEFINE e == [[calls[i] EXCEPT !.waits = w] EXCEPT !.got = g]
  <2>4. calls' = [j \in InFlight |-> IF j = i THEN e ELSE calls[j]]
    <3>1. calls = [j \in InFlight |-> calls[j]]
      BY DEF IInv
    <3>2. QED
      BY <1>1, <2>3, <3>1
  <2>5. e = Waiting(i, w, g)
    <3>1. PICK f : f = e
      OBVIOUS
    <3>2. QED
      BY <1>1, <3>1, CallWaits
  <2> HIDE DEF e
  <2>1. calls' = [j \in InFlight |-> IF j = i THEN Waiting(i, w, g) ELSE calls[j]]
    BY <2>4, <2>5
  <2>2. flags' = flags
    BY <1>2 DEF Fail
  <2>6. QED
    BY <1>1, <2>1, <2>2, CallGoesOn
<1>3. CASE ~H(calls[i].handler).patient
  BY <1>1, <1>3, CallEnds DEF Fail
<1>4. QED
  BY <1>2, <1>3

(* The call at i begins its next stage.                                       *)
Advanced(i) == [handler |-> calls[i].handler, item |-> calls[i].item, stage |-> calls[i].stage + 1,
             live |-> calls[i].live, home |-> calls[i].home,
             waits |-> Requests(H(calls[i].handler).stages[calls[i].stage + 1]), got |-> {}]

LEMMA CallAdvances ==
    ASSUME IInv, NEW i, Answer(i), ~LastStage(calls[i])
    PROVE  InFlight' = InFlight /\ calls' = [j \in InFlight |-> IF j = i THEN Advanced(i) ELSE calls[j]]
<1> DEFINE c == calls[i]
           more == Requests(H(c.handler).stages[c.stage + 1])
           d == Advanced(i)
<1>1. i \in InFlight /\ IsCall(c)
  BY DEF Answer, IInv
<1>2. calls' = With(i, [c EXCEPT !.stage = @ + 1, !.got = {}, !.waits = more])
  BY DEF Answer
<1>3. [c EXCEPT !.stage = @ + 1, !.got = {}, !.waits = more] = d
  <2> DEFINE b1 == [handler |-> c.handler, item |-> c.item, stage |-> c.stage + 1,
                    live |-> c.live, home |-> c.home, waits |-> c.waits, got |-> c.got]
             b2 == [handler |-> c.handler, item |-> c.item, stage |-> c.stage + 1,
                    live |-> c.live, home |-> c.home, waits |-> c.waits, got |-> {}]
  <2>0. d = [b2 EXCEPT !.waits = more]
    BY DEF Advanced
  <2> HIDE DEF more, d
  <2>1. [c EXCEPT !.stage = c.stage + 1] = b1
    BY <1>1 DEF IsCall
  <2>2. [b1 EXCEPT !.got = {}] = b2
    OBVIOUS
  <2> HIDE DEF b1, b2, c
  <2>3. QED
    BY <2>0, <2>1, <2>2, Zenon
<1> HIDE DEF more, d
<1>4. QED
  BY <1>1, <1>2, <1>3 DEF With, InFlight, d

LEMMA AnswerKeeps ==
    ASSUME IInv, NEW i, Answer(i)
    PROVE  IInv'
<1> DEFINE c == calls[i]
           d == Advanced(i)
<1>1. i \in InFlight /\ view' = view /\ IsCall(c)
  BY DEF Answer, IInv
<1>2. CASE LastStage(c)
  BY <1>1, <1>2, CallEnds DEF Answer
<1>3. CASE ~LastStage(c)
  <2>1. flags' = Ended(c, {"first"}) \cup SetLate(c)
    BY <1>3 DEF Answer
  <2>2. d.handler = c.handler /\ d.stage = c.stage + 1 /\ d.live = c.live
    BY DEF Advanced
  <2>3. InFlight' = InFlight /\ calls' = [j \in InFlight |-> IF j = i THEN d ELSE calls[j]]
    BY <1>3, CallAdvances
  <2>4. IsCall(d)
    BY <1>1, <1>3 DEF IsCall, Advanced, LastStage, IInv, Sound, H, Play
  <2> HIDE DEF d
  <2>5. \A j \in InFlight : IsCall(calls[j])'
    BY <2>3, <2>4, <1>1 DEF IInv, IsCall, H, Play
  <2>6. ASSUME NEW f \in flags' \ Told
        PROVE  \E j \in InFlight : Resets(calls[j], f)'
    <3>1. CASE f \in SetLate(c)
      <4>1. c.live /\ f = H(c.handler).flag /\ H(c.handler).late
        BY <3>1 DEF SetLate
      <4>2. c.stage + 1 = Len(H(c.handler).stages)
        <5> DEFINE n == Len(H(c.handler).stages)
        <5>1. c.handler \in Play /\ Sound(view)
          BY <1>1 DEF IsCall, IInv
        <5>2. n = 2
          BY <4>1, <5>1, FlagOfHandler
        <5>3. c.stage \in 1 .. n /\ c.stage # n
          BY <1>1, <1>3 DEF IsCall, LastStage
        <5>4. QED
          BY <5>2, <5>3
      <4>3. Resets(d, f)
        BY <2>2, <4>1, <4>2 DEF Resets, LastStage
      <4>4. QED
        BY <1>1, <2>3, <4>3 DEF Resets, LastStage, H
    <3>2. CASE f \notin SetLate(c)
      <4>1. f \in flags
        BY <2>1, <3>2 DEF Ended
      <4>2. PICK j \in InFlight : Resets(calls[j], f)
        BY <4>1 DEF IInv
      <4>3. j = i => Resets(d, f)
        BY <1>3, <2>2, <4>2 DEF Resets
      <4>4. QED
        BY <1>1, <2>3, <4>2, <4>3 DEF Resets, LastStage, H
    <3>3. QED
      BY <3>1, <3>2
  <2>7. NoFlag \notin flags'
    <3>1. H(c.handler).late => H(c.handler).flag # NoFlag
      BY <1>1, FlagOfHandler DEF IsCall, IInv
    <3>2. QED
      BY <2>1, <3>1 DEF IInv, Ended, SetLate
  <2>8. calls' = [j \in InFlight' |-> calls'[j]]
    BY <2>3
  <2>9. QED
    BY <1>1, <2>3, <2>5, <2>6, <2>7, <2>8 DEF IInv, Sound, Accountable
<1>4. QED
  BY <1>2, <1>3

LEMMA NextKeeps ==
    ASSUME IInv, [Next]_vars
    PROVE  IInv'
<1>1. CASE Enter
  <2>1. UNCHANGED <<view, flags, calls>>
    BY <1>1 DEF Enter
  <2>2. QED
    BY <2>1, CallsAsTheyWere
<1>2. CASE Leave
  BY <1>2, LeaveKeeps
<1>3. ASSUME NEW h \in Play, NEW item \in Items, Mount(h, item)
      PROVE  IInv'
  <2>1. Begin(h, item) \/ UNCHANGED <<view, flags, calls>>
    BY <1>3 DEF Mount
  <2>2. QED
    BY <2>1, BeginKeeps, CallsAsTheyWere
<1>4. ASSUME NEW h \in Play, NEW item \in Items, Press(h, item)
      PROVE  IInv'
  BY <1>4, BeginKeeps DEF Press
<1>5. ASSUME NEW i \in InFlight, Serve(i) \/ Answer(i) \/ Fail(i)
      PROVE  IInv'
  BY <1>5, ServeKeeps, AnswerKeeps, FailKeeps
<1>6. CASE UNCHANGED vars
  <2>1. UNCHANGED <<view, flags, calls>>
    BY <1>6 DEF vars
  <2>2. QED
    BY <2>1, CallsAsTheyWere
<1>7. QED
  BY <1>1, <1>2, <1>3, <1>4, <1>5, <1>6 DEF Next

(* For every catalogue of views whose handlers are accountable, any handlers  *)
(* played together, any bounds and any order of answers and failures: a busy  *)
(* flag that is set belongs to a call in flight, so no spinner of a store or  *)
(* a view turns for ever and no button stays disabled.                        *)
THEOREM NoFlagOutlivesItsCalls ==
    ASSUME \A v \in DOMAIN Views : Sound(Views[v])
    PROVE  Spec => []FlagsHaveCalls
<1>1. Init => IInv
  BY InitFlags
<1>2. IInv /\ [Next]_vars => IInv'
  BY NextKeeps
<1>3. IInv => FlagsHaveCalls
  BY DEF IInv, FlagsHaveCalls, Resets
<1>4. QED
  BY <1>1, <1>2, <1>3, PTL DEF Spec

-----------------------------------------------------------------------------
(* What a call waits for, has got and leaves in the slots.                    *)
Stage(c) == H(c.handler).stages[c.stage]

Fits(c, stage) ==
    /\ c.waits \subseteq Requests(stage)
    /\ \A g \in c.got : g.into \in stage.shows
    /\ \A x \in stage.shows : (\E g \in c.got : g.into = x) \/ \E r \in c.waits : r.kind = "read" /\ r.into = x
    /\ (\E q \in c.waits : q.kind = "change") => c.got = {}

(* What every call waits for and has got, and what a slot shows, is of its    *)
(* handlers; what has to be changed is changed before anything is read.       *)
ShapeInv ==
    /\ mounting \subseteq EffectsOf(view)
    /\ \A s \in DOMAIN slot : slot[s] # NotLoaded => \E x \in Fills(view) : x.slot = s /\ x.of = slot[s].of
    /\ \A x \in Fills(view) : x.of \in DOMAIN server
    /\ \A i \in InFlight : Fits(calls[i], Stage(calls[i]))

(* The call of a control is alone if the user has waited; it finds what it    *)
(* has emptied empty and, if it is about the selected item, that item         *)
(* selected.                                                                  *)
AloneInv ==
    \A i \in InFlight : calls[i].handler \notin EffectsOf(view) =>
       LET c == calls[i]  o == H(c.handler) IN
          /\ InFlight = {i} /\ mounting = {} /\ c.live /\ c.home
          /\ \A s \in DOMAIN slot : s \in o.drops \ Shown(o) => slot[s] = NotLoaded
          /\ o.ofChosen /\ ~o.restarts => c.item = chosen /\ chosen # NoItem
          /\ o.fromList => chosen = NoItem
          /\ o.opens => c.item # NoItem

(* The call c will put an answer into s that nothing it does makes stale.     *)
Awaits(c, o, s) == c.live /\ \E m \in c.stage .. Len(o.stages) : Reads(o.stages[m], s)
Awaited(s) == \E i \in InFlight : Awaits(calls[i], H(calls[i].handler), s)
Renewing(s) == \E e \in mounting : Renews(H(e), s)

(* What is shown is what the server has, or something is under way that will  *)
(* see to it: a call, an effect that has still to begin, or the next selection*)
(* of an item, with which the slot is loaded anew.                            *)
IsFresh(s) == slot[s] = NotLoaded \/ slot[s].version = server[slot[s].of]
Excused(s) ==
    \/ Awaited(s)
    \/ Renewing(s)
    \/ /\ OnlyAbout(view, s) /\ Reopened(view, s)
       /\ chosen = NoItem \/ \E i \in InFlight : calls[i].live /\ Reselects(H(calls[i].handler))
FreshInv ==
    /\ \A i \in InFlight : \A g \in calls[i].got : g.version = server[g.into.of]
    /\ \A s \in DOMAIN slot : s \in Showing(view) \ LeftStale => IsFresh(s) \/ Excused(s)

(* Until an item is selected only the effects of the view itself are under    *)
(* way; what is loaded for the selected item is asked for that item.          *)
Unselected == chosen = NoItem \/ \E h \in mounting : H(h).selects
IsOf(s) == chosen = NoItem \/ slot[s] = NotLoaded \/ slot[s].item = chosen
ChosenInv ==
    /\ here \/ (AtRest /\ chosen = NoItem)
    /\ Unselected => /\ mounting \subseteq view.mount
                     /\ \A i \in InFlight : calls[i].handler \in view.mount \/ calls[i].handler \notin EffectsOf(view)
    /\ \A i \in InFlight : LET c == calls[i]  o == H(c.handler) IN
          c.live /\ Shown(o) \cap Owned(view) # {} => c.item = chosen \/ (o.opens /\ ~o.ofChosen)
    /\ \A s \in DOMAIN slot : s \in Owned(view) =>
          /\ IsOf(s) \/ Renewing(s) \/ Awaited(s)
          /\ Cleared(view, s) /\ chosen = NoItem => slot[s] = NotLoaded

(* Where late answers are cancelled, in any order.                            *)
CancelledInv ==
    \A s \in Owned(view) \cap Cancelled :
       /\ \A i \in InFlight : calls[i].live /\ s \in Shown(H(calls[i].handler)) =>
             chosen = NoItem \/ calls[i].item = chosen \/ calls[i].handler \in mounting
       /\ s \in DOMAIN slot => IsOf(s) \/ Renewing(s) \/ Awaited(s)

LEMMA CallIsHandlers ==
    ASSUME IInv, NEW i \in InFlight
    PROVE  /\ calls[i].handler \in Play /\ calls[i].live \in BOOLEAN
           /\ calls[i].stage \in DOMAIN H(calls[i].handler).stages
           /\ \A x \in Stage(calls[i]).shows : x \in Fills(view) /\ x.slot \in Shown(H(calls[i].handler))
<1> DEFINE c == calls[i]
           o == H(c.handler)
<1>1. c.handler \in Play /\ c.live \in BOOLEAN /\ c.stage \in 1 .. Len(o.stages)
  BY DEF IInv, IsCall
<1>2. c.stage \in DOMAIN o.stages
  BY <1>1, FlagOfHandler DEF IInv
<1>3. \A x \in Stage(c).shows : x \in ShowsOf(o)
  BY <1>2 DEF Stage, ShowsOf
<1>4. ShowsOf(o) \subseteq Fills(view)
  BY <1>1 DEF Fills, Play, H
<1>5. QED
  BY <1>1, <1>2, <1>3, <1>4 DEF Shown

(* A request of a stage: a change, or a read for what the stage shows.        *)
LEMMA RequestKinds ==
    ASSUME NEW stage
    PROVE  /\ \A r \in Requests(stage) : \/ r.kind = "change" /\ r.of \in stage.changes
                                         \/ r.kind = "read" /\ r.into \in stage.shows /\ r.of = r.into.of
           /\ \A x \in stage.shows : \E r \in Requests(stage) : r.kind = "read" /\ r.into = x
           /\ \A r \in Requests(stage) : ~(r.kind = "read" /\ r.kind = "change")
<1>1. \A x \in stage.shows : [kind |-> "read", of |-> x.of, into |-> x] \in Requests(stage)
  BY DEF Requests
<1>2. \A x \in stage.shows : \E r \in Requests(stage) : r.kind = "read" /\ r.into = x
  BY <1>1
<1>3. ASSUME NEW r \in Requests(stage)
      PROVE  \/ r.kind = "change" /\ r.of \in stage.changes
             \/ r.kind = "read" /\ r.into \in stage.shows /\ r.of = r.into.of
  <2>1. CASE \E x \in stage.changes : r = [kind |-> "change", of |-> x, into |-> Into(x, x)]
    BY <2>1
  <2>2. CASE \E x \in stage.shows : r = [kind |-> "read", of |-> x.of, into |-> x]
    <3>1. PICK x \in stage.shows : r = [kind |-> "read", of |-> x.of, into |-> x]
      BY <2>2
    <3>2. r.into = x /\ r.of = x.of /\ r.kind = "read"
      BY <3>1
    <3>3. QED
      BY <3>2
  <2>3. QED
    BY <2>1, <2>2 DEF Requests
<1>4. QED
  BY <1>2, <1>3

(* What the server takes at once: one change, before which nothing was read,  *)
(* or reads after the last change.                                            *)
LEMMA TakenAtOnce ==
    ASSUME NEW i \in InFlight, NEW R \in Taken(i)
    PROVE  /\ R \subseteq calls[i].waits
           /\ \/ \E q \in calls[i].waits : R = {q} /\ q.kind = "change"
              \/ \A q \in calls[i].waits : q.kind # "change"
<1> DEFINE c == calls[i]
           alone == {r \in c.waits : r.of \in Changing \/ ~Sendable(c, r)}
<1>1. CASE \E r \in alone : R = {r} /\ Sendable(c, r)
  BY <1>1 DEF Sendable
<1>2. CASE R = c.waits \ alone /\ R # {}
  <2>1. PICK r \in R : r \in c.waits /\ r.of \notin Changing /\ Sendable(c, r)
    BY <1>2
  <2>2. r.kind # "change"
    BY <2>1 DEF Changing
  <2>3. QED
    BY <1>2, <2>1, <2>2 DEF Sendable
<1>3. QED
  BY <1>1, <1>2 DEF Taken

LEMMA BeginSlots ==
    ASSUME NEW h, NEW item, Begin(h, item)
    PROVE  /\ DOMAIN slot' = DOMAIN slot
           /\ \A s \in DOMAIN slot : slot'[s] = slot[s] \/ slot'[s] = NotLoaded
           /\ \A s \in DOMAIN slot : s \in H(h).drops /\ (~H(h).selects \/ item # chosen) => slot'[s] = NotLoaded
<1> DEFINE o == H(h)
           emptied == o.drops \cup (IF o.restarts THEN DOMAIN slot \ KeptSlots ELSE {})
           S == IF o.selects /\ ~(o.selects /\ item # chosen) THEN {} ELSE emptied
<1>1. slot' = Emptied(S)
  BY DEF Begin
<1>2. (~o.selects \/ item # chosen) => o.drops \subseteq S
  OBVIOUS
<1> HIDE DEF S, o
<1>3. QED
  BY <1>1, <1>2 DEF Emptied, o

LEMMA ShapeBegin ==
    ASSUME IInv, Calm(view), ShapeInv, NEW h \in Play, NEW item, Begin(h, item)
    PROVE  ShapeInv'
<1>1. view' = view /\ server' = server
  BY DEF Begin
<1>2. mounting' \subseteq EffectsOf(view)'
  BY DEF Begin, ShapeInv, EffectsOf
<1>3. ASSUME NEW s \in DOMAIN slot', slot'[s] # NotLoaded
      PROVE  \E x \in Fills(view)' : x.slot = s /\ x.of = slot'[s].of
  BY <1>1, <1>3, BeginSlots DEF ShapeInv
<1>4. \A x \in Fills(view)' : x.of \in DOMAIN server'
  BY <1>1 DEF ShapeInv
<1>5. ASSUME NEW j \in InFlight
      PROVE  Fits(calls'[j], Stage(calls[j])')
  <2>1. Carried(j)
    BY BeginCalls
  <2>2. Stage(calls[j])' = Stage(calls[j])
    BY <1>1, <2>1 DEF Carried, Stage, H
  <2>3. Fits(calls[j], Stage(calls[j]))
    BY DEF ShapeInv
  <2>4. QED
    BY <2>1, <2>2, <2>3 DEF Carried, Fits
<1>6. CASE H(h).stages = <<>>
  <2>1. InFlight' = InFlight
    BY <1>6, BeginCalls
  <2>2. QED
    BY <1>2, <1>3, <1>4, <1>5, <2>1 DEF ShapeInv
<1>7. CASE H(h).stages # <<>>
  <2>1. InFlight' = InFlight \cup {Free} /\ calls'[Free] = Begun(h, item)
    BY <1>7, BeginCalls
  <2>2. PICK k : k = Free
    OBVIOUS
  <2>3. /\ calls'[k].handler = h /\ calls'[k].stage = 1
        /\ calls'[k].waits = Requests(H(h).stages[1]) /\ calls'[k].got = {}
    BY <2>1, <2>2 DEF Begun
  <2>4. Stage(calls[k])' = H(h).stages[1]
    BY <1>1, <2>3 DEF Stage, H
  <2>5. Fits(calls'[k], Stage(calls[k])')
    BY <2>3, <2>4, RequestKinds DEF Fits
  <2>6. \A i \in InFlight' : Fits(calls'[i], Stage(calls[i])')
    BY <1>5, <2>1, <2>2, <2>5
  <2>7. QED
    BY <1>2, <1>3, <1>4, <2>6 DEF ShapeInv
<1>8. QED
  BY <1>6, <1>7

LEMMA ShapeServe ==
    ASSUME IInv, ShapeInv, NEW i, Serve(i)
    PROVE  ShapeInv'
<1>1. i \in InFlight /\ UNCHANGED <<view, mounting, slot>>
  BY DEF Serve
<1>2. PICK R \in Taken(i) : Served(i, R)
  BY ServeCalls
<1> DEFINE c == calls[i]
           d == Waiting(i, c.waits \ R, c.got \cup Replies(R))
<1>3. /\ InFlight' = InFlight /\ calls'[i] = d /\ \A j \in InFlight \ {i} : calls'[j] = calls[j]
      /\ DOMAIN server' = DOMAIN server
  BY <1>1, <1>2 DEF Served, InFlight
<1>4. /\ d.handler = c.handler /\ d.stage = c.stage
      /\ d.waits = c.waits \ R /\ d.got = c.got \cup Replies(R)
  BY DEF Waiting
<1> HIDE DEF d
<1>5. \A j \in InFlight : Stage(calls[j])' = Stage(calls[j])
  BY <1>1, <1>3, <1>4 DEF Stage, H
<1>6. Fits(c, Stage(c))
  BY <1>1 DEF ShapeInv
<1>7. \A r \in R : r \in Requests(Stage(c)) /\ r \in c.waits
  BY <1>1, <1>6, TakenAtOnce DEF Fits
<1>8. Fits(d, Stage(c))
  <2>1. \A g \in d.got : g.into \in Stage(c).shows
    <3>1. \A g \in Replies(R) : g.into \in Stage(c).shows
      BY <1>7, RequestKinds DEF Replies, Reply
    <3>2. QED
      BY <1>4, <1>6, <3>1 DEF Fits
  <2>2. ASSUME NEW x \in Stage(c).shows
        PROVE  (\E g \in d.got : g.into = x) \/ \E r \in d.waits : r.kind = "read" /\ r.into = x
    <3>1. CASE \E r \in R : r.kind = "read" /\ r.into = x
      <4>1. PICK r \in R : r.kind = "read" /\ r.into = x
        BY <3>1
      <4>2. Reply(r) \in Replies(R) /\ Reply(r).into = x
        BY <4>1 DEF Replies, Reply
      <4>3. QED
        BY <1>4, <4>2
    <3>2. CASE ~\E r \in R : r.kind = "read" /\ r.into = x
      BY <1>4, <1>6, <3>2 DEF Fits
    <3>3. QED
      BY <3>1, <3>2
  <2>3. (\E q \in d.waits : q.kind = "change") => d.got = {}
    <3> SUFFICES ASSUME NEW q \in c.waits, q.kind = "change" PROVE d.got = {}
      BY <1>4
    <3>1. PICK p \in c.waits : R = {p} /\ p.kind = "change"
      BY <1>1, TakenAtOnce
    <3>2. Replies(R) = {}
      BY <3>1 DEF Replies
    <3>3. QED
      BY <1>4, <1>6, <3>2 DEF Fits
  <2>4. QED
    BY <1>4, <1>6, <2>1, <2>2, <2>3 DEF Fits
<1>9. \A j \in InFlight' : Fits(calls'[j], Stage(calls[j])')
  BY <1>3, <1>5, <1>8 DEF ShapeInv
<1>10. QED
  BY <1>1, <1>3, <1>9 DEF ShapeInv

(* What an answer leaves in a slot: what was there, nothing, or the answer.   *)
Answers(c, s) == {g \in c.got : g.into.slot = s}
Held(c, g) == [of |-> g.into.of, item |-> c.item, version |-> g.version]

LEMMA AnswerSlots ==
    ASSUME IInv, NEW i, Answer(i)
    PROVE  /\ i \in InFlight /\ calls[i].waits = {} /\ mounting = {}
           /\ UNCHANGED <<view, here, acts, server, waited, sound>>
           /\ DOMAIN slot' = DOMAIN slot
           /\ \A s \in DOMAIN slot : slot'[s] = Put(calls[i], s) \/ slot'[s] = NotLoaded
           /\ LastStage(calls[i]) => Opened(calls[i]) /\ calls' = [j \in InFlight \ {i} |-> calls[j]]
           /\ ~LastStage(calls[i]) => UNCHANGED <<chosen, mounting>>
BY DEF Answer, Without

LEMMA PutShape ==
    ASSUME NEW c, NEW s
    PROVE  \/ Put(c, s) = slot[s] /\ (~c.live \/ Answers(c, s) = {} \/ \E g \in Answers(c, s) : g.into.replaces)
           \/ Put(c, s) = NotLoaded
           \/ c.live /\ \E g \in Answers(c, s) : Put(c, s) = Held(c, g)
<1> DEFINE G == Answers(c, s)
<1>1. CASE ~c.live \/ G = {}
  BY <1>1 DEF Put, Answers
<1>2. CASE c.live /\ G # {}
  <2> DEFINE g == CHOOSE x \in G : TRUE
  <2>1. g \in G
    BY <1>2
  <2>2. Put(c, s) = IF g.into.replaces /\ slot[s].item # c.item THEN slot[s]
                    ELSE IF g.version = -1 THEN NotLoaded ELSE Held(c, g)
    BY <1>2 DEF Put, Answers, Held
  <2> HIDE DEF g, G
  <2>3. QED
    BY <1>2, <2>1, <2>2 DEF G
<1>3. QED
  BY <1>1, <1>2

(* A call ends: it selects its item or, if none is selected, any; or it may   *)
(* leave none selected.                                                       *)
LEMMA OpenedCases ==
    ASSUME NEW c, Opened(c)
    PROVE  \/ /\ c.live /\ c.home
              /\ \/ H(c.handler).opens /\ chosen' = c.item
                 \/ ~H(c.handler).opens /\ H(c.handler).picks /\ chosen = NoItem /\ chosen' \in Items
              /\ mounting' = mounting \cup (IF H(c.handler).anew \/ chosen' # chosen THEN view.opened ELSE {})
           \/ /\ ~(c.live /\ c.home /\ H(c.handler).opens)
              /\ chosen' = IF c.live /\ c.home /\ H(c.handler).leaves THEN NoItem ELSE chosen
              /\ mounting' = mounting \cup (IF here /\ H(c.handler).restarts THEN view.mount ELSE {})
<1> DEFINE o == H(c.handler)
           item == IF o.opens THEN {c.item} ELSE IF o.picks /\ chosen = NoItem THEN Items ELSE {}
<1>1. CASE c.live /\ c.home /\ item # {}
  <2>1. chosen' \in item /\ mounting' = mounting \cup (IF o.anew \/ chosen' # chosen THEN view.opened ELSE {})
    BY <1>1 DEF Opened
  <2>2. QED
    BY <1>1, <2>1
<1>2. CASE ~(c.live /\ c.home /\ item # {})
  <2>1. /\ chosen' = IF c.live /\ c.home /\ o.leaves THEN NoItem ELSE chosen
        /\ mounting' = mounting \cup (IF here /\ o.restarts THEN view.mount ELSE {})
    BY <1>2 DEF Opened
  <2>2. QED
    BY <1>2, <2>1
<1>3. QED
  BY <1>1, <1>2

(* The calls after an answer: the call that got it is over or a stage further.*)
LEMMA AnswerCalls ==
    ASSUME IInv, NEW i, Answer(i)
    PROVE  /\ \A j \in InFlight \ {i} : j \in InFlight' /\ calls'[j] = calls[j]
           /\ LastStage(calls[i]) => InFlight' = InFlight \ {i}
           /\ ~LastStage(calls[i]) => InFlight' = InFlight /\ calls'[i] = Advanced(i)
<1>1. CASE LastStage(calls[i])
  BY <1>1, AnswerSlots DEF InFlight
<1>2. CASE ~LastStage(calls[i])
  <2>1. InFlight' = InFlight /\ calls' = [j \in InFlight |-> IF j = i THEN Advanced(i) ELSE calls[j]]
    BY <1>2, CallAdvances
  <2>2. i \in InFlight
    BY AnswerSlots
  <2>3. QED
    BY <1>2, <2>1, <2>2
<1>3. QED
  BY <1>1, <1>2

LEMMA ShapeAnswer ==
    ASSUME IInv, ShapeInv, NEW i, Answer(i)
    PROVE  ShapeInv'
<1> DEFINE c == calls[i]
<1>1. i \in InFlight /\ view' = view /\ server' = server /\ DOMAIN slot' = DOMAIN slot
  BY AnswerSlots
<1>2. mounting' \subseteq EffectsOf(view)
  <2>1. mounting' \subseteq mounting \cup view.opened \cup view.mount
    BY AnswerSlots, OpenedCases
  <2>2. QED
    BY <2>1 DEF ShapeInv, EffectsOf
<1>3. ASSUME NEW s \in DOMAIN slot, slot'[s] # NotLoaded
      PROVE  \E x \in Fills(view) : x.slot = s /\ x.of = slot'[s].of
  <2>1. slot'[s] = Put(c, s)
    BY <1>3, AnswerSlots
  <2>2. CASE slot'[s] = slot[s]
    BY <1>3, <2>2 DEF ShapeInv
  <2>3. CASE \E g \in Answers(c, s) : slot'[s] = Held(c, g)
    <3>1. PICK g \in c.got : g.into.slot = s /\ slot'[s].of = g.into.of
      BY <2>3 DEF Answers, Held
    <3>2. g.into \in Fills(view)
      BY <1>1, CallIsHandlers DEF ShapeInv, Fits
    <3>3. QED
      BY <3>1, <3>2
  <2>4. QED
    BY <1>3, <2>1, <2>2, <2>3, PutShape
<1>4. ASSUME NEW j \in InFlight'
      PROVE  Fits(calls'[j], Stage(calls[j])')
  <2>1. CASE j # i
    <3>1. j \in InFlight /\ calls'[j] = calls[j]
      BY <2>1, AnswerCalls
    <3>2. Stage(calls[j])' = Stage(calls[j])
      BY <1>1, <3>1 DEF Stage, H
    <3>3. QED
      BY <3>1, <3>2 DEF ShapeInv
  <2>2. CASE j = i
    <3>1. calls'[i] = Advanced(i)
      BY <2>2, AnswerCalls
    <3>2. /\ calls'[i].waits = Requests(H(c.handler).stages[c.stage + 1]) /\ calls'[i].got = {}
          /\ calls'[i].handler = c.handler /\ calls'[i].stage = c.stage + 1
      BY <3>1 DEF Advanced
    <3>3. Stage(calls[i])' = H(c.handler).stages[c.stage + 1]
      BY <1>1, <3>2 DEF Stage, H
    <3>4. QED
      BY <2>2, <3>2, <3>3, RequestKinds DEF Fits
  <2>3. QED
    BY <2>1, <2>2
<1>5. QED
  BY <1>1, <1>2, <1>3, <1>4 DEF ShapeInv

(* A step that begins and answers nothing.                                    *)
LEMMA ShapeRest ==
    ASSUME IInv, ShapeInv, Enter \/ Leave \/ UNCHANGED vars
    PROVE  ShapeInv'
<1>1. view' = view /\ server' = server
  BY DEF Enter, Leave, vars
<1>2. mounting' \subseteq EffectsOf(view)
  BY DEF Enter, Leave, vars, ShapeInv, EffectsOf
<1>3. DOMAIN slot' = DOMAIN slot /\ \A s \in DOMAIN slot : slot'[s] = slot[s] \/ slot'[s] = NotLoaded
  BY DEF Enter, Leave, vars, Emptied
<1>4. InFlight' = InFlight /\ \A j \in InFlight : Carried(j)
  <2>1. CASE Leave
    BY <2>1, LeaveCalls
  <2>2. CASE Enter \/ UNCHANGED vars
    BY <2>2 DEF Enter, vars, Carried, InFlight
  <2>3. QED
    BY <2>1, <2>2
<1>5. \A j \in InFlight : Fits(calls'[j], Stage(calls[j])')
  <2> TAKE j \in InFlight
  <2>1. Stage(calls[j])' = Stage(calls[j])
    BY <1>1, <1>4 DEF Carried, Stage, H
  <2>2. QED
    BY <1>4, <2>1 DEF Carried, ShapeInv, Fits
<1>6. QED
  BY <1>1, <1>2, <1>3, <1>4, <1>5 DEF ShapeInv

LEMMA ShapeKeeps ==
    ASSUME IInv, Calm(view), ShapeInv, [Next]_vars, sound'
    PROVE  ShapeInv'
<1>1. CASE Enter \/ Leave \/ UNCHANGED vars
  BY <1>1, ShapeRest
<1>2. ASSUME NEW h \in Play, NEW item \in Items, Mount(h, item) \/ Press(h, item)
      PROVE  ShapeInv'
  <2>1. CASE Begin(h, item)
    BY <2>1, ShapeBegin
  <2>2. CASE ~Begin(h, item)
    <3>1. mounting' = mounting \ {h} /\ UNCHANGED <<view, slot, calls, server>>
      BY <1>2, <2>2 DEF Mount, Press
    <3>2. InFlight' = InFlight /\ \A j \in InFlight : calls'[j] = calls[j] /\ Stage(calls[j])' = Stage(calls[j])
      BY <3>1 DEF InFlight, Stage, H
    <3>3. QED
      BY <3>1, <3>2 DEF ShapeInv
  <2>3. QED
    BY <2>1, <2>2
<1>3. ASSUME NEW i \in InFlight, Serve(i) \/ Answer(i) \/ Fail(i)
      PROVE  ShapeInv'
  BY <1>3, ShapeServe, ShapeAnswer DEF Fail
<1>4. QED
  BY <1>1, <1>2, <1>3 DEF Next

(* A user who has waited up to now had waited before, and acts at rest.       *)
LEMMA WaitedBefore ==
    ASSUME [Next]_vars, waited', sound'
    PROVE  /\ waited /\ sound
           /\ \/ (Enter \/ Leave) /\ AtRest
              \/ \E h \in Play, item \in Items : Press(h, item) /\ AtRest
              \/ \E h \in Play, item \in Items : Mount(h, item)
              \/ \E i \in InFlight : Serve(i) \/ Answer(i)
              \/ UNCHANGED vars
<1>1. CASE Enter \/ Leave
  BY <1>1 DEF Enter, Leave, Act
<1>2. ASSUME NEW h \in Play, NEW item \in Items, Press(h, item)
      PROVE  waited /\ sound /\ AtRest
  <2>1. UNCHANGED sound
    BY <1>2 DEF Press, Begin
  <2>2. QED
    BY <1>2, <2>1 DEF Press, Act
<1>3. ASSUME NEW h \in Play, NEW item \in Items, Mount(h, item)
      PROVE  waited /\ sound
  <2>1. UNCHANGED sound
    BY <1>3 DEF Mount, Begin
  <2>2. QED
    BY <1>3, <2>1 DEF Mount
<1>4. ASSUME NEW i \in InFlight, Serve(i) \/ Answer(i) \/ Fail(i)
      PROVE  waited /\ sound /\ ~Fail(i)
  BY <1>4 DEF Serve, Answer, Fail
<1>5. CASE UNCHANGED vars
  BY <1>5 DEF vars
<1>6. QED
  BY <1>1, <1>2, <1>3, <1>4, <1>5 DEF Next

LEMMA AloneBegin ==
    ASSUME IInv, Calm(view), NEW h \in Play, NEW item \in Items,
           Press(h, item), AtRest
    PROVE  AloneInv'
<1> DEFINE o == H(h)
<1>1. /\ view' = view /\ InFlight = {} /\ mounting = {} /\ Begin(h, item)
      /\ o.ofChosen => chosen # NoItem
      /\ o.fromList => chosen = NoItem
  BY DEF Press, Begin, AtRest
<1>2. CASE o.stages = <<>>
  BY <1>1, <1>2, BeginCalls DEF AloneInv
<1>3. CASE o.stages # <<>>
  <2>1. PICK k : k = Free
    OBVIOUS
  <2>2. InFlight' = {k} /\ calls'[k] = Begun(h, item)
    BY <1>1, <1>3, <2>1, BeginCalls
  <2>3. /\ calls'[k].handler = h /\ calls'[k].item = AboutItem(h, item)
        /\ calls'[k].live /\ calls'[k].home
    BY <2>2 DEF Begun
  <2>4. ~o.selects
    BY <1>3 DEF Calm, Play, H
  <2>5. mounting' = {} /\ chosen' = IF o.restarts THEN NoItem ELSE chosen
    BY <1>1, <1>3, <2>4 DEF Begin
  <2>6. \A s \in DOMAIN slot' : s \in o.drops => slot'[s] = NotLoaded
    BY <1>1, <2>4, BeginSlots
  <2>7. H(h)' = H(h)
    BY <1>1 DEF H
  <2>8. o.opens => AboutItem(h, item) # NoItem
    BY <1>1, ScreensAssumption DEF AboutItem
  <2>9. o.ofChosen /\ ~o.restarts => AboutItem(h, item) = chosen' /\ chosen' # NoItem
    BY <1>1, <2>5 DEF AboutItem
  <2>10. o.fromList => chosen' = NoItem
    BY <1>1, <2>5
  <2> HIDE DEF o
  <2>11. QED
    BY <2>2, <2>3, <2>5, <2>6, <2>7, <2>8, <2>9, <2>10 DEF AloneInv, o
<1>4. QED
  BY <1>2, <1>3

LEMMA AloneAnswer ==
    ASSUME IInv, ShapeInv, AloneInv, NEW i, Answer(i)
    PROVE  AloneInv'
<1> SUFFICES ASSUME NEW j \in InFlight', calls'[j].handler \notin EffectsOf(view)
             PROVE  /\ InFlight' = {j} /\ mounting' = {} /\ calls'[j].live /\ calls'[j].home
                    /\ \A s \in DOMAIN slot' : s \in H(calls'[j].handler).drops \ Shown(H(calls'[j].handler)) => slot'[s] = NotLoaded
                    /\ H(calls'[j].handler).ofChosen /\ ~H(calls'[j].handler).restarts => calls'[j].item = chosen' /\ chosen' # NoItem
                    /\ H(calls'[j].handler).fromList => chosen' = NoItem
                    /\ H(calls'[j].handler).opens => calls'[j].item # NoItem
  <2>1. view' = view
    BY AnswerSlots
  <2>2. QED
    BY <2>1 DEF AloneInv, H
<1> DEFINE c == calls[i]
           o == H(c.handler)
<1>1. i \in InFlight /\ mounting = {} /\ DOMAIN slot' = DOMAIN slot
  BY AnswerSlots
<1>2. j = i
  BY <1>1, AnswerCalls DEF AloneInv
<1>3. ~LastStage(c) /\ InFlight' = InFlight /\ calls'[i] = Advanced(i)
  BY <1>2, AnswerCalls
<1>4. /\ calls'[i].handler = c.handler /\ calls'[i].item = c.item
      /\ calls'[i].live = c.live /\ calls'[i].home = c.home
  BY <1>3 DEF Advanced
<1>5. chosen' = chosen /\ mounting' = mounting
  BY <1>3, AnswerSlots
<1>6. \A s \in DOMAIN slot : s \in o.drops \ Shown(o) => slot'[s] = NotLoaded
  <2> TAKE s \in DOMAIN slot
  <2> HAVE s \in o.drops \ Shown(o)
  <2>1. slot[s] = NotLoaded
    BY <1>1, <1>2, <1>4 DEF AloneInv
  <2>2. Answers(c, s) = {}
    BY <1>1, CallIsHandlers DEF Answers, ShapeInv, Fits
  <2>3. Put(c, s) = slot[s]
    BY <2>2 DEF Put, Answers
  <2>4. QED
    BY <2>1, <2>3, AnswerSlots
<1>7. QED
  BY <1>1, <1>2, <1>3, <1>4, <1>5, <1>6 DEF AloneInv

LEMMA AloneKeeps ==
    ASSUME IInv, Calm(view), ShapeInv, AloneInv, [Next]_vars, waited', sound'
    PROVE  AloneInv'
<1>1. CASE (Enter \/ Leave) /\ AtRest
  <2>1. InFlight' = {}
    BY <1>1, LeaveCalls DEF Enter, AtRest, InFlight
  <2>2. QED
    BY <2>1 DEF AloneInv
<1>2. CASE \E h \in Play, item \in Items : Press(h, item) /\ AtRest
  BY <1>2, AloneBegin
<1>3. ASSUME NEW h \in Play, NEW item \in Items, Mount(h, item)
      PROVE  AloneInv'
  <2>1. mounting # {} /\ h \in mounting /\ view' = view
    BY <1>3 DEF Mount, Begin
  <2>2. h \in EffectsOf(view) /\ \A j \in InFlight : calls[j].handler \in EffectsOf(view)
    BY <2>1 DEF AloneInv, ShapeInv
  <2>3. \A j \in InFlight' : calls'[j].handler \in EffectsOf(view)
    <3>1. CASE Begin(h, item)
      <4>1. \A j \in InFlight : calls'[j].handler = calls[j].handler
        BY <3>1, BeginCalls DEF Carried
      <4>2. CASE H(h).stages = <<>>
        BY <2>2, <3>1, <4>1, <4>2, BeginCalls
      <4>3. CASE H(h).stages # <<>>
        <5>1. PICK k : k = Free
          OBVIOUS
        <5>2. InFlight' = InFlight \cup {k} /\ calls'[k] = Begun(h, item)
          BY <3>1, <4>3, <5>1, BeginCalls
        <5>3. calls'[k].handler = h
          BY <5>2 DEF Begun
        <5>4. QED
          BY <2>2, <4>1, <5>2, <5>3
      <4>4. QED
        BY <4>2, <4>3
    <3>2. CASE ~Begin(h, item)
      BY <1>3, <2>2, <3>2 DEF Mount, InFlight
    <3>3. QED
      BY <3>1, <3>2
  <2>4. QED
    BY <2>1, <2>3 DEF AloneInv
<1>4. ASSUME NEW i \in InFlight, Serve(i)
      PROVE  AloneInv'
  <2>1. UNCHANGED <<view, mounting, chosen, slot>>
    BY <1>4 DEF Serve
  <2>2. PICK R \in Taken(i) : Served(i, R)
    BY <1>4, ServeCalls
  <2>3. /\ InFlight' = InFlight
        /\ \A j \in InFlight : /\ calls'[j].handler = calls[j].handler /\ calls'[j].item = calls[j].item
                               /\ calls'[j].live = calls[j].live /\ calls'[j].home = calls[j].home
    BY <2>2 DEF Served, Waiting, InFlight
  <2>4. \A j \in InFlight : H(calls[j].handler)' = H(calls[j].handler)
    BY <2>1, <2>3 DEF H
  <2>5. QED
    BY <2>1, <2>3, <2>4 DEF AloneInv
<1>5. ASSUME NEW i \in InFlight, Answer(i)
      PROVE  AloneInv'
  BY <1>5, AloneAnswer
<1>6. CASE UNCHANGED vars
  <2>1. UNCHANGED <<view, mounting, chosen, slot, calls>>
    BY <1>6 DEF vars
  <2>2. QED
    BY <2>1 DEF AloneInv, InFlight, H
<1>7. QED
  BY <1>1, <1>2, <1>3, <1>4, <1>5, <1>6, WaitedBefore

-----------------------------------------------------------------------------
(* What renews a slot after a step: a call, an effect, or all effects of an   *)
(* item that has just been selected.                                          *)
LEMMA AwaitedAfter ==
    ASSUME view' = view, NEW s, NEW j \in InFlight', Awaits(calls'[j], H(calls'[j].handler), s)
    PROVE  Awaited(s)'
BY DEF Awaited, H

LEMMA RenewingAfter ==
    ASSUME view' = view, NEW s, NEW e \in mounting', Renews(H(e), s)
    PROVE  Renewing(s)'
BY DEF Renewing, H

LEMMA ReopenedAfter ==
    ASSUME view' = view, NEW s, Reopened(view, s), view.opened \subseteq mounting'
    PROVE  Renewing(s)'
BY RenewingAfter DEF Reopened, H

(* With no item selected, a call that ends selects none or has all effects of *)
(* the new one begin.                                                         *)
LEMMA OpenedFromNone ==
    ASSUME NEW c, Opened(c), chosen = NoItem
    PROVE  chosen' = NoItem \/ view.opened \subseteq mounting'
<1>1. CASE chosen' = NoItem
  BY <1>1
<1>2. CASE chosen' # NoItem
  BY <1>2, OpenedCases
<1>3. QED
  BY <1>1, <1>2

(* Until the effects of a view have begun, its controls have nothing under    *)
(* way.                                                                       *)
OnlyEffects(h) == \/ AtRest /\ h \notin EffectsOf(view)
                  \/ h \in mounting /\ h \in EffectsOf(view) /\ \A j \in InFlight : calls[j].handler \in EffectsOf(view)

LEMMA BegunWhere ==
    ASSUME Calm(view), ShapeInv, AloneInv, NEW h \in Play, NEW item, Mount(h, item) \/ (Press(h, item) /\ AtRest)
    PROVE  /\ OnlyEffects(h)
           /\ Begin(h, item) \/ (mounting' = mounting \ {h} /\ H(h).unless # {} /\ UNCHANGED <<view, chosen, slot, calls, server>>)
<1>1. CASE Press(h, item) /\ AtRest
  <2>1. H(h).control /\ Begin(h, item)
    BY <1>1 DEF Press
  <2>2. h \notin EffectsOf(view)
    BY <2>1 DEF Calm, H
  <2>3. QED
    BY <1>1, <2>1, <2>2 DEF OnlyEffects
<1>2. CASE Mount(h, item)
  <2>1. h \in mounting
    BY <1>2 DEF Mount
  <2>2. OnlyEffects(h)
    BY <2>1 DEF OnlyEffects, ShapeInv, AloneInv
  <2>3. Begin(h, item) \/ (mounting' = mounting \ {h} /\ H(h).unless # {} /\ UNCHANGED <<view, chosen, slot, calls, server>>)
    BY <1>2 DEF Mount
  <2>4. QED
    BY <2>2, <2>3
<1>3. QED
  BY <1>1, <1>2

(* An effect neither restarts the view nor leaves or opens an item.           *)
LEMMA EffectsAreCalm ==
    ASSUME Calm(view), NEW h \in EffectsOf(view)
    PROVE  /\ h \in Play /\ ChangesOf(H(h)) = {}
           /\ ~H(h).restarts /\ ~H(h).opens /\ ~H(h).leaves /\ ~Reselects(H(h))
BY DEF Calm, H, Play, Reselects

(* A call that is begun is in flight and will do what its handler does.       *)
LEMMA BegunAwaits ==
    ASSUME IInv, NEW h \in Play, NEW item, Begin(h, item), NEW s, NEW m \in 1 .. Len(H(h).stages),
           Reads(H(h).stages[m], s)
    PROVE  Awaited(s)'
<1>1. view' = view
  BY DEF Begin
<1>2. H(h).stages # <<>>
  BY FlagOfHandler DEF IInv
<1>3. PICK k : k = Free
  OBVIOUS
<1>4. k \in InFlight' /\ calls'[k] = Begun(h, item)
  BY <1>2, <1>3, BeginCalls
<1>5. calls'[k].handler = h /\ calls'[k].stage = 1 /\ calls'[k].live
  BY <1>4 DEF Begun
<1>6. Awaits(calls'[k], H(calls'[k].handler), s)
  BY <1>5 DEF Awaits
<1>7. QED
  BY <1>1, <1>4, <1>6, AwaitedAfter

LEMMA BeginAwaited ==
    ASSUME IInv, NEW h \in Play, NEW item, Begin(h, item), ~H(h).restarts,
           NEW s, Awaited(s)
    PROVE  Awaited(s)'
<1>1. view' = view
  BY DEF Begin
<1>2. PICK j \in InFlight : Awaits(calls[j], H(calls[j].handler), s)
  BY DEF Awaited
<1>4. Carried(j) /\ calls'[j].live = (calls[j].live /\ ~Cancels(h, calls[j].handler)) /\ j \in InFlight'
  BY BeginCalls
<1>5. CASE ~Cancels(h, calls[j].handler)
  <2>1. Awaits(calls'[j], H(calls'[j].handler), s)
    BY <1>2, <1>4, <1>5 DEF Awaits, Carried
  <2>2. QED
    BY <1>1, <1>4, <2>1, AwaitedAfter
<1>6. CASE Cancels(h, calls[j].handler)
  <2>1. calls[j].handler = h
    BY <1>6 DEF Cancels
  <2>2. PICK m \in calls[j].stage .. Len(H(h).stages) : Reads(H(h).stages[m], s)
    BY <1>2, <2>1 DEF Awaits
  <2>3. calls[j].stage \in 1 .. Len(H(h).stages) /\ Len(H(h).stages) \in Nat
    BY <2>1, FlagOfHandler DEF IInv, IsCall
  <2>4. m \in 1 .. Len(H(h).stages)
    BY <2>2, <2>3
  <2>5. QED
    BY <2>2, <2>4, BegunAwaits
<1>7. QED
  BY <1>5, <1>6

(* The effect that begins empties the slot or loads it.                       *)
LEMMA BeginRenews ==
    ASSUME IInv, NEW h \in Play, NEW item, Begin(h, item),
           NEW s \in DOMAIN slot, Renews(H(h), s)
    PROVE  slot'[s] = NotLoaded \/ Awaited(s)'
<1>1. CASE s \in H(h).drops
  BY <1>1, BeginSlots DEF Renews
<1>2. CASE \E n \in DOMAIN H(h).stages : Reads(H(h).stages[n], s)
  <2>1. DOMAIN H(h).stages = 1 .. Len(H(h).stages)
    BY FlagOfHandler DEF IInv
  <2>2. QED
    BY <1>2, <2>1, BegunAwaits
<1>3. QED
  BY <1>1, <1>2 DEF Renews

LEMMA BeginRenewing ==
    ASSUME IInv, NEW h \in Play, NEW item, Begin(h, item),
           NEW s \in DOMAIN slot, Renewing(s)
    PROVE  slot'[s] = NotLoaded \/ Awaited(s)' \/ Renewing(s)'
<1>1. PICK e \in mounting : Renews(H(e), s)
  BY DEF Renewing
<1>2. CASE e = h
  BY <1>1, <1>2, BeginRenews
<1>3. CASE e # h
  <2>1. e \in mounting' /\ view' = view
    BY <1>3 DEF Begin
  <2>2. QED
    BY <1>1, <2>1, RenewingAfter
<1>4. QED
  BY <1>2, <1>3

LEMMA FreshBegin ==
    ASSUME IInv, Calm(view), ShapeInv, AloneInv, FreshInv,
           NEW h \in Play, NEW item \in Items, Begin(h, item), OnlyEffects(h)
    PROVE  FreshInv'
<1>1. view' = view /\ server' = server
  BY DEF Begin
<1>2. DOMAIN slot' = DOMAIN slot /\ \A s \in DOMAIN slot : slot'[s] = slot[s] \/ slot'[s] = NotLoaded
  BY BeginSlots
<1>3. ASSUME NEW i \in InFlight', NEW g \in calls'[i].got
      PROVE  g.version = server'[g.into.of]
  <2>1. CASE i \in InFlight
    <3>1. calls'[i].got = calls[i].got
      BY <2>1, BeginCalls DEF Carried
    <3>2. QED
      BY <1>1, <2>1, <3>1 DEF FreshInv
  <2>2. CASE i \notin InFlight
    <3>1. calls'[i] = Begun(h, item)
      BY <2>2, BeginCalls
    <3>2. calls'[i].got = {}
      BY <3>1 DEF Begun
    <3>3. QED
      BY <3>2
  <2>3. QED
    BY <2>1, <2>2
<1>4. ASSUME NEW s \in DOMAIN slot, s \in Showing(view) \ LeftStale
      PROVE  IsFresh(s)' \/ Excused(s)'
  <2>1. CASE IsFresh(s)
    BY <1>1, <1>2, <2>1 DEF IsFresh
  <2>2. CASE Awaited(s)
    <3>1. ~H(h).restarts
      BY <2>2, EffectsAreCalm DEF Awaited, OnlyEffects, AtRest
    <3>2. QED
      BY <2>2, <3>1, BeginAwaited DEF Excused
  <2>3. CASE Renewing(s)
    BY <2>3, BeginRenewing DEF IsFresh, Excused
  <2>4. CASE /\ OnlyAbout(view, s) /\ Reopened(view, s)
             /\ chosen = NoItem \/ \E i \in InFlight : calls[i].live /\ Reselects(H(calls[i].handler))
    <3>1. chosen = NoItem
      BY <2>4, EffectsAreCalm DEF OnlyEffects, AtRest
    <3>2. chosen' = NoItem \/ view.opened \subseteq mounting'
      BY <3>1, ScreensAssumption DEF Begin
    <3>3. CASE chosen' = NoItem
      BY <1>1, <2>4, <3>3 DEF Excused
    <3>4. CASE view.opened \subseteq mounting'
      BY <1>1, <2>4, <3>4, ReopenedAfter DEF Excused
    <3>5. QED
      BY <3>2, <3>3, <3>4
  <2>5. QED
    BY <1>4, <2>1, <2>2, <2>3, <2>4 DEF FreshInv, Excused
<1>5. QED
  BY <1>1, <1>2, <1>3, <1>4 DEF FreshInv

(* An effect that finds what it would load is passed over: it renews nothing. *)
LEMMA FreshSkip ==
    ASSUME FreshInv, NEW h, mounting' = mounting \ {h}, H(h).unless # {},
           UNCHANGED <<view, chosen, slot, calls, server>>
    PROVE  FreshInv'
<1>1. InFlight' = InFlight
  BY DEF InFlight
<1>2. ASSUME NEW s, Excused(s)
      PROVE  Excused(s)'
  <2>1. CASE Awaited(s)
    BY <1>1, <2>1 DEF Excused, Awaited, H
  <2>2. CASE Renewing(s)
    <3>1. PICK e \in mounting : Renews(H(e), s)
      BY <2>2 DEF Renewing
    <3>2. e \in mounting'
      BY <3>1 DEF Renews
    <3>3. QED
      BY <3>1, <3>2, RenewingAfter DEF Excused
  <2>3. CASE /\ OnlyAbout(view, s) /\ Reopened(view, s)
             /\ chosen = NoItem \/ \E i \in InFlight : calls[i].live /\ Reselects(H(calls[i].handler))
    BY <1>1, <2>3 DEF Excused, H
  <2>4. QED
    BY <1>2, <2>1, <2>2, <2>3 DEF Excused
<1>3. QED
  BY <1>1, <1>2 DEF FreshInv, IsFresh

(* The server changes nothing, or the one resource that a call of a control   *)
(* has still to read again.                                                   *)
LEMMA ServeGoesOn ==
    ASSUME IInv, NEW i, Serve(i)
    PROVE  /\ i \in InFlight /\ InFlight' = InFlight /\ UNCHANGED <<view, here, mounting, chosen, slot>>
           /\ \A j \in InFlight : /\ calls'[j].handler = calls[j].handler /\ calls'[j].item = calls[j].item
                                  /\ calls'[j].stage = calls[j].stage
                                  /\ calls'[j].live = calls[j].live /\ calls'[j].home = calls[j].home
<1>1. i \in InFlight /\ UNCHANGED <<view, here, mounting, chosen, slot>>
  BY DEF Serve
<1>2. PICK R \in Taken(i) : Served(i, R)
  BY ServeCalls
<1>3. /\ InFlight' = InFlight
      /\ calls'[i] = Waiting(i, calls[i].waits \ R, calls[i].got \cup Replies(R))
      /\ \A j \in InFlight \ {i} : calls'[j] = calls[j]
  BY <1>1, <1>2 DEF Served, InFlight
<1>4. QED
  BY <1>1, <1>3 DEF Waiting

LEMMA ServeAwaited ==
    ASSUME IInv, NEW i, Serve(i), NEW s
    PROVE  /\ Awaited(s) => Awaited(s)'
           /\ Excused(s) => Excused(s)'
<1>1. InFlight' = InFlight /\ UNCHANGED <<view, mounting, chosen>>
  BY ServeGoesOn
<1>2. ASSUME Awaited(s)
      PROVE  Awaited(s)'
  <2>1. PICK j \in InFlight : Awaits(calls[j], H(calls[j].handler), s)
    BY <1>2 DEF Awaited
  <2>2. Awaits(calls'[j], H(calls'[j].handler), s)
    BY <2>1, ServeGoesOn DEF Awaits
  <2>3. QED
    BY <1>1, <2>2, AwaitedAfter
<1>3. Renewing(s) => Renewing(s)'
  BY <1>1, RenewingAfter DEF Renewing
<1>4. (\E j \in InFlight : calls[j].live /\ Reselects(H(calls[j].handler)))
         => \E j \in InFlight' : calls'[j].live /\ Reselects(H(calls[j].handler))'
  <2> SUFFICES ASSUME NEW j \in InFlight, calls[j].live, Reselects(H(calls[j].handler))
               PROVE  j \in InFlight' /\ calls'[j].live /\ Reselects(H(calls[j].handler))'
    OBVIOUS
  <2>1. calls'[j].live /\ H(calls[j].handler)' = H(calls[j].handler)
    BY <1>1, ServeGoesOn DEF H
  <2>2. QED
    BY <1>1, <2>1 DEF Reselects
<1>5. QED
  BY <1>1, <1>2, <1>3, <1>4 DEF Excused

(* What a change makes stale is read again, was emptied or is loaded anew     *)
(* when the call ends.                                                        *)
LEMMA ChangeExcused ==
    ASSUME IInv, Refreshing(view), ShapeInv, AloneInv, NEW i \in InFlight,
           NEW q \in calls[i].waits, q.kind = "change",
           NEW s \in DOMAIN slot, s \in Showing(view) \ LeftStale, slot[s] # NotLoaded, slot[s].of = q.of
    PROVE  Excused(s)
<1> DEFINE c == calls[i]
           o == H(c.handler)
<1>1. c.handler \in Play /\ c.stage \in DOMAIN o.stages /\ q.of \in o.stages[c.stage].changes
  <2>1. c.handler \in Play /\ c.stage \in DOMAIN o.stages
    BY CallIsHandlers
  <2>2. q \in Requests(Stage(c))
    BY DEF ShapeInv, Fits
  <2>3. QED
    BY <2>1, <2>2, RequestKinds DEF Stage
<1>2. c.handler \notin EffectsOf(view)
  <2>1. q.of \in ChangesOf(o)
    BY <1>1 DEF ChangesOf
  <2>2. QED
    BY <2>1, EffectsAreCalm DEF Refreshing
<1>3. c.live /\ \A t \in DOMAIN slot : t \in o.drops \ Shown(o) => slot[t] = NotLoaded
  BY <1>2 DEF AloneInv
<1>4. PICK x \in Fills(view) : x.slot = s /\ x.of = q.of
  BY DEF ShapeInv
<1>5. \/ \E m \in c.stage .. Len(o.stages) : Reads(o.stages[m], s)
      \/ s \in o.drops \ Shown(o)
      \/ Reselects(o) /\ OnlyAbout(view, s) /\ Reopened(view, s)
  BY <1>1, <1>4 DEF Refreshing, Play, H
<1>6. CASE \E m \in c.stage .. Len(o.stages) : Reads(o.stages[m], s)
  BY <1>3, <1>6 DEF Excused, Awaited, Awaits
<1>7. CASE Reselects(o) /\ OnlyAbout(view, s) /\ Reopened(view, s)
  BY <1>3, <1>7 DEF Excused
<1>8. QED
  BY <1>3, <1>5, <1>6, <1>7

LEMMA FreshServe ==
    ASSUME IInv, Refreshing(view), ShapeInv, AloneInv, FreshInv, NEW i, Serve(i)
    PROVE  FreshInv'
<1>1. i \in InFlight /\ InFlight' = InFlight /\ UNCHANGED <<view, mounting, chosen, slot>>
  BY ServeGoesOn
<1>2. PICK R \in Taken(i) : Served(i, R)
  BY ServeCalls
<1> DEFINE c == calls[i]
           bumped(r) == \E q \in R : q.kind = "change" /\ q.of = r
<1>3. /\ calls'[i].got = c.got \cup Replies(R)
      /\ \A j \in InFlight \ {i} : calls'[j] = calls[j]
      /\ \A r \in DOMAIN server : ~bumped(r) => server'[r] = server[r]
  <2>1. calls'[i] = Waiting(i, c.waits \ R, c.got \cup Replies(R))
    BY <1>1, <1>2 DEF Served
  <2>2. calls'[i].got = c.got \cup Replies(R)
    BY <2>1 DEF Waiting
  <2>3. QED
    BY <1>1, <1>2, <2>2 DEF Served
<1>4. R \subseteq c.waits /\ c.waits \subseteq Requests(Stage(c))
  BY <1>1, TakenAtOnce DEF ShapeInv, Fits
<1>5. \A j \in InFlight : \A g \in calls[j].got : g.into.of \in DOMAIN server /\ g.version = server[g.into.of]
  <2>1. \A j \in InFlight : \A g \in calls[j].got : g.into \in Fills(view)
    BY CallIsHandlers DEF ShapeInv, Fits
  <2>2. QED
    BY <2>1 DEF ShapeInv, FreshInv
<1>6. \A j \in InFlight' : \A g \in calls'[j].got : g.version = server'[g.into.of]
  <2>1. CASE \E q \in c.waits : R = {q} /\ q.kind = "change"
    <3>1. PICK q \in c.waits : R = {q} /\ q.kind = "change"
      BY <2>1
    <3>2. Replies(R) = {}
      BY <1>4, <3>1, RequestKinds DEF Replies
    <3>3. c.got = {}
      BY <1>1, <3>1 DEF ShapeInv, Fits
    <3>4. q.of \in Stage(c).changes
      BY <1>4, <3>1, RequestKinds
    <3>5. q.of \in ChangesOf(H(c.handler)) /\ c.handler \in Play
      BY <1>1, <3>4, CallIsHandlers DEF ChangesOf, Stage
    <3>6. InFlight = {i}
      BY <1>1, <3>5, EffectsAreCalm DEF AloneInv, Refreshing
    <3>7. QED
      BY <1>1, <1>3, <3>2, <3>3, <3>6
  <2>2. CASE \A q \in c.waits : q.kind # "change"
    <3>1. \A r \in DOMAIN server : server'[r] = server[r]
      BY <1>3, <1>4, <2>2
    <3>2. ASSUME NEW g \in Replies(R)
          PROVE  g.version = server'[g.into.of]
      <4>1. PICK r \in R : r.kind = "read" /\ g = Reply(r)
        BY DEF Replies
      <4>2. g.into = r.into /\ g.version = server[r.of] /\ r.of = r.into.of
        BY <1>4, <4>1, RequestKinds DEF Reply
      <4>3. r.into \in Fills(view)
        BY <1>1, <1>4, <4>1, RequestKinds, CallIsHandlers
      <4>4. r.into.of \in DOMAIN server
        BY <4>3 DEF ShapeInv
      <4>5. QED
        BY <3>1, <4>2, <4>4
    <3>3. ASSUME NEW j \in InFlight', NEW g \in calls'[j].got
          PROVE  g.version = server'[g.into.of]
      <4>1. CASE g \in Replies(R)
        BY <3>2, <4>1
      <4>2. CASE g \in calls[j].got
        BY <1>1, <1>5, <3>1, <4>2
      <4>3. QED
        BY <1>1, <1>3, <4>1, <4>2
    <3>4. QED
      BY <3>3
  <2>3. QED
    BY <1>1, <1>2, <2>1, <2>2, TakenAtOnce
<1>7. ASSUME NEW s \in DOMAIN slot, s \in Showing(view) \ LeftStale
      PROVE  IsFresh(s)' \/ Excused(s)'
  <2>1. CASE Excused(s)
    BY <2>1, ServeAwaited
  <2>2. CASE slot[s] = NotLoaded
    BY <1>1, <2>2 DEF IsFresh
  <2>3. CASE slot[s] # NotLoaded /\ slot[s].version = server[slot[s].of]
    <3>1. slot[s].of \in DOMAIN server
      BY <2>3 DEF ShapeInv
    <3>2. CASE bumped(slot[s].of)
      <4>1. PICK q \in c.waits : q.kind = "change" /\ q.of = slot[s].of
        BY <1>4, <3>2
      <4>2. Excused(s)
        BY <1>1, <1>7, <2>3, <4>1, ChangeExcused
      <4>3. QED
        BY <4>2, ServeAwaited
    <3>3. CASE ~bumped(slot[s].of)
      BY <1>1, <1>3, <2>3, <3>1, <3>3 DEF IsFresh
    <3>4. QED
      BY <3>2, <3>3
  <2>4. QED
    BY <1>7, <2>1, <2>2, <2>3 DEF FreshInv, IsFresh
<1>8. QED
  BY <1>1, <1>6, <1>7 DEF FreshInv

(* A slot that a call was to renew has been renewed or still will be.         *)
LEMMA AnswerAwaited ==
    ASSUME IInv, ShapeInv, NEW i, Answer(i), NEW s \in DOMAIN slot, Awaited(s)
    PROVE  Awaited(s)' \/ slot'[s] = NotLoaded \/ (calls[i].live /\ \E g \in Answers(calls[i], s) : slot'[s] = Held(calls[i], g))
<1> DEFINE c == calls[i]
           o == H(c.handler)
<1>1. i \in InFlight /\ view' = view /\ c.waits = {}
  BY AnswerSlots
<1>2. PICK j \in InFlight : Awaits(calls[j], H(calls[j].handler), s)
  BY DEF Awaited
<1>3. CASE j # i
  <2>1. j \in InFlight' /\ calls'[j] = calls[j]
    BY <1>3, AnswerCalls
  <2>2. QED
    BY <1>1, <1>2, <2>1, AwaitedAfter
<1>4. CASE j = i
  <2>1. PICK m \in c.stage .. Len(o.stages) : Reads(o.stages[m], s)
    BY <1>2, <1>4 DEF Awaits
  <2>2. c.stage \in 1 .. Len(o.stages) /\ Len(o.stages) \in Nat /\ c.live
    BY <1>1, <1>2, <1>4, FlagOfHandler DEF IInv, IsCall, Awaits
  <2>3. CASE m = c.stage
    <3>1. Reads(Stage(c), s)
      BY <2>1, <2>3 DEF Stage
    <3>2. PICK x \in Stage(c).shows : x.slot = s
      BY <3>1 DEF Reads
    <3>3. Answers(c, s) # {} /\ \A g \in Answers(c, s) : ~g.into.replaces
      <4>1. Fits(c, Stage(c))
        BY <1>1 DEF ShapeInv
      <4>2. \E g \in c.got : g.into = x
        BY <1>1, <3>2, <4>1 DEF Fits
      <4>3. \A g \in c.got : g.into.slot = s => ~g.into.replaces
        BY <3>1, <4>1 DEF Fits, Reads
      <4>4. QED
        BY <3>2, <4>2, <4>3 DEF Answers
    <3>4. slot'[s] = Put(c, s) \/ slot'[s] = NotLoaded
      BY AnswerSlots
    <3>5. QED
      BY <2>2, <3>3, <3>4, PutShape
  <2>4. CASE m # c.stage
    <3>1. m \in c.stage + 1 .. Len(o.stages) /\ ~LastStage(c)
      BY <2>1, <2>2, <2>4 DEF LastStage
    <3>2. i \in InFlight' /\ calls'[i] = Advanced(i)
      BY <1>1, <3>1, AnswerCalls
    <3>3. calls'[i].handler = c.handler /\ calls'[i].stage = c.stage + 1 /\ calls'[i].live = c.live
      BY <3>2 DEF Advanced
    <3>4. Awaits(calls'[i], H(calls'[i].handler), s)
      BY <2>1, <2>2, <3>1, <3>3 DEF Awaits
    <3>5. QED
      BY <1>1, <3>2, <3>4, AwaitedAfter
  <2>5. QED
    BY <2>3, <2>4
<1>5. QED
  BY <1>3, <1>4

LEMMA FreshAnswer ==
    ASSUME IInv, Calm(view), ShapeInv, AloneInv, FreshInv, NEW i, Answer(i)
    PROVE  FreshInv'
<1> DEFINE c == calls[i]
           o == H(c.handler)
<1>1. /\ i \in InFlight /\ mounting = {} /\ DOMAIN slot' = DOMAIN slot
      /\ view' = view /\ server' = server
  BY AnswerSlots
<1>2. ASSUME NEW j \in InFlight', NEW g \in calls'[j].got
      PROVE  g.version = server'[g.into.of]
  <2>1. CASE j # i
    BY <1>1, <1>2, <2>1, AnswerCalls DEF FreshInv
  <2>2. CASE j = i
    <3>1. calls'[i] = Advanced(i)
      BY <2>2, AnswerCalls
    <3>2. calls'[i].got = {}
      BY <3>1 DEF Advanced
    <3>3. QED
      BY <1>2, <2>2, <3>2
  <2>3. QED
    BY <2>1, <2>2
<1>3. ASSUME NEW s \in DOMAIN slot, s \in Showing(view) \ LeftStale
      PROVE  IsFresh(s)' \/ Excused(s)'
  <2>1. CASE slot'[s] = NotLoaded
    BY <2>1 DEF IsFresh
  <2>2. CASE c.live /\ \E g \in Answers(c, s) : slot'[s] = Held(c, g)
    <3>1. PICK g \in c.got : slot'[s].of = g.into.of /\ slot'[s].version = g.version
      BY <2>2 DEF Answers, Held
    <3>2. QED
      BY <1>1, <3>1 DEF FreshInv, IsFresh
  <2>3. CASE slot'[s] = slot[s]
    <3>1. CASE IsFresh(s)
      BY <1>1, <2>3, <3>1 DEF IsFresh
    <3>2. CASE Awaited(s)
      BY <2>1, <2>2, <3>2, AnswerAwaited DEF Excused
    <3>3. CASE /\ OnlyAbout(view, s) /\ Reopened(view, s)
               /\ chosen = NoItem \/ \E j \in InFlight : calls[j].live /\ Reselects(H(calls[j].handler))
      <4>1. CASE chosen' = NoItem
        BY <1>1, <3>3, <4>1 DEF Excused
      <4>2. CASE view.opened \subseteq mounting'
        BY <1>1, <3>3, <4>2, ReopenedAfter DEF Excused
      <4>3. CASE chosen = NoItem
        <5>1. CASE LastStage(c)
          BY <4>1, <4>2, <4>3, <5>1, AnswerSlots, OpenedFromNone
        <5>2. CASE ~LastStage(c)
          BY <4>1, <4>3, <5>2, AnswerSlots
        <5>3. QED
          BY <5>1, <5>2
      <4>4. CASE \E j \in InFlight : calls[j].live /\ Reselects(H(calls[j].handler))
        <5>1. PICK j \in InFlight : calls[j].live /\ Reselects(H(calls[j].handler))
          BY <4>4
        <5>2. calls[j].handler \notin EffectsOf(view)
          BY <5>1, EffectsAreCalm
        <5>3. j = i /\ c.home
          BY <1>1, <5>2 DEF AloneInv
        <5>4. CASE LastStage(c)
          <6>1. Opened(c)
            BY <5>4, AnswerSlots
          <6>2. chosen' = NoItem \/ view.opened \subseteq mounting' \/ chosen = NoItem
            BY <5>1, <5>3, <6>1, OpenedCases DEF Reselects
          <6>3. QED
            BY <4>1, <4>2, <4>3, <6>2
        <5>5. CASE ~LastStage(c)
          <6>1. i \in InFlight' /\ calls'[i] = Advanced(i)
            BY <1>1, <5>5, AnswerCalls
          <6>2. calls'[i].live /\ H(calls[i].handler)' = o
            BY <1>1, <5>1, <5>3, <6>1 DEF Advanced, H
          <6>3. Reselects(H(calls[i].handler))'
            BY <5>1, <5>3, <6>2 DEF Reselects
          <6>4. QED
            BY <1>1, <3>3, <6>1, <6>2, <6>3 DEF Excused
        <5>6. QED
          BY <5>4, <5>5
      <4>5. QED
        BY <3>3, <4>3, <4>4
    <3>4. QED
      BY <1>1, <1>3, <3>1, <3>2, <3>3 DEF FreshInv, Excused, Renewing
  <2>4. slot'[s] = Put(c, s) \/ slot'[s] = NotLoaded
    BY AnswerSlots
  <2>5. \/ Put(c, s) = slot[s] \/ Put(c, s) = NotLoaded
        \/ c.live /\ \E g \in Answers(c, s) : Put(c, s) = Held(c, g)
    BY PutShape
  <2>6. QED
    BY <2>1, <2>2, <2>3, <2>4, <2>5
<1>4. QED
  BY <1>1, <1>2, <1>3 DEF FreshInv

(* A step that begins and answers nothing: the user comes, goes or waits.     *)
LEMMA FreshRest ==
    ASSUME IInv, FreshInv, ((Enter \/ Leave) /\ AtRest) \/ UNCHANGED vars
    PROVE  FreshInv'
<1>1. CASE (Enter \/ Leave) /\ AtRest
  <2>1. InFlight' = {} /\ view' = view /\ server' = server /\ chosen' = NoItem
    BY <1>1, LeaveCalls DEF Enter, Leave, AtRest, InFlight
  <2>2. DOMAIN slot' = DOMAIN slot /\ \A s \in DOMAIN slot : slot'[s] = slot[s] \/ slot'[s] = NotLoaded
    BY <1>1 DEF Enter, Leave, Emptied
  <2>3. ASSUME NEW s \in DOMAIN slot, s \in Showing(view) \ LeftStale
        PROVE  IsFresh(s)' \/ Excused(s)'
    <3>1. IsFresh(s) \/ (OnlyAbout(view, s) /\ Reopened(view, s))
      BY <1>1, <2>3 DEF FreshInv, Excused, AtRest, Awaited, Renewing
    <3>2. QED
      BY <2>1, <2>2, <3>1 DEF IsFresh, Excused
  <2>4. QED
    BY <2>1, <2>2, <2>3 DEF FreshInv
<1>2. CASE UNCHANGED vars
  <2>1. UNCHANGED <<view, mounting, chosen, slot, calls, server>>
    BY <1>2 DEF vars
  <2>2. InFlight' = InFlight
    BY <2>1 DEF InFlight
  <2>3. \A s : Excused(s) => Excused(s)'
    BY <2>1, <2>2 DEF Excused, Awaited, Renewing, H
  <2>4. QED
    BY <2>1, <2>2, <2>3 DEF FreshInv, IsFresh
<1>3. QED
  BY <1>1, <1>2

LEMMA FreshKeeps ==
    ASSUME IInv, Refreshing(view), ShapeInv, AloneInv, FreshInv, [Next]_vars, waited', sound'
    PROVE  FreshInv'
<1>0. Calm(view)
  BY DEF Refreshing
<1>1. CASE ((Enter \/ Leave) /\ AtRest) \/ UNCHANGED vars
  BY <1>1, FreshRest
<1>2. ASSUME NEW h \in Play, NEW item \in Items, Mount(h, item) \/ (Press(h, item) /\ AtRest)
      PROVE  FreshInv'
  BY <1>0, <1>2, BegunWhere, FreshBegin, FreshSkip
<1>3. ASSUME NEW i \in InFlight, Serve(i) \/ Answer(i)
      PROVE  FreshInv'
  BY <1>0, <1>3, FreshServe, FreshAnswer
<1>4. QED
  BY <1>1, <1>2, <1>3, WaitedBefore

LEMMA InitShape ==
    ASSUME Init
    PROVE  ShapeInv /\ AloneInv /\ FreshInv
<1>1. /\ InFlight = {} /\ mounting = {}
      /\ slot = [s \in UNION {SlotsOf(H(h)) : h \in Play} |-> NotLoaded]
      /\ server = [r \in UNION {ResourcesOf(H(h)) : h \in Play} |-> 0]
  BY DEF Init, InFlight
<1>2. ASSUME NEW x \in Fills(view)
      PROVE  x.of \in DOMAIN server
  <2>1. PICK h \in Play : x \in ShowsOf(H(h))
    BY DEF Fills, Play, H
  <2>2. x.of \in ResourcesOf(H(h))
    BY <2>1 DEF ResourcesOf
  <2>3. QED
    BY <1>1, <2>2
<1>3. \A s \in DOMAIN slot : slot[s] = NotLoaded
  BY <1>1
<1>4. QED
  BY <1>1, <1>2, <1>3 DEF ShapeInv, AloneInv, FreshInv, IsFresh

LEMMA SoundBefore ==
    ASSUME [Next]_vars
    PROVE  view' = view /\ (sound' => sound)
<1>1. CASE Enter \/ Leave \/ UNCHANGED vars
  <2>1. UNCHANGED <<view, sound>>
    BY <1>1 DEF Enter, Leave, vars
  <2>2. QED
    BY <2>1
<1>2. ASSUME NEW h \in Play, NEW item \in Items, Mount(h, item) \/ Press(h, item)
      PROVE  view' = view /\ (sound' => sound)
  <2>1. Begin(h, item) \/ UNCHANGED <<view, sound>>
    BY <1>2 DEF Mount, Press
  <2>2. CASE Begin(h, item)
    <3>1. UNCHANGED <<view, sound>>
      BY <2>2 DEF Begin
    <3>2. QED
      BY <3>1
  <2>3. QED
    BY <2>1, <2>2
<1>3. ASSUME NEW i \in InFlight, Serve(i) \/ Answer(i) \/ Fail(i)
      PROVE  view' = view /\ (sound' => sound)
  BY <1>3 DEF Serve, Answer, Fail
<1>4. QED
  BY <1>1, <1>2, <1>3 DEF Next

FreshIInv == /\ IInv /\ Refreshing(view)
             /\ sound => ShapeInv
             /\ waited /\ sound => AloneInv /\ FreshInv

(* For every catalogue of views of which any handlers that are played read    *)
(* again what they change, have emptied it or end with another object         *)
(* selected, and any bounds: if the calls of a user did not overlap and none  *)
(* failed, what is on screen afterwards is what the server has.               *)
THEOREM ViewsShowTheirOwnChanges ==
    ASSUME \A v \in DOMAIN Views : Sound(Views[v]) /\ \A p \in Plays(Views[v]) : Refreshing(p)
    PROVE  Spec => []OwnChangesShown
<1>1. Init => FreshIInv
  <2> HAVE Init
  <2>1. IInv
    BY InitFlags
  <2>2. Refreshing(view)
    BY DEF Init
  <2>3. QED
    BY <2>1, <2>2, InitShape DEF FreshIInv
<1>2. FreshIInv /\ [Next]_vars => FreshIInv'
  <2> SUFFICES ASSUME FreshIInv, [Next]_vars PROVE FreshIInv'
    OBVIOUS
  <2>1. IInv' /\ IInv
    BY NextKeeps DEF FreshIInv
  <2>2. view' = view
    BY SoundBefore
  <2>3. Refreshing(view) /\ Refreshing(view)' /\ Calm(view)
    BY <2>2 DEF FreshIInv, Refreshing, Calm
  <2>4. ASSUME sound'
        PROVE  ShapeInv'
    BY <2>1, <2>3, <2>4, SoundBefore, ShapeKeeps DEF FreshIInv
  <2>5. ASSUME waited', sound'
        PROVE  AloneInv' /\ FreshInv'
    <3>1. ShapeInv /\ AloneInv /\ FreshInv
      BY <2>5, WaitedBefore DEF FreshIInv
    <3>2. QED
      BY <2>1, <2>3, <2>5, <3>1, AloneKeeps, FreshKeeps
  <2>6. QED
    BY <2>1, <2>3, <2>4, <2>5 DEF FreshIInv
<1>3. FreshIInv => OwnChangesShown
  <2> SUFFICES ASSUME FreshIInv, AtRest, waited, sound, NEW p \in Visible, NEW s \in Seen(p) \ LeftStale
               PROVE  slot[s].version = server[slot[s].of]
    BY DEF OwnChangesShown
  <2>1. PICK n \in DOMAIN view.parts : p = view.parts[n] /\ (p.about => chosen # NoItem)
    BY DEF Visible
  <2>2. s \in DOMAIN slot /\ slot[s] # NotLoaded /\ s \in Showing(view) \ LeftStale
    BY <2>1 DEF Seen, Showing
  <2>3. ~Excused(s)
    BY <2>1 DEF Excused, AtRest, Awaited, Renewing, OnlyAbout, Seen
  <2>4. QED
    BY <2>2, <2>3 DEF FreshIInv, FreshInv, IsFresh
<1>4. QED
  BY <1>1, <1>2, <1>3, PTL DEF Spec

-----------------------------------------------------------------------------
(* What the catalogue of views asks for, handler by handler.                  *)
LEMMA ChosenOwned ==
    ASSUME FollowsChosen(view), NEW h \in Play, Shown(H(h)) \cap Owned(view) # {}
    PROVE  ~H(h).restarts /\ (H(h).ofChosen \/ (H(h).opens /\ Len(H(h).stages) = 1))
BY DEF FollowsChosen, H, Play

LEMMA SlotOwned ==
    ASSUME FollowsChosen(view), NEW s \in Owned(view)
    PROVE  /\ Reopened(view, s) \/ EmptiedFor(view, s)
           /\ s \in Cancelled => CancelledFor(view, s)
BY DEF FollowsChosen

LEMMA HandlerCleared ==
    ASSUME NEW s, NEW h \in Play, Cleared(view, s)
    PROVE  /\ s \in Shown(H(h)) => h \notin EffectsOf(view) /\ ~H(h).kept /\ (H(h).opens \/ ~H(h).leaves)
           /\ H(h).leaves \/ H(h).restarts => s \in H(h).drops
BY DEF Cleared, H, Play

LEMMA HandlerEmptied ==
    ASSUME NEW s, NEW h \in Play, EmptiedFor(view, s)
    PROVE  /\ ~H(h).picks
           /\ H(h).selects => s \in H(h).drops
           /\ H(h).opens => (H(h).ofChosen /\ ~H(h).restarts) \/ (H(h).fromList /\ Cleared(view, s))
BY DEF EmptiedFor, H, Play

(* At most one effect selects, one of the view itself.                        *)
LEMMA Selecting ==
    ASSUME Sound(view), FollowsChosen(view), NEW h \in Play, H(h).selects
    PROVE  /\ h \notin view.opened /\ H(h).stages = <<>> /\ ~H(h).restarts /\ ~H(h).guarded
           /\ h \in view.mount => \A g \in view.mount : /\ H(g).selects => g = h
                                                      /\ Shown(H(g)) \cap Owned(view) = {}
<1>1. h \notin view.opened /\ H(h).stages = <<>>
  BY DEF FollowsChosen, Calm, H, Play
<1>2. ~H(h).restarts /\ ~H(h).guarded
  BY <1>1, FlagOfHandler
<1>3. h \in view.mount => \A g \in view.mount : H(g).selects => g = h
  BY DEF FollowsChosen, H
<1>4. h \in view.mount => \A g \in view.mount : Shown(H(g)) \cap Owned(view) = {}
  BY DEF FollowsChosen, H
<1>5. QED
  BY <1>1, <1>2, <1>3, <1>4

LEMMA Loading ==
    ASSUME NEW s, CancelledFor(view, s), NEW h \in Play, s \in Shown(H(h))
    PROVE  /\ h \in view.opened /\ H(h).guarded /\ ~H(h).opens /\ H(h).ofChosen
           /\ H(h).unless = {} /\ ~H(h).selects /\ Reopened(view, s)
           /\ \A g \in Play : s \in Shown(H(g)) => g = h
BY DEF CancelledFor, Renews, Reopened, H, Play

(* A step after which none is selected, or its effects are to begin.          *)
LEMMA CancelledAnew ==
    ASSUME IInv, FollowsChosen(view), IInv', view' = view,
           chosen' = NoItem \/ view.opened \subseteq mounting'
    PROVE  CancelledInv'
<1>0. Owned(view)' = Owned(view)
  BY DEF Owned, Belonging, Fills
<1>1. CASE chosen' = NoItem
  BY <1>1 DEF CancelledInv, IsOf
<1>2. CASE view.opened \subseteq mounting'
  <2> SUFFICES ASSUME NEW s \in Owned(view) \cap Cancelled
               PROVE  /\ \A i \in InFlight' : s \in Shown(H(calls[i].handler))' => calls'[i].handler \in mounting'
                      /\ s \in DOMAIN slot' => Renewing(s)'
    BY <1>0 DEF CancelledInv
  <2>1. CancelledFor(view, s)
    BY SlotOwned
  <2>2. ASSUME NEW i \in InFlight', s \in Shown(H(calls[i].handler))'
        PROVE  calls'[i].handler \in mounting'
    <3>1. calls'[i].handler \in Play /\ s \in Shown(H(calls'[i].handler))
      BY <2>2 DEF IInv, IsCall, Play, H, Shown, ShowsOf
    <3>2. QED
      BY <1>2, <2>1, <3>1, Loading
  <2>3. Renewing(s)'
    <3>1. PICK h \in Play : s \in Shown(H(h))
      BY DEF Owned, Fills, Shown, H, Play
    <3>2. Reopened(view, s)
      BY <2>1, <3>1, Loading
    <3>3. QED
      BY <1>2, <3>2, ReopenedAfter
  <2>4. QED
    BY <2>2, <2>3
<1>3. QED
  BY <1>1, <1>2

LEMMA CancelledBegin ==
    ASSUME IInv, FollowsChosen(view), ShapeInv, CancelledInv,
           NEW h \in Play, NEW item \in Items, Begin(h, item), chosen' # NoItem, ~(view.opened \subseteq mounting')
    PROVE  CancelledInv'
<1>0. view' = view
  BY DEF Begin
<1>1. view' = view /\ Owned(view)' = Owned(view)
  BY <1>0 DEF Owned, Belonging, Fills
<1>2. ~H(h).restarts /\ chosen' = chosen /\ mounting' = mounting \ {h}
  <2>1. ~H(h).restarts \/ H(h).selects
    BY DEF Begin
  <2>2. ~H(h).restarts
    BY <2>1, Selecting DEF IInv
  <2>3. QED
    BY <2>2 DEF Begin
<1> SUFFICES ASSUME NEW s \in Owned(view) \cap Cancelled
             PROVE  /\ \A i \in InFlight' : calls'[i].live /\ s \in Shown(H(calls[i].handler))' =>
                           calls'[i].item = chosen \/ calls'[i].handler \in mounting'
                    /\ s \in DOMAIN slot' => IsOf(s)' \/ Renewing(s)' \/ Awaited(s)'
  BY <1>1, <1>2 DEF CancelledInv
<1>3. CancelledFor(view, s)
  BY SlotOwned
<1>4. ASSUME NEW i \in InFlight', calls'[i].live, s \in Shown(H(calls[i].handler))'
      PROVE  calls'[i].item = chosen \/ calls'[i].handler \in mounting'
  <2>1. s \in Shown(H(calls'[i].handler))
    BY <1>1, <1>4 DEF Shown, ShowsOf, H
  <2>2. CASE i \in InFlight
    <3>1. /\ calls'[i].handler = calls[i].handler /\ calls'[i].item = calls[i].item
          /\ calls[i].live /\ ~Cancels(h, calls[i].handler) /\ calls[i].handler \in Play
      BY <1>4, <2>2, BeginCalls DEF Carried, IInv, IsCall
    <3>2. calls[i].item = chosen \/ calls[i].handler \in mounting
      BY <1>2, <2>1, <2>2, <3>1 DEF CancelledInv
    <3>3. calls[i].handler # h
      BY <1>3, <2>1, <3>1, Loading DEF Cancels
    <3>4. QED
      BY <1>2, <3>1, <3>2, <3>3
  <2>3. CASE i \notin InFlight
    <3>1. calls'[i] = Begun(h, item)
      BY <2>3, BeginCalls
    <3>2. calls'[i].handler = h /\ calls'[i].item = AboutItem(h, item)
      BY <3>1 DEF Begun
    <3>3. H(h).ofChosen
      BY <1>3, <2>1, <3>2, Loading
    <3>4. QED
      BY <3>2, <3>3 DEF AboutItem
  <2>4. QED
    BY <2>2, <2>3
<1>5. ASSUME s \in DOMAIN slot'
      PROVE  IsOf(s)' \/ Renewing(s)' \/ Awaited(s)'
  <2>1. s \in DOMAIN slot /\ (slot'[s] = slot[s] \/ slot'[s] = NotLoaded)
    BY <1>5, BeginSlots
  <2>2. CASE IsOf(s)
    BY <1>2, <2>1, <2>2 DEF IsOf
  <2>3. CASE Renewing(s)
    BY <2>1, <2>3, BeginRenewing DEF IsOf
  <2>4. CASE Awaited(s)
    BY <1>2, <2>4, BeginAwaited
  <2>5. QED
    BY <2>1, <2>2, <2>3, <2>4 DEF CancelledInv
<1>6. QED
  BY <1>4, <1>5

LEMMA CancelledAnswer ==
    ASSUME IInv, FollowsChosen(view), ShapeInv, CancelledInv,
           NEW i, Answer(i), chosen' # NoItem, ~(view.opened \subseteq mounting')
    PROVE  CancelledInv'
<1> DEFINE c == calls[i]
           o == H(c.handler)
<1>0. i \in InFlight /\ mounting = {} /\ view' = view /\ DOMAIN slot' = DOMAIN slot
  BY AnswerSlots
<1>1. /\ i \in InFlight /\ mounting = {} /\ view' = view /\ DOMAIN slot' = DOMAIN slot
      /\ Owned(view)' = Owned(view)
  BY <1>0 DEF Owned, Belonging, Fills
<1>2. chosen' = chosen
  <2>1. CASE LastStage(c)
    BY <2>1, AnswerSlots, OpenedCases
  <2>2. CASE ~LastStage(c)
    BY <2>2, AnswerSlots
  <2>3. QED
    BY <2>1, <2>2
<1> SUFFICES ASSUME NEW s \in Owned(view) \cap Cancelled
             PROVE  /\ \A j \in InFlight' : calls'[j].live /\ s \in Shown(H(calls[j].handler))' =>
                           calls'[j].item = chosen
                    /\ s \in DOMAIN slot' => IsOf(s)' \/ Awaited(s)'
  BY <1>1, <1>2 DEF CancelledInv
<1>3. \A j \in InFlight : calls[j].live /\ s \in Shown(H(calls[j].handler)) => calls[j].item = chosen
  BY <1>1, <1>2 DEF CancelledInv
<1>4. ASSUME NEW j \in InFlight', calls'[j].live, s \in Shown(H(calls[j].handler))'
      PROVE  calls'[j].item = chosen
  <2>1. /\ j \in InFlight /\ calls'[j].handler = calls[j].handler
        /\ calls'[j].item = calls[j].item /\ calls'[j].live = calls[j].live
    <3>1. CASE j # i
      <4>1. j \in InFlight
        BY <3>1, AnswerCalls
      <4>2. QED
        BY <3>1, <4>1, AnswerCalls
    <3>2. CASE j = i
      <4>1. calls'[i] = Advanced(i)
        BY <3>2, AnswerCalls
      <4>2. QED
        BY <1>1, <3>2, <4>1 DEF Advanced
    <3>3. QED
      BY <3>1, <3>2
  <2>2. s \in Shown(H(calls[j].handler))
    BY <1>1, <1>4, <2>1 DEF Shown, ShowsOf, H
  <2>3. QED
    BY <1>3, <1>4, <2>1, <2>2
<1>5. ASSUME s \in DOMAIN slot
      PROVE  IsOf(s)' \/ Awaited(s)'
  <2>1. CASE slot'[s] = NotLoaded
    BY <2>1 DEF IsOf
  <2>2. CASE c.live /\ \E g \in Answers(c, s) : slot'[s] = Held(c, g)
    <3>1. PICK g \in c.got : g.into.slot = s /\ slot'[s].item = c.item
      BY <2>2 DEF Answers, Held
    <3>2. s \in Shown(o)
      BY <1>1, <3>1, CallIsHandlers DEF ShapeInv, Fits
    <3>3. QED
      BY <1>1, <1>2, <1>3, <2>2, <3>1, <3>2 DEF IsOf
  <2>3. CASE slot'[s] = slot[s]
    <3>1. IsOf(s) \/ Awaited(s)
      BY <1>1, <1>5 DEF CancelledInv, Renewing
    <3>2. CASE IsOf(s)
      BY <1>2, <2>3, <3>2 DEF IsOf
    <3>3. CASE Awaited(s)
      BY <1>5, <2>1, <2>2, <3>3, AnswerAwaited
    <3>4. QED
      BY <3>1, <3>2, <3>3
  <2>4. slot'[s] = Put(c, s) \/ slot'[s] = NotLoaded
    BY <1>5, AnswerSlots
  <2>5. \/ Put(c, s) = slot[s] \/ Put(c, s) = NotLoaded
        \/ c.live /\ \E g \in Answers(c, s) : Put(c, s) = Held(c, g)
    BY PutShape
  <2>6. QED
    BY <2>1, <2>2, <2>3, <2>4, <2>5
<1>6. QED
  BY <1>1, <1>4, <1>5

(* A step that selects, shows and begins nothing.                             *)
LEMMA CancelledRest ==
    ASSUME CancelledInv, UNCHANGED <<view, chosen, slot>>, InFlight' = InFlight,
           \A j \in InFlight : /\ calls'[j].handler = calls[j].handler /\ calls'[j].item = calls[j].item
                               /\ calls'[j].live = calls[j].live,
           \A s : Awaited(s) => Awaited(s)',
           \A e \in mounting \ mounting' : H(e).unless # {}, FollowsChosen(view), IInv
    PROVE  CancelledInv'
<1>1. Owned(view)' = Owned(view)
  BY DEF Owned, Belonging, Fills
<1> SUFFICES ASSUME NEW s \in Owned(view) \cap Cancelled
             PROVE  /\ \A i \in InFlight : calls[i].live /\ s \in Shown(H(calls[i].handler)) =>
                           chosen = NoItem \/ calls[i].item = chosen \/ calls[i].handler \in mounting'
                    /\ s \in DOMAIN slot => IsOf(s)' \/ Renewing(s)' \/ Awaited(s)'
  <2>1. \A i \in InFlight : \A s : s \in Shown(H(calls[i].handler))' => s \in Shown(H(calls[i].handler))
    BY DEF Shown, ShowsOf, H
  <2>2. QED
    BY <1>1, <2>1 DEF CancelledInv
<1>2. CancelledFor(view, s)
  BY SlotOwned
<1>3. ASSUME NEW i \in InFlight, calls[i].live, s \in Shown(H(calls[i].handler))
      PROVE  chosen = NoItem \/ calls[i].item = chosen \/ calls[i].handler \in mounting'
  <2>1. H(calls[i].handler).unless = {}
    BY <1>2, <1>3, Loading DEF IInv, IsCall
  <2>2. QED
    BY <1>3, <2>1 DEF CancelledInv
<1>4. ASSUME s \in DOMAIN slot
      PROVE  IsOf(s)' \/ Renewing(s)' \/ Awaited(s)'
  <2>1. CASE IsOf(s)
    BY <2>1 DEF IsOf
  <2>2. CASE Renewing(s)
    <3>1. PICK e \in mounting : Renews(H(e), s)
      BY <2>2 DEF Renewing
    <3>2. e \in mounting'
      BY <3>1 DEF Renews
    <3>3. QED
      BY <3>1, <3>2, RenewingAfter
  <2>3. QED
    BY <1>4, <2>1, <2>2 DEF CancelledInv
<1>5. QED
  BY <1>3, <1>4

LEMMA SkipAwaited ==
    ASSUME UNCHANGED <<view, calls>>, NEW s, Awaited(s)
    PROVE  Awaited(s)'
BY DEF Awaited, H, InFlight

LEMMA CancelledKeeps ==
    ASSUME IInv, FollowsChosen(view), ShapeInv, CancelledInv, [Next]_vars, sound'
    PROVE  CancelledInv'
<1>1. IInv' /\ view' = view
  BY NextKeeps, SoundBefore
<1>2. CASE chosen' = NoItem \/ view.opened \subseteq mounting'
  BY <1>1, <1>2, CancelledAnew
<1>3. CASE chosen' # NoItem /\ ~(view.opened \subseteq mounting')
  <2>1. CASE Enter \/ Leave
    BY <1>3, <2>1 DEF Enter, Leave
  <2>2. ASSUME NEW h \in Play, NEW item \in Items, Mount(h, item) \/ Press(h, item)
        PROVE  CancelledInv'
    <3>1. CASE Begin(h, item)
      BY <1>3, <3>1, CancelledBegin
    <3>2. CASE ~Begin(h, item)
      <4>1. mounting' = mounting \ {h} /\ H(h).unless # {} /\ UNCHANGED <<view, chosen, slot, calls>>
        BY <2>2, <3>2 DEF Mount, Press
      <4>2. InFlight' = InFlight
        BY <4>1 DEF InFlight
      <4>3. QED
        BY <4>1, <4>2, SkipAwaited, CancelledRest
    <3>3. QED
      BY <3>1, <3>2
  <2>3. ASSUME NEW i \in InFlight, Serve(i)
        PROVE  CancelledInv'
    BY <2>3, ServeGoesOn, ServeAwaited, CancelledRest
  <2>4. ASSUME NEW i \in InFlight, Answer(i)
        PROVE  CancelledInv'
    BY <1>3, <2>4, CancelledAnswer
  <2>5. CASE UNCHANGED vars
    <3>1. UNCHANGED <<view, mounting, chosen, slot, calls>>
      BY <2>5 DEF vars
    <3>2. InFlight' = InFlight
      BY <3>1 DEF InFlight
    <3>3. QED
      BY <3>1, <3>2, SkipAwaited, CancelledRest
  <2>6. ~\E i \in InFlight : Fail(i)
    BY DEF Fail
  <2>7. QED
    BY <2>1, <2>2, <2>3, <2>4, <2>5, <2>6 DEF Next
<1>4. QED
  BY <1>2, <1>3

LEMMA PartsAfter ==
    ASSUME view' = view
    PROVE  /\ Owned(view)' = Owned(view)
           /\ \A s : Cleared(view, s)' = Cleared(view, s)
<1>1. Owned(view)' = Owned(view)
  BY DEF Owned, Belonging, Fills
<1>2. ASSUME NEW s
      PROVE  Cleared(view, s)' = Cleared(view, s)
  BY DEF Cleared, EffectsOf, Shown, ShowsOf
<1>3. QED
  BY <1>1, <1>2

(* The user comes or goes and finds nothing of an item left.                  *)
LEMMA ChosenRest ==
    ASSUME IInv, ShapeInv, ChosenInv, (Enter \/ Leave) /\ AtRest
    PROVE  ChosenInv'
<1>1. InFlight' = {} /\ chosen' = NoItem /\ view' = view /\ mounting' \subseteq view'.mount
  BY LeaveCalls DEF Enter, Leave, AtRest, InFlight
<1>2. here' \/ AtRest'
  BY <1>1 DEF Enter, Leave, AtRest
<1>3. ASSUME NEW s \in DOMAIN slot', s \in Owned(view), Cleared(view, s)
      PROVE  slot'[s] = NotLoaded
  <2>1. CASE Enter
    <3>1. chosen = NoItem /\ slot' = slot
      BY <2>1 DEF Enter, ChosenInv
    <3>2. QED
      BY <1>3, <3>1 DEF ChosenInv
  <2>2. CASE Leave
    <3>1. s \notin KeptSlots
      BY <1>3, HandlerCleared DEF KeptSlots
    <3>2. QED
      BY <1>3, <2>2, <3>1 DEF Leave, Emptied
  <2>3. QED
    BY <2>1, <2>2
<1>4. QED
  BY <1>1, <1>2, <1>3, PartsAfter DEF ChosenInv, IsOf

(* A step that selects, shows and begins nothing.                             *)
LEMMA ChosenGoesOn ==
    ASSUME IInv, ChosenInv, UNCHANGED <<view, here, chosen, slot>>, InFlight' = InFlight,
           \A j \in InFlight : /\ calls'[j].handler = calls[j].handler /\ calls'[j].item = calls[j].item
                               /\ calls'[j].live = calls[j].live,
           \A s : Awaited(s) => Awaited(s)',
           mounting' \subseteq mounting, \A e \in mounting \ mounting' : H(e).unless # {}
    PROVE  ChosenInv'
<1>1. Owned(view)' = Owned(view) /\ \A s : Cleared(view, s)' = Cleared(view, s)
  BY PartsAfter
<1>2. here' \/ (AtRest' /\ chosen' = NoItem)
  BY DEF ChosenInv, AtRest
<1>3. Unselected' => Unselected
  BY DEF Unselected, H
<1>4. Unselected' => /\ mounting' \subseteq view'.mount
                     /\ \A i \in InFlight' : calls'[i].handler \in view'.mount \/ calls'[i].handler \notin EffectsOf(view)'
  BY <1>3 DEF ChosenInv, EffectsOf
<1>5. ASSUME NEW i \in InFlight, calls'[i].live, Shown(H(calls[i].handler)') \cap Owned(view) # {}
      PROVE  calls'[i].item = chosen' \/ (H(calls[i].handler)'.opens /\ ~H(calls[i].handler)'.ofChosen)
  <2>1. H(calls[i].handler)' = H(calls[i].handler) /\ calls[i].live
    BY <1>5 DEF H
  <2>2. QED
    BY <1>5, <2>1 DEF ChosenInv
<1>6. ASSUME NEW s \in DOMAIN slot, s \in Owned(view)
      PROVE  IsOf(s)' \/ Renewing(s)' \/ Awaited(s)'
  <2>1. CASE IsOf(s)
    BY <2>1 DEF IsOf
  <2>2. CASE Renewing(s)
    <3>1. PICK e \in mounting : Renews(H(e), s)
      BY <2>2 DEF Renewing
    <3>2. e \in mounting'
      BY <3>1 DEF Renews
    <3>3. QED
      BY <3>1, <3>2, RenewingAfter
  <2>3. QED
    BY <1>6, <2>1, <2>2 DEF ChosenInv
<1>7. \A s \in DOMAIN slot : s \in Owned(view) /\ Cleared(view, s) /\ chosen = NoItem => slot[s] = NotLoaded
  BY DEF ChosenInv
<1>8. QED
  BY <1>1, <1>2, <1>4, <1>5, <1>6, <1>7 DEF ChosenInv

LEMMA AnswerPuts ==
    ASSUME IInv, ShapeInv, NEW i, Answer(i), NEW s \in DOMAIN slot
    PROVE  \/ slot'[s] = NotLoaded
           \/ slot'[s] = slot[s] /\ (Awaited(s) => Awaited(s)')
           \/ calls[i].live /\ s \in Shown(H(calls[i].handler)) /\ slot'[s].item = calls[i].item
<1> DEFINE c == calls[i]
<1>1. ASSUME c.live, NEW g \in Answers(c, s), slot'[s] = Held(c, g)
      PROVE  s \in Shown(H(c.handler)) /\ slot'[s].item = c.item
  <2>1. g \in c.got /\ g.into.slot = s /\ slot'[s].item = c.item
    BY <1>1 DEF Answers, Held
  <2>2. QED
    BY <2>1, AnswerSlots, CallIsHandlers DEF ShapeInv, Fits
<1>2. slot'[s] = Put(c, s) \/ slot'[s] = NotLoaded
  BY AnswerSlots
<1>3. \/ Put(c, s) = slot[s] \/ Put(c, s) = NotLoaded
      \/ c.live /\ \E g \in Answers(c, s) : Put(c, s) = Held(c, g)
  BY PutShape
<1>4. QED
  BY <1>1, <1>2, <1>3, AnswerAwaited

(* A handler that selects ends the time in which only the view's own effects  *)
(* are under way; before, none of those loads anything of an item.            *)
LEMMA BeginSelects ==
    ASSUME IInv, FollowsChosen(view), ShapeInv, ChosenInv, NEW h \in Play, NEW item \in Items,
           Begin(h, item), OnlyEffects(h), H(h).selects
    PROVE  /\ ~Unselected'
           /\ \A i \in InFlight : Shown(H(calls[i].handler)) \cap Owned(view) = {} \/ item = chosen
<1>1. chosen' = item /\ chosen' # NoItem /\ view' = view /\ mounting' \subseteq (mounting \ {h}) \cup view.opened
  BY ScreensAssumption DEF Begin
<1>2. ASSUME NEW e \in mounting, H(e).selects
      PROVE  e = h
  <2>1. mounting \subseteq view.mount
    BY <1>2 DEF ChosenInv, Unselected
  <2>2. h \in mounting
    BY <1>2 DEF OnlyEffects, AtRest
  <2>3. e \in Play
    BY <1>2, <2>1, EffectsAreCalm DEF EffectsOf, FollowsChosen
  <2>4. QED
    BY <1>2, <2>1, <2>2, <2>3, Selecting DEF IInv
<1>3. \A e \in view.opened : ~H(e).selects
  BY DEF FollowsChosen, H
<1>4. ~Unselected'
  BY <1>1, <1>2, <1>3 DEF Unselected, H
<1>5. ASSUME NEW i \in InFlight
      PROVE  Shown(H(calls[i].handler)) \cap Owned(view) = {}
  <2>1. h \in mounting /\ calls[i].handler \in EffectsOf(view)
    BY DEF OnlyEffects, AtRest
  <2>2. mounting \subseteq view.mount /\ calls[i].handler \in view.mount
    BY <2>1 DEF ChosenInv, Unselected
  <2>3. QED
    BY <2>1, <2>2, Selecting DEF IInv
<1>6. QED
  BY <1>4, <1>5

(* The call that is begun is about the selected item, or one it selects.      *)
LEMMA BeginAsks ==
    ASSUME IInv, FollowsChosen(view), ShapeInv, ChosenInv, NEW h \in Play, NEW item \in Items,
           Begin(h, item), OnlyEffects(h), NEW i \in InFlight', calls'[i].live,
           Shown(H(calls'[i].handler)) \cap Owned(view) # {}
    PROVE  calls'[i].item = chosen' \/ (H(calls'[i].handler).opens /\ ~H(calls'[i].handler).ofChosen)
<1>1. CASE i \in InFlight
  <2>1. /\ calls'[i].handler = calls[i].handler /\ calls'[i].item = calls[i].item /\ calls[i].live
    BY <1>1, BeginCalls DEF Carried
  <2>2. calls[i].item = chosen \/ (H(calls[i].handler).opens /\ ~H(calls[i].handler).ofChosen)
    BY <1>1, <2>1 DEF ChosenInv
  <2>3. h \in EffectsOf(view) /\ ~H(h).restarts /\ ~H(h).leaves
    BY <1>1, EffectsAreCalm DEF OnlyEffects, AtRest, FollowsChosen
  <2>4. chosen' = IF H(h).selects THEN item ELSE chosen
    BY <2>3 DEF Begin
  <2>5. H(h).selects => item = chosen
    BY <1>1, <2>1, BeginSelects
  <2>6. QED
    BY <2>1, <2>2, <2>4, <2>5
<1>2. CASE i \notin InFlight
  <2>1. calls'[i] = Begun(h, item) /\ H(h).stages # <<>>
    BY <1>2, BeginCalls
  <2>2. calls'[i].handler = h /\ calls'[i].item = AboutItem(h, item)
    BY <2>1 DEF Begun
  <2>3. ~H(h).selects /\ ~H(h).restarts
    BY <2>1, <2>2, Selecting, ChosenOwned DEF IInv
  <2>4. chosen' = chosen
    BY <2>1, <2>3 DEF Begin
  <2>5. QED
    BY <2>2, <2>4, ChosenOwned DEF AboutItem
<1>3. QED
  BY <1>1, <1>2

LEMMA BeginShowsChosen ==
    ASSUME IInv, FollowsChosen(view), ShapeInv, ChosenInv, NEW h \in Play, NEW item \in Items,
           Begin(h, item), OnlyEffects(h), NEW s \in DOMAIN slot, s \in Owned(view)
    PROVE  /\ IsOf(s)' \/ Renewing(s)' \/ Awaited(s)'
           /\ Cleared(view, s) /\ chosen' = NoItem => slot'[s] = NotLoaded
<1>1. view' = view /\ (slot'[s] = slot[s] \/ slot'[s] = NotLoaded)
  BY BeginSlots DEF Begin
<1>2. CASE H(h).selects /\ item # chosen
  <2>1. chosen' = item /\ chosen' # NoItem /\ view.opened \subseteq mounting'
    BY <1>2, ScreensAssumption DEF Begin
  <2>2. CASE Reopened(view, s)
    BY <1>1, <2>1, <2>2, ReopenedAfter
  <2>3. CASE EmptiedFor(view, s)
    <3>1. s \in H(h).drops
      BY <1>2, <2>3, HandlerEmptied
    <3>2. slot'[s] = NotLoaded
      BY <1>2, <3>1, BeginSlots
    <3>3. QED
      BY <2>1, <3>2 DEF IsOf
  <2>4. QED
    BY <2>2, <2>3, SlotOwned
<1>3. CASE ~(H(h).selects /\ item # chosen) /\ chosen' = NoItem
  <2>1. ~H(h).selects
    BY <1>3, ScreensAssumption DEF Begin
  <2>2. H(h).restarts \/ H(h).leaves \/ chosen = NoItem
    BY <1>3, <2>1 DEF Begin
  <2>3. ASSUME Cleared(view, s), chosen # NoItem
        PROVE  slot'[s] = NotLoaded
    <3>1. s \in H(h).drops
      BY <2>2, <2>3, HandlerCleared
    <3>2. QED
      BY <2>1, <3>1, BeginSlots
  <2>4. ASSUME Cleared(view, s), chosen = NoItem
        PROVE  slot'[s] = NotLoaded
    BY <1>1, <2>4 DEF ChosenInv
  <2>5. QED
    BY <1>3, <2>3, <2>4 DEF IsOf
<1>4. CASE ~(H(h).selects /\ item # chosen) /\ chosen' # NoItem
  <2>1. ~H(h).restarts /\ chosen' = chosen
    BY <1>4, Selecting DEF Begin, IInv
  <2>2. CASE IsOf(s)
    BY <1>1, <1>4, <2>1, <2>2 DEF IsOf
  <2>3. CASE Awaited(s)
    BY <1>4, <2>1, <2>3, BeginAwaited
  <2>4. CASE Renewing(s)
    BY <1>4, <2>4, BeginRenewing DEF IsOf
  <2>5. QED
    BY <1>4, <2>2, <2>3, <2>4 DEF ChosenInv
<1>5. QED
  BY <1>2, <1>3, <1>4

LEMMA BeginUnselected ==
    ASSUME IInv, FollowsChosen(view), ShapeInv, ChosenInv, NEW h \in Play, NEW item \in Items,
           Begin(h, item), OnlyEffects(h), Unselected'
    PROVE  /\ mounting' \subseteq view.mount
           /\ \A i \in InFlight' : calls'[i].handler \in view.mount \/ calls'[i].handler \notin EffectsOf(view)
<1>1. ~H(h).selects
  BY BeginSelects
<1>2. mounting' = mounting \ {h} /\ view' = view
  BY <1>1 DEF Begin
<1>3. AtRest \/ Unselected
  <2>1. CASE ~AtRest
    <3>1. ~H(h).restarts /\ ~H(h).leaves
      BY <2>1, EffectsAreCalm DEF OnlyEffects, FollowsChosen
    <3>2. chosen' = chosen
      BY <1>1, <3>1 DEF Begin
    <3>3. QED
      BY <1>2, <3>2 DEF Unselected, H
  <2>2. QED
    BY <2>1
<1>4. /\ mounting \subseteq view.mount
      /\ \A i \in InFlight : calls[i].handler \in view.mount \/ calls[i].handler \notin EffectsOf(view)
  BY <1>3 DEF ChosenInv, AtRest
<1>5. h \in view.mount \/ h \notin EffectsOf(view)
  BY <1>4 DEF OnlyEffects
<1>6. ASSUME NEW i \in InFlight'
      PROVE  calls'[i].handler = h \/ (i \in InFlight /\ calls'[i].handler = calls[i].handler)
  <2>1. CASE i \in InFlight
    BY <2>1, BeginCalls DEF Carried
  <2>2. CASE i \notin InFlight
    <3>1. calls'[i] = Begun(h, item)
      BY <2>2, BeginCalls
    <3>2. QED
      BY <3>1 DEF Begun
  <2>3. QED
    BY <2>1, <2>2
<1>7. QED
  BY <1>2, <1>4, <1>5, <1>6

LEMMA ChosenBegin ==
    ASSUME IInv, FollowsChosen(view), ShapeInv, ChosenInv, NEW h \in Play, NEW item \in Items,
           Begin(h, item), OnlyEffects(h), here'
    PROVE  ChosenInv'
<1>1. view' = view /\ DOMAIN slot' = DOMAIN slot
  BY BeginSlots DEF Begin
<1>2. ASSUME NEW i \in InFlight', calls'[i].live, Shown(H(calls[i].handler)') \cap Owned(view) # {}
      PROVE  calls'[i].item = chosen' \/ (H(calls[i].handler)'.opens /\ ~H(calls[i].handler)'.ofChosen)
  <2>1. H(calls[i].handler)' = H(calls'[i].handler)
    BY <1>1 DEF H
  <2>2. QED
    BY <1>2, <2>1, BeginAsks
<1>3. Unselected' => /\ mounting' \subseteq view'.mount
                     /\ \A i \in InFlight' : calls'[i].handler \in view'.mount \/ calls'[i].handler \notin EffectsOf(view)'
  BY <1>1, BeginUnselected DEF EffectsOf
<1>4. QED
  BY <1>1, <1>2, <1>3, BeginShowsChosen, PartsAfter DEF ChosenInv

(* A call that loads what belongs to an item asks for the selected one, or    *)
(* for the one that it selects when it ends.                                  *)
LEMMA CallAsks ==
    ASSUME IInv, FollowsChosen(view), ShapeInv, AloneInv, ChosenInv, NEW i \in InFlight,
           NEW s \in Owned(view), calls[i].live, s \in Shown(H(calls[i].handler))
    PROVE  \/ calls[i].item = chosen /\ ~(Cleared(view, s) /\ chosen = NoItem)
           \/ /\ H(calls[i].handler).opens /\ calls[i].home /\ InFlight = {i} /\ calls[i].item # NoItem
              /\ LastStage(calls[i])
<1> DEFINE c == calls[i]
           o == H(c.handler)
<1>1. c.handler \in Play
  BY DEF IInv, IsCall
<1>2. ~o.restarts /\ (o.ofChosen \/ (o.opens /\ Len(o.stages) = 1))
  BY <1>1, ChosenOwned
<1>3. c.item = chosen \/ (o.opens /\ ~o.ofChosen)
  BY DEF ChosenInv
<1>4. CASE o.ofChosen
  <2>1. c.item = chosen
    BY <1>3, <1>4
  <2>2. ASSUME Cleared(view, s), chosen = NoItem
        PROVE  FALSE
    <3>1. c.handler \notin EffectsOf(view)
      BY <1>1, <2>2, HandlerCleared
    <3>2. QED
      BY <1>2, <1>4, <2>2, <3>1 DEF AloneInv
  <2>3. QED
    BY <2>1, <2>2
<1>5. CASE ~o.ofChosen
  <2>1. o.opens /\ Len(o.stages) = 1
    BY <1>2, <1>5
  <2>2. c.handler \notin EffectsOf(view)
    BY <2>1, EffectsAreCalm DEF FollowsChosen
  <2>3. c.home /\ InFlight = {i} /\ c.item # NoItem
    BY <2>1, <2>2 DEF AloneInv
  <2>4. LastStage(c)
    <3>1. c.stage \in 1 .. Len(o.stages)
      BY DEF IInv, IsCall
    <3>2. QED
      BY <2>1, <3>1 DEF LastStage
  <2>5. QED
    BY <2>1, <2>3, <2>4
<1>6. QED
  BY <1>4, <1>5

(* The answer leaves the item selected that was.                              *)
LEMMA AnswerStays ==
    ASSUME IInv, FollowsChosen(view), ShapeInv, AloneInv, ChosenInv, NEW i, Answer(i), chosen' = chosen,
           NEW s \in DOMAIN slot, s \in Owned(view)
    PROVE  /\ IsOf(s)' \/ Awaited(s)'
           /\ Cleared(view, s) /\ chosen' = NoItem => slot'[s] = NotLoaded
<1> DEFINE c == calls[i]
           o == H(c.handler)
<1>1. i \in InFlight /\ mounting = {}
  BY AnswerSlots
<1>2. /\ IsOf(s) \/ Awaited(s)
      /\ Cleared(view, s) /\ chosen = NoItem => slot[s] = NotLoaded
  BY <1>1 DEF ChosenInv, Renewing
<1>3. CASE slot'[s] = NotLoaded
  BY <1>3 DEF IsOf
<1>4. CASE slot'[s] = slot[s] /\ (Awaited(s) => Awaited(s)')
  BY <1>2, <1>4 DEF IsOf
<1>5. CASE c.live /\ s \in Shown(o) /\ slot'[s].item = c.item
  <2>1. CASE c.item = chosen /\ ~(Cleared(view, s) /\ chosen = NoItem)
    BY <1>5, <2>1 DEF IsOf
  <2>2. CASE o.opens /\ c.home /\ c.item # NoItem /\ LastStage(c)
    <3>1. chosen' = c.item
      BY <1>5, <2>2, AnswerSlots, OpenedCases
    <3>2. QED
      BY <1>5, <2>2, <3>1 DEF IsOf
  <2>3. QED
    BY <1>1, <1>5, <2>1, <2>2, CallAsks
<1>6. QED
  BY <1>3, <1>4, <1>5, AnswerPuts

(* The answer selects another item, or leaves none selected.                  *)
LEMMA AnswerSelects ==
    ASSUME IInv, FollowsChosen(view), ShapeInv, AloneInv, ChosenInv, NEW i, Answer(i), chosen' # chosen
    PROVE  LET c == calls[i]  o == H(c.handler)
           IN /\ c.handler \in Play /\ c.live /\ c.home
              /\ \/ /\ o.opens /\ chosen' = c.item /\ chosen' # NoItem /\ mounting' = view.opened
                    /\ c.handler \notin EffectsOf(view) /\ InFlight' = {}
                    /\ o.ofChosen => o.restarts
                    /\ o.fromList => chosen = NoItem
                 \/ /\ ~o.opens /\ o.picks /\ chosen = NoItem /\ chosen' # NoItem /\ mounting' = view.opened
                    /\ InFlight' = InFlight \ {i}
                 \/ /\ ~o.opens /\ o.leaves /\ chosen' = NoItem /\ mounting' \subseteq view.mount
                    /\ c.handler \notin EffectsOf(view) /\ InFlight' = {}
<1> DEFINE c == calls[i]
           o == H(c.handler)
<1>1. i \in InFlight /\ mounting = {} /\ c.handler \in Play
  BY AnswerSlots DEF IInv, IsCall
<1>2. Opened(c) /\ InFlight' = InFlight \ {i}
  BY AnswerSlots, AnswerCalls
<1>3. c.handler \notin EffectsOf(view) => /\ InFlight = {i}
                                          /\ o.ofChosen /\ ~o.restarts => c.item = chosen
                                          /\ o.fromList => chosen = NoItem
                                          /\ o.opens => c.item # NoItem
  BY <1>1 DEF AloneInv
<1>4. o.opens \/ o.leaves => c.handler \notin EffectsOf(view)
  BY EffectsAreCalm DEF FollowsChosen
<1>5. CASE /\ c.live /\ c.home
           /\ o.opens /\ chosen' = c.item
           /\ mounting' = mounting \cup (IF o.anew \/ chosen' # chosen THEN view.opened ELSE {})
  BY <1>1, <1>2, <1>3, <1>4, <1>5
<1>6. CASE /\ c.live /\ c.home
           /\ ~o.opens /\ o.picks /\ chosen = NoItem /\ chosen' \in Items
           /\ mounting' = mounting \cup (IF o.anew \/ chosen' # chosen THEN view.opened ELSE {})
  BY <1>1, <1>2, <1>6, ScreensAssumption
<1>7. CASE /\ ~(c.live /\ c.home /\ o.opens)
           /\ chosen' = IF c.live /\ c.home /\ o.leaves THEN NoItem ELSE chosen
           /\ mounting' = mounting \cup (IF here /\ o.restarts THEN view.mount ELSE {})
  BY <1>1, <1>2, <1>3, <1>4, <1>7
<1>8. QED
  BY <1>2, <1>5, <1>6, <1>7, OpenedCases

LEMMA AnswerChanges ==
    ASSUME IInv, FollowsChosen(view), ShapeInv, AloneInv, ChosenInv, NEW i, Answer(i), chosen' # chosen,
           NEW s \in DOMAIN slot, s \in Owned(view)
    PROVE  /\ IsOf(s)' \/ Renewing(s)'
           /\ Cleared(view, s) /\ chosen' = NoItem => slot'[s] = NotLoaded
<1> DEFINE c == calls[i]
           o == H(c.handler)
<1>1. i \in InFlight /\ view' = view
  BY AnswerSlots
<1>2. \/ slot'[s] = NotLoaded \/ slot'[s] = slot[s]
      \/ s \in Shown(o) /\ slot'[s].item = c.item
  BY AnswerPuts
<1>3. CASE /\ c.handler \in Play
           /\ o.opens /\ chosen' = c.item /\ chosen' # NoItem /\ mounting' = view.opened
           /\ o.ofChosen => o.restarts
           /\ o.fromList => chosen = NoItem
  <2>1. CASE Reopened(view, s)
    BY <1>1, <1>3, <2>1, ReopenedAfter
  <2>2. CASE EmptiedFor(view, s)
    <3>1. chosen = NoItem /\ Cleared(view, s)
      BY <1>3, <2>2, HandlerEmptied
    <3>2. slot[s] = NotLoaded
      BY <3>1 DEF ChosenInv
    <3>3. QED
      BY <1>2, <1>3, <3>2 DEF IsOf
  <2>3. QED
    BY <2>1, <2>2, SlotOwned
<1>4. CASE c.handler \in Play /\ o.picks /\ chosen' # NoItem /\ mounting' = view.opened
  <2>1. Reopened(view, s)
    BY <1>4, SlotOwned, HandlerEmptied
  <2>2. QED
    BY <1>1, <1>4, <2>1, ReopenedAfter
<1>5. CASE /\ c.handler \in Play /\ ~o.opens /\ o.leaves /\ chosen' = NoItem
           /\ c.handler \notin EffectsOf(view)
  <2>1. ASSUME Cleared(view, s)
        PROVE  slot'[s] = NotLoaded
    <3>1. s \in o.drops \ Shown(o)
      BY <1>5, <2>1, HandlerCleared
    <3>2. slot[s] = NotLoaded
      BY <1>1, <1>5, <3>1 DEF AloneInv
    <3>3. QED
      BY <1>2, <3>1, <3>2
  <2>2. QED
    BY <1>5, <2>1 DEF IsOf
<1>6. QED
  BY <1>3, <1>4, <1>5, AnswerSelects

LEMMA AnswerAsks ==
    ASSUME IInv, FollowsChosen(view), ShapeInv, AloneInv, ChosenInv, NEW i, Answer(i),
           NEW j \in InFlight', calls'[j].live, Shown(H(calls'[j].handler)) \cap Owned(view) # {}
    PROVE  calls'[j].item = chosen' \/ (H(calls'[j].handler).opens /\ ~H(calls'[j].handler).ofChosen)
<1>1. /\ j \in InFlight /\ calls'[j].handler = calls[j].handler
      /\ calls'[j].item = calls[j].item /\ calls'[j].live = calls[j].live
  <2>1. CASE j # i
    <3>1. j \in InFlight
      BY <2>1, AnswerCalls
    <3>2. QED
      BY <2>1, <3>1, AnswerCalls
  <2>2. CASE j = i
    <3>1. calls'[i] = Advanced(i) /\ i \in InFlight
      BY <2>2, AnswerCalls, AnswerSlots
    <3>2. /\ calls'[i].handler = calls[i].handler
          /\ calls'[i].item = calls[i].item /\ calls'[i].live = calls[i].live
      BY <3>1 DEF Advanced
    <3>3. QED
      BY <2>2, <3>1, <3>2
  <2>3. QED
    BY <2>1, <2>2
<1>2. calls[j].item = chosen \/ (H(calls[j].handler).opens /\ ~H(calls[j].handler).ofChosen)
  BY <1>1 DEF ChosenInv
<1>3. CASE chosen' = chosen
  BY <1>1, <1>2, <1>3
<1>4. CASE chosen' # chosen
  <2> DEFINE o == H(calls[i].handler)
  <2>1. /\ calls[i].handler \in Play /\ o.picks /\ chosen = NoItem /\ InFlight' = InFlight \ {i}
    BY <1>4, AnswerSelects
  <2>2. Unselected /\ i \in InFlight /\ j # i
    BY <2>1, AnswerSlots DEF Unselected
  <2>3. calls[i].handler \in EffectsOf(view) /\ calls[j].handler \in EffectsOf(view)
    BY <1>1, <2>2 DEF AloneInv
  <2>4. calls[i].handler \in view.mount /\ calls[j].handler \in view.mount
    BY <1>1, <2>2, <2>3 DEF ChosenInv
  <2>5. Shown(H(calls[j].handler)) \cap Owned(view) = {}
    BY <2>1, <2>4 DEF FollowsChosen, H
  <2>6. QED
    BY <1>1, <2>5
<1>5. QED
  BY <1>3, <1>4

LEMMA AnswerUnselected ==
    ASSUME IInv, FollowsChosen(view), ShapeInv, AloneInv, ChosenInv, NEW i, Answer(i), Unselected'
    PROVE  /\ mounting' \subseteq view.mount
           /\ \A j \in InFlight' : calls'[j].handler \in view.mount \/ calls'[j].handler \notin EffectsOf(view)
<1> DEFINE c == calls[i]
           o == H(c.handler)
<1>1. i \in InFlight /\ mounting = {} /\ view' = view
  BY AnswerSlots
<1>2. \A j \in InFlight' : j \in InFlight /\ calls'[j].handler = calls[j].handler
  <2> TAKE j \in InFlight'
  <2>1. CASE j # i
    <3>1. j \in InFlight
      BY <2>1, AnswerCalls
    <3>2. QED
      BY <2>1, <3>1, AnswerCalls
  <2>2. CASE j = i
    <3>1. calls'[i] = Advanced(i)
      BY <2>2, AnswerCalls
    <3>2. QED
      BY <1>1, <2>2, <3>1 DEF Advanced
  <2>3. QED
    BY <2>1, <2>2
<1>3. \A e \in view.opened : ~H(e).selects
  BY DEF FollowsChosen, H
<1>4. mounting' = view.opened => chosen' = NoItem
  BY <1>1, <1>3 DEF Unselected, H
<1>5. CASE chosen' # chosen
  BY <1>4, <1>5, AnswerSelects
<1>6. CASE chosen' = chosen /\ ~LastStage(c)
  <2>1. mounting' = {} /\ chosen = NoItem
    BY <1>1, <1>6, AnswerSlots DEF Unselected
  <2>2. QED
    BY <1>2, <2>1 DEF ChosenInv, Unselected
<1>7. CASE chosen' = chosen /\ LastStage(c)
  <2>1. Opened(c) /\ InFlight' = InFlight \ {i}
    BY <1>7, AnswerSlots, AnswerCalls
  <2>2. o.opens \/ o.restarts => c.handler \notin EffectsOf(view)
    BY EffectsAreCalm DEF FollowsChosen
  <2>3. c.handler \notin EffectsOf(view) => InFlight = {i} /\ (o.opens => c.item # NoItem)
    BY <1>1 DEF AloneInv
  <2>4. CASE /\ o.opens /\ chosen' = c.item
             /\ mounting' = mounting \cup (IF o.anew \/ chosen' # chosen THEN view.opened ELSE {})
    <3>1. chosen' # NoItem /\ InFlight' = {}
      BY <2>1, <2>2, <2>3, <2>4
    <3>2. QED
      BY <1>1, <1>4, <2>4, <3>1
  <2>5. CASE ~o.opens /\ chosen = NoItem /\ chosen' \in Items
    BY <1>7, <2>5, ScreensAssumption
  <2>6. CASE mounting' = mounting \cup (IF here /\ o.restarts THEN view.mount ELSE {})
    <3>1. mounting' \subseteq view.mount
      BY <1>1, <2>6
    <3>2. CASE o.restarts
      BY <2>1, <2>2, <2>3, <3>1, <3>2
    <3>3. CASE ~o.restarts
      <4>1. mounting' = {}
        BY <1>1, <2>6, <3>3
      <4>2. Unselected
        BY <1>7, <4>1 DEF Unselected
      <4>3. QED
        BY <1>2, <4>1, <4>2 DEF ChosenInv
    <3>4. QED
      BY <3>2, <3>3
  <2>7. QED
    BY <2>1, <2>4, <2>5, <2>6, OpenedCases
<1>8. QED
  BY <1>5, <1>6, <1>7

LEMMA ChosenAnswer ==
    ASSUME IInv, FollowsChosen(view), ShapeInv, AloneInv, ChosenInv, NEW i, Answer(i)
    PROVE  ChosenInv'
<1>1. view' = view /\ here' = here /\ DOMAIN slot' = DOMAIN slot /\ i \in InFlight
  BY AnswerSlots
<1>2. here'
  BY <1>1 DEF ChosenInv, AtRest
<1>3. ASSUME NEW j \in InFlight', calls'[j].live, Shown(H(calls[j].handler)') \cap Owned(view) # {}
      PROVE  calls'[j].item = chosen' \/ (H(calls[j].handler)'.opens /\ ~H(calls[j].handler)'.ofChosen)
  <2>1. H(calls[j].handler)' = H(calls'[j].handler)
    BY <1>1 DEF H
  <2>2. QED
    BY <1>3, <2>1, AnswerAsks
<1>4. Unselected' => /\ mounting' \subseteq view'.mount
                     /\ \A j \in InFlight' : calls'[j].handler \in view'.mount \/ calls'[j].handler \notin EffectsOf(view)'
  BY <1>1, AnswerUnselected DEF EffectsOf
<1>5. \A s \in DOMAIN slot : s \in Owned(view) =>
         /\ IsOf(s)' \/ Renewing(s)' \/ Awaited(s)'
         /\ Cleared(view, s) /\ chosen' = NoItem => slot'[s] = NotLoaded
  <2>1. CASE chosen' = chosen
    BY <2>1, AnswerStays
  <2>2. CASE chosen' # chosen
    BY <2>2, AnswerChanges
  <2>3. QED
    BY <2>1, <2>2
<1>6. QED
  BY <1>1, <1>2, <1>3, <1>4, <1>5, PartsAfter DEF ChosenInv

LEMMA ChosenKeeps ==
    ASSUME IInv, FollowsChosen(view), ShapeInv, AloneInv, ChosenInv, [Next]_vars, waited', sound'
    PROVE  ChosenInv'
<1>0. Calm(view)
  BY DEF FollowsChosen
<1>1. CASE (Enter \/ Leave) /\ AtRest
  BY <1>1, ChosenRest
<1>2. ASSUME NEW h \in Play, NEW item \in Items, Mount(h, item) \/ (Press(h, item) /\ AtRest)
      PROVE  ChosenInv'
  <2>1. OnlyEffects(h) /\ here' = here
    BY <1>0, <1>2, BegunWhere DEF Mount, Press
  <2>2. here
    BY <1>2 DEF Mount, Press, ChosenInv, AtRest
  <2>3. CASE Begin(h, item)
    BY <2>1, <2>2, <2>3, ChosenBegin
  <2>4. CASE ~Begin(h, item)
    <3>1. mounting' = mounting \ {h} /\ H(h).unless # {} /\ UNCHANGED <<view, chosen, slot, calls>>
      BY <1>0, <1>2, <2>4, BegunWhere
    <3>2. InFlight' = InFlight
      BY <3>1 DEF InFlight
    <3>3. QED
      BY <2>1, <3>1, <3>2, SkipAwaited, ChosenGoesOn
  <2>5. QED
    BY <2>3, <2>4
<1>3. ASSUME NEW i \in InFlight, Serve(i)
      PROVE  ChosenInv'
  BY <1>3, ServeGoesOn, ServeAwaited, ChosenGoesOn
<1>4. ASSUME NEW i \in InFlight, Answer(i)
      PROVE  ChosenInv'
  BY <1>4, ChosenAnswer
<1>5. CASE UNCHANGED vars
  <2>1. UNCHANGED <<view, here, mounting, chosen, slot, calls>>
    BY <1>5 DEF vars
  <2>2. InFlight' = InFlight
    BY <2>1 DEF InFlight
  <2>3. QED
    BY <2>1, <2>2, SkipAwaited, ChosenGoesOn
<1>6. QED
  BY <1>1, <1>2, <1>3, <1>4, <1>5, WaitedBefore

LEMMA InitChosen ==
    ASSUME Init
    PROVE  ChosenInv /\ CancelledInv
<1>1. /\ InFlight = {} /\ mounting = {} /\ chosen = NoItem /\ \A s \in DOMAIN slot : slot[s] = NotLoaded
  BY DEF Init, InFlight
<1>2. QED
  BY <1>1 DEF ChosenInv, CancelledInv, AtRest, IsOf

ChosenIInv == /\ IInv /\ FollowsChosen(view)
              /\ sound => ShapeInv /\ CancelledInv
              /\ waited /\ sound => AloneInv /\ ChosenInv

(* For every catalogue of views of which, whatever handlers are played, only  *)
(* the handlers of the selected item load what belongs to it and whatever     *)
(* selects another loads it anew or has emptied it, and any bounds: what is   *)
(* on screen as belonging to the selected item does.                          *)
THEOREM ViewsShowTheChosen ==
    ASSUME \A v \in DOMAIN Views : Sound(Views[v]) /\ \A p \in Plays(Views[v]) : FollowsChosen(p)
    PROVE  Spec => []ShownOfChosen
<1>1. Init => ChosenIInv
  <2> HAVE Init
  <2>1. IInv
    BY InitFlags
  <2>2. FollowsChosen(view)
    BY DEF Init
  <2>3. QED
    BY <2>1, <2>2, InitShape, InitChosen DEF ChosenIInv
<1>2. ChosenIInv /\ [Next]_vars => ChosenIInv'
  <2> SUFFICES ASSUME ChosenIInv, [Next]_vars PROVE ChosenIInv'
    OBVIOUS
  <2>1. IInv' /\ IInv
    BY NextKeeps DEF ChosenIInv
  <2>2. view' = view
    BY SoundBefore
  <2>3. FollowsChosen(view) /\ FollowsChosen(view)' /\ Calm(view)
    <3>1. FollowsChosen(view) /\ Calm(view)
      BY DEF ChosenIInv, FollowsChosen
    <3>2. FollowsChosen(view)'
      BY <2>2, <3>1
    <3>3. QED
      BY <3>1, <3>2
  <2>4. ASSUME sound'
        PROVE  ShapeInv' /\ CancelledInv'
    BY <2>1, <2>3, <2>4, SoundBefore, ShapeKeeps, CancelledKeeps DEF ChosenIInv
  <2>5. ASSUME waited', sound'
        PROVE  AloneInv' /\ ChosenInv'
    <3>1. ShapeInv /\ AloneInv /\ ChosenInv
      BY <2>5, WaitedBefore DEF ChosenIInv
    <3>2. QED
      BY <2>1, <2>3, <2>5, <3>1, AloneKeeps, ChosenKeeps
  <2>6. QED
    BY <2>1, <2>3, <2>4, <2>5 DEF ChosenIInv
<1>3. ChosenIInv => ShownOfChosen
  <2> SUFFICES ASSUME ChosenIInv, AtRest, sound, NEW p \in Visible, p.about, NEW s \in Seen(p) \ LeftBehind,
                      waited \/ s \in Cancelled
               PROVE  slot[s].item = chosen
    BY DEF ShownOfChosen
  <2>1. PICK n \in DOMAIN view.parts : p = view.parts[n] /\ chosen # NoItem
    BY DEF Visible
  <2>2. s \in DOMAIN slot /\ slot[s] # NotLoaded /\ s \in Belonging(view) \ LeftBehind
    BY <2>1 DEF Seen, Belonging
  <2>3. s \in Owned(view)
    BY <2>2 DEF ChosenIInv, ShapeInv, Owned
  <2>4. ~Renewing(s) /\ ~Awaited(s)
    BY DEF AtRest, Renewing, Awaited
  <2>5. IsOf(s)
    BY <2>2, <2>3, <2>4 DEF ChosenIInv, ChosenInv, CancelledInv
  <2>6. QED
    BY <2>1, <2>2, <2>5 DEF IsOf
<1>4. QED
  BY <1>1, <1>2, <1>3, PTL DEF Spec
=============================================================================
