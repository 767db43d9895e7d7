------------------------- MODULE ToolBoundaryProofs -------------------------
(***************************************************************************)
(* Proofs about ToolBoundary, for every set of lanes, branches, tools and  *)
(* arguments, whatever was declared about the tools, and every bound.      *)
(***************************************************************************)
EXTENDS ToolBoundary, FiniteSetTheorems, TLAPS

-----------------------------------------------------------------------------
(* What the virtual layer answers.                                         *)

\* The answers of resolve(): an own record, a hit in the base, or a fixture or
\* an invention, filed if it is a write.
LEMMA ResolvedForms ==
  ASSUME NEW l, NEW t, NEW a
  PROVE  \/ Own(l, t, a) /\ Resolved(l, t, a) = [reply |-> OverlayFor(l).delta[a],
                                                 overlay |-> OverlayFor(l)]
         \/ Looks(t, a) /\ Resolved(l, t, a) = [reply |-> [id |-> a, source |-> "raised", arg |-> a],
                                                overlay |-> OverlayFor(l)]
         \/ ~Own(l, t, a) /\ Lookup(t, a) = NoFixture
              /\ Resolved(l, t, a) = Filed(l, t, Invention(t, a))
         \/ ~Own(l, t, a) /\ Lookup(t, a) # NoFixture
              /\ Resolved(l, t, a) = Filed(l, t, [Lookup(t, a) EXCEPT !.source = "fixture"])
<1>1. CASE Own(l, t, a)
  BY <1>1 DEF Resolved
<1>2. CASE ~Own(l, t, a) /\ Looks(t, a) /\ a \in BaseIds
  BY <1>2 DEF Resolved
<1>3. CASE ~Own(l, t, a) /\ ~(Looks(t, a) /\ a \in BaseIds)
  BY <1>3 DEF Resolved
<1> QED
  BY <1>1, <1>2, <1>3

\* The overlay a lane has or would be given is typed.
LEMMA OverlayForType ==
  ASSUME TypeOK, NEW l \in Shadows
  PROVE  OverlayFor(l) \in Overlay
<1>1. FreshOverlay \in Overlay
  BY DEF FreshOverlay, Overlay
<1> QED
  BY <1>1 DEF OverlayFor, TypeOK

\* Filing keeps types as long as the overlay may mint, and gives every filed
\* answer an identifier under which it is found.
LEMMA FiledEffect ==
  ASSUME TypeOK, NEW l \in Shadows, NEW t \in Tools, NEW reply \in Reply,
         Filed(l, t, reply).overlay.minted <= MaxMinted
  PROVE  LET o == OverlayFor(l)
             f == Filed(l, t, reply)
         IN  /\ f.reply \in Reply /\ f.overlay \in Overlay
             /\ \/ /\ Specs[t].op = "write" /\ Specs[t].linked
                   /\ f.reply.source = reply.source
                   /\ f.reply.id # NoId
                   /\ f.overlay.delta = [o.delta EXCEPT ![f.reply.id] = f.reply]
                   /\ \/ f.reply.id = reply.id /\ f.overlay.minted = o.minted
                      \/ /\ reply.id = NoId
                         /\ f.reply.id = <<l, o.minted + 1>> /\ f.reply.id \in MintedIds
                         /\ f.overlay.minted = o.minted + 1
                \/ /\ ~(Specs[t].op = "write" /\ Specs[t].linked)
                   /\ f.reply = reply /\ f.overlay = o
<1> DEFINE o == OverlayFor(l)
           f == Filed(l, t, reply)
<1>1. o \in Overlay
  BY OverlayForType
<1>2. CASE ~(Specs[t].op = "write" /\ Specs[t].linked)
  BY <1>1, <1>2 DEF Filed
<1>3. CASE Specs[t].op = "write" /\ Specs[t].linked /\ reply.id # NoId
  <2>1. f = [reply |-> reply, overlay |-> [delta |-> [o.delta EXCEPT ![reply.id] = reply],
                                           minted |-> o.minted]]
    BY <1>3 DEF Filed
  <2>2. reply.id \in Ids
    BY DEF Reply
  <2>3. [o.delta EXCEPT ![reply.id] = reply] \in [Ids -> Reply \cup {NoReply}] /\ o.minted \in Nat
    BY <1>1, <2>2 DEF Overlay
  <2>4. [delta |-> [o.delta EXCEPT ![reply.id] = reply], minted |-> o.minted] \in Overlay
    BY <2>3 DEF Overlay
  <2> HIDE DEF f, o
  <2>5. f.reply = reply /\ f.overlay = [delta |-> [o.delta EXCEPT ![reply.id] = reply],
                                        minted |-> o.minted]
    BY <2>1
  <2>6. f.overlay \in Overlay
    BY <2>4, <2>5
  <2>7. f.overlay.delta = [o.delta EXCEPT ![reply.id] = reply] /\ f.overlay.minted = o.minted
    BY <2>5
  <2> QED
    BY <1>3, <2>5, <2>6, <2>7 DEF f, o
<1>4. CASE Specs[t].op = "write" /\ Specs[t].linked /\ reply.id = NoId
  <2> DEFINE i == <<l, o.minted + 1>>
             r == [reply EXCEPT !.id = i]
             v == [delta |-> [o.delta EXCEPT ![r.id] = r], minted |-> o.minted + 1]
  <2>1. f = [reply |-> r, overlay |-> v]
    BY <1>4 DEF Filed
  <2>2. o.minted \in Nat
    BY <1>1 DEF Overlay
  <2>3. o.minted + 1 \in 1..MaxMinted
    <3>1. f.overlay.minted = o.minted + 1
      BY <2>1
    <3> QED
      BY <2>2, <3>1, BoundaryAssumption
  <2>4. i \in MintedIds
    BY <2>3 DEF MintedIds
  <2>5. i \in Ids /\ i # NoId
    BY <2>4, BoundaryAssumption DEF Ids
  <2>6. r \in Reply /\ r.id = i /\ r.source = reply.source
    BY <2>5 DEF Reply
  <2>7. v.delta \in [Ids -> Reply \cup {NoReply}] /\ v.minted \in Nat
    BY <1>1, <2>2, <2>5, <2>6 DEF Overlay
  <2>8. v \in Overlay
    BY <2>7 DEF Overlay
  <2>9. f.reply = r /\ f.overlay = v
    BY <2>1
  <2>10. f.overlay.delta = [o.delta EXCEPT ![r.id] = r] /\ f.overlay.minted = o.minted + 1
    BY <2>9
  <2> HIDE DEF f, v, r, o, i
  <2> QED
    BY <1>4, <2>4, <2>5, <2>6, <2>8, <2>9, <2>10 DEF f, o, i
<1> QED
  BY <1>2, <1>3, <1>4

-----------------------------------------------------------------------------
(* Types.                                                                  *)

\* A call that may be made has a key in the fixture store.
LEMMA CallKey ==
  ASSUME TypeOK, NEW b \in Branches, NEW t \in Tools, NEW a, MayCall(b, t, a)
  PROVE  /\ a \in Payloads \cup Ids /\ <<t, a>> \in Calls
         /\ Specs[t].op = "write" => a \in Payloads
         /\ Specs[t].op # "write" => a \in Knows(b) /\ a \in Ids
<1>1. Specs[t].op \in {"read", "write"}
  BY BoundaryAssumption DEF ToolSpec
<1>2. Knows(b) \subseteq Ids
  BY DEF Knows, TypeOK, Reply, Ids
<1>3. CASE Specs[t].op = "write"
  BY <1>3 DEF MayCall, Calls
<1>4. CASE Specs[t].op # "write"
  <2>1. a \in Knows(b) /\ a \in Ids /\ a \notin Payloads
    BY <1>2, <1>4, BoundaryAssumption DEF MayCall
  <2> QED
    BY <1>4, <2>1 DEF Calls
<1> QED
  BY <1>3, <1>4

\* Whoever is not a primary and may act is a shadow.
LEMMA DecideLane ==
  ASSUME NEW b \in Branches, NEW h, Decide(LaneOf[b], h) = "virtual"
  PROVE  LaneOf[b] \in Shadows
BY BoundaryAssumption DEF Decide, Lanes

\* What a virtual call starts from is typed: a fixture or an invention.
LEMMA SourceTypes ==
  ASSUME TypeOK, NEW t \in Tools, NEW a \in Payloads \cup Ids, <<t, a>> \in Calls
  PROVE  /\ Invention(t, a) \in Reply
         /\ Lookup(t, a) # NoFixture =>
              /\ Lookup(t, a) \in Reply
              /\ [Lookup(t, a) EXCEPT !.source = "fixture"] \in Reply
<1>1. Specs[t].id \in Ids /\ Specs[t].invents \in Sources
  BY BoundaryAssumption DEF ToolSpec, Ids, Sources
<1>2. Invention(t, a) \in Reply
  BY <1>1 DEF Invention, Reply
<1>3. Lookup(t, a) \in Reply \cup {NoFixture}
  BY DEF Lookup, TypeOK
<1>4. ASSUME NEW x \in Reply
      PROVE  [x EXCEPT !.source = "fixture"] \in Reply
  BY DEF Reply, Sources
<1> QED
  BY <1>2, <1>3, <1>4

\* A virtual call's answer and overlay are typed.
LEMMA VirtualTypes ==
  ASSUME TypeOK, NEW b \in Branches, NEW t \in Tools, NEW a, VirtualCall(b, t, a)
  PROVE  /\ LaneOf[b] \in Shadows
         /\ a \in Payloads \cup Ids /\ <<t, a>> \in Calls
         /\ Resolved(LaneOf[b], t, a).reply \in Reply
         /\ Resolved(LaneOf[b], t, a).overlay \in Overlay
<1> DEFINE l == LaneOf[b]
           r == Resolved(l, t, a)
<1>1. l \in Shadows
  BY DecideLane DEF VirtualCall
<1>2. MayCall(b, t, a) /\ r.overlay.minted <= MaxMinted
  BY DEF VirtualCall
<1>3. a \in Payloads \cup Ids /\ <<t, a>> \in Calls
  BY <1>2, CallKey
<1>4. Looks(t, a) => a \in Ids
  <2>1. Specs[t].op = "read" => a \in Ids
    BY <1>2, CallKey
  <2> QED
    BY <2>1 DEF Looks
<1>5. OverlayFor(l) \in Overlay
  BY <1>1, OverlayForType
<1>6. CASE Own(l, t, a) /\ r = [reply |-> OverlayFor(l).delta[a], overlay |-> OverlayFor(l)]
  BY <1>1, <1>3, <1>4, <1>5, <1>6 DEF Own, Overlay
<1>7. CASE Looks(t, a) /\ r = [reply |-> [id |-> a, source |-> "raised", arg |-> a],
                               overlay |-> OverlayFor(l)]
  BY <1>1, <1>3, <1>4, <1>5, <1>7 DEF Reply, Sources
<1>8. CASE r = Filed(l, t, Invention(t, a))
  <2>1. Invention(t, a) \in Reply
    BY <1>3, SourceTypes
  <2> HIDE DEF l
  <2> QED
    BY <1>1, <1>2, <1>3, <1>8, <2>1, FiledEffect DEF l
<1>9. CASE Lookup(t, a) # NoFixture /\ r = Filed(l, t, [Lookup(t, a) EXCEPT !.source = "fixture"])
  <2>1. [Lookup(t, a) EXCEPT !.source = "fixture"] \in Reply
    BY <1>3, <1>9, SourceTypes
  <2> QED
    BY <1>1, <1>2, <1>3, <1>9, <2>1, FiledEffect
<1> QED
  BY <1>1, <1>3, <1>6, <1>7, <1>8, <1>9, ResolvedForms

LEMMA InitTypeOK == Init => TypeOK
BY BoundaryAssumption DEF Init, TypeOK, Idle, Modes, Ids

\* An entry of the call table is replaced by a typed one.
LEMMA AnswerTypes ==
  ASSUME TypeOK, NEW b \in Branches, NEW t \in Tools, NEW a \in Payloads \cup Ids,
         NEW m \in Modes, NEW r \in Reply \cup {NoReply}, NEW u \in BOOLEAN,
         Answer(b, t, a, m, r, u)
  PROVE  call' \in [Branches ->
           [mode : Modes, tool : Tools \cup {NoReply}, arg : Payloads \cup Ids,
            reply : Reply \cup {NoReply}, ungrounded : BOOLEAN]]
BY DEF Answer, TypeOK

\* A call in progress is given its typed answer.
LEMMA ReplyTypes ==
  ASSUME TypeOK, NEW b \in Branches, NEW m \in Modes, NEW r \in Reply,
         call' = [call EXCEPT ![b].mode = m, ![b].reply = r]
  PROVE  call' \in [Branches ->
           [mode : Modes, tool : Tools \cup {NoReply}, arg : Payloads \cup Ids,
            reply : Reply \cup {NoReply}, ungrounded : BOOLEAN]]
<1> DEFINE Entry == [mode : Modes, tool : Tools \cup {NoReply}, arg : Payloads \cup Ids,
                     reply : Reply \cup {NoReply}, ungrounded : BOOLEAN]
           e == [call[b] EXCEPT !.mode = m, !.reply = r]
<1>1. call \in [Branches -> Entry]
  BY DEF TypeOK
<1>2. ASSUME NEW x \in Entry
      PROVE  [x EXCEPT !.mode = m, !.reply = r] \in Entry
  OBVIOUS
<1>3. e \in Entry
  BY <1>1, <1>2
<1>4. call' = [call EXCEPT ![b] = e]
  BY <1>1
<1> HIDE DEF Entry, e
<1>5. call' \in [Branches -> Entry]
  BY <1>1, <1>3, <1>4
<1> QED
  BY <1>5 DEF Entry

LEMMA EnteredTypes ==
  ASSUME TypeOK, NEW b \in Branches, Entered(b)
  PROVE  calls' \in [Branches -> Nat]
BY DEF Entered, TypeOK

\* Every step keeps the types.
LEMMA StepTypeOK == TypeOK /\ [Next]_vars => TypeOK'
<1> SUFFICES ASSUME TypeOK, [Next]_vars
             PROVE  TypeOK'
  OBVIOUS
<1>0. {"idle", "real", "sleep"} = Modes /\ {"blocked", "real", "raised", "cancelled"} \subseteq Sources
  BY DEF Modes, Sources
<1>1. ASSUME NEW b \in Branches, NEW t \in Tools, NEW a, StubCall(b, t, a)
      PROVE  TypeOK'
  <2>1. a \in Payloads \cup Ids
    BY <1>1, CallKey DEF StubCall
  <2>2. [id |-> NoId, source |-> "blocked", arg |-> a] \in Reply
    BY <1>0, <2>1 DEF Reply, Ids
  <2>3. Answer(b, t, a, "idle", [id |-> NoId, source |-> "blocked", arg |-> a], FALSE) /\ Entered(b)
    BY <1>1 DEF StubCall
  <2>4. calls' \in [Branches -> Nat]
    BY <2>3, EnteredTypes
  <2>5. call' \in [Branches ->
           [mode : Modes, tool : Tools \cup {NoReply}, arg : Payloads \cup Ids,
            reply : Reply \cup {NoReply}, ungrounded : BOOLEAN]]
    BY <1>0, <2>1, <2>2, <2>3, AnswerTypes
  <2> QED
    BY <1>1, <2>4, <2>5 DEF StubCall, TypeOK
<1>2. ASSUME NEW b \in Branches, NEW t \in Tools, NEW a, RealCall(b, t, a)
      PROVE  TypeOK'
  <2>1. a \in Payloads \cup Ids
    BY <1>2, CallKey DEF RealCall
  <2>2. Answer(b, t, a, "real", NoReply, FALSE) /\ Entered(b)
    BY <1>2 DEF RealCall
  <2>3. calls' \in [Branches -> Nat]
    BY <2>2, EnteredTypes
  <2>4. call' \in [Branches ->
           [mode : Modes, tool : Tools \cup {NoReply}, arg : Payloads \cup Ids,
            reply : Reply \cup {NoReply}, ungrounded : BOOLEAN]]
    BY <1>0, <2>1, <2>2, AnswerTypes
  <2>5. effects' \subseteq (Lanes \cup {NoLane}) \X Tools
    BY <1>2, BoundaryAssumption DEF RealCall, TypeOK
  <2> QED
    BY <1>2, <2>3, <2>4, <2>5 DEF RealCall, TypeOK
<1>3. ASSUME NEW b \in Branches, RealReturn(b)
      PROVE  TypeOK'
  <2> DEFINE k == <<call[b].tool, call[b].arg>>
             R(i) == [id |-> i, source |-> "real", arg |-> call[b].arg]
  <2>0. call[b].arg \in Payloads \cup Ids
    BY DEF TypeOK
  <2>1. PICK i \in Returned(call[b].tool, call[b].arg) :
          /\ call' = [call EXCEPT ![b].mode = "idle", ![b].reply = R(i)]
          /\ fixtures' = Captured(LaneOf[b], k, R(i))
          /\ answered' = IF LaneOf[b] \in Primaries
                         THEN [answered EXCEPT ![k] = @ \cup {R(i)}] ELSE answered
    BY <1>3 DEF RealReturn
  <2>2. i \in Ids
    BY <2>1 DEF Returned, Ids
  <2>3. R(i) \in Reply
    BY <1>0, <2>0, <2>2 DEF Reply
  <2>4. call' \in [Branches ->
           [mode : Modes, tool : Tools \cup {NoReply}, arg : Payloads \cup Ids,
            reply : Reply \cup {NoReply}, ungrounded : BOOLEAN]]
    <3> HIDE DEF R
    <3> QED
      BY <1>0, <2>1, <2>3, ReplyTypes
  <2>5. fixtures' \in [Calls -> Reply \cup {NoFixture}] /\ answered' \in [Calls -> SUBSET Reply]
    <3> HIDE DEF R, k
    <3> QED
      BY <2>1, <2>3 DEF Captured, TypeOK
  <2> QED
    BY <1>3, <2>4, <2>5 DEF RealReturn, TypeOK
<1>4. ASSUME NEW b \in Branches, RealRaises(b)
      PROVE  TypeOK'
  <2>1. [id |-> NoId, source |-> "raised", arg |-> call[b].arg] \in Reply
    BY <1>0 DEF TypeOK, Reply, Ids
  <2>2. call' \in [Branches ->
           [mode : Modes, tool : Tools \cup {NoReply}, arg : Payloads \cup Ids,
            reply : Reply \cup {NoReply}, ungrounded : BOOLEAN]]
    BY <1>0, <1>4, <2>1, ReplyTypes DEF RealRaises
  <2> QED
    BY <1>4, <2>2 DEF RealRaises, TypeOK
<1>5. ASSUME NEW b \in Branches, NEW t \in Tools, NEW a, VirtualCall(b, t, a)
      PROVE  TypeOK'
  <2> DEFINE l == LaneOf[b]
             r == Resolved(l, t, a)
             u == Ungrounded(l, t, a)
             sleeps == Sleeps(t, a) /\ ~(r.reply.source = "raised")
             m == IF sleeps THEN "sleep" ELSE "idle"
  <2>1. l \in Shadows /\ a \in Payloads \cup Ids /\ r.reply \in Reply /\ r.overlay \in Overlay
    BY <1>5, VirtualTypes
  <2>2. u \in BOOLEAN /\ m \in Modes
    BY <1>0 DEF Ungrounded
  <2>3. /\ Entered(b)
        /\ overlays' = [overlays EXCEPT ![l] = r.overlay]
        /\ made' = IF Specs[t].op = "write" /\ Specs[t].linked
                   THEN [made EXCEPT ![l] = @ \cup {r.reply}] ELSE made
        /\ Answer(b, t, a, m, r.reply, u)
        /\ Emits(l, u /\ ~sleeps)
        /\ UNCHANGED <<hints, running, fixtures, effects, answered>>
    BY <1>5 DEF VirtualCall
  <2>4. drift' \in [Shadows -> Nat]
    <3>1. drift' = drift \/ drift' = [drift EXCEPT ![l] = @ + 1]
      BY <2>3 DEF Emits
    <3> QED
      BY <2>1, <3>1 DEF TypeOK
  <2>5. call' \in [Branches ->
           [mode : Modes, tool : Tools \cup {NoReply}, arg : Payloads \cup Ids,
            reply : Reply \cup {NoReply}, ungrounded : BOOLEAN]]
    <3> DEFINE Typed(e) == e \in [mode : Modes, tool : Tools \cup {NoReply}, arg : Payloads \cup Ids,
                                  reply : Reply \cup {NoReply}, ungrounded : BOOLEAN]
               e0 == [mode |-> m, tool |-> t, arg |-> a, reply |-> r.reply, ungrounded |-> u]
    <3>1. call' = [call EXCEPT ![b] = e0]
      BY <2>3 DEF Answer
    <3>2. Typed(e0)
      <4> HIDE DEF u, m, r
      <4> QED
        BY <2>1, <2>2, Zenon
    <3> HIDE DEF e0
    <3> QED
      BY <3>1, <3>2 DEF TypeOK
  <2>6. calls' \in [Branches -> Nat]
    BY <2>3, EnteredTypes
  <2>7. overlays' \in [Shadows -> Overlay \cup {NoOverlay}] /\ made' \in [Shadows -> SUBSET Reply]
    BY <2>1, <2>3 DEF TypeOK
  <2> QED
    BY <2>3, <2>4, <2>5, <2>6, <2>7 DEF TypeOK
<1>6. ASSUME NEW b \in Branches, SleepEnds(b)
      PROVE  TypeOK'
  <2>1. [id |-> NoId, source |-> "cancelled", arg |-> call[b].arg] \in Reply
    BY <1>0 DEF TypeOK, Reply, Ids
  <2>2. drift' \in [Shadows -> Nat]
    BY <1>6 DEF SleepEnds, Emits, TypeOK
  <2>3. UNCHANGED <<hints, running, fixtures, overlays, calls, effects, answered, made>>
    BY <1>6 DEF SleepEnds
  <2>4. call' \in [Branches ->
          [mode : Modes, tool : Tools \cup {NoReply}, arg : Payloads \cup Ids,
           reply : Reply \cup {NoReply}, ungrounded : BOOLEAN]]
    <3>1. call \in [Branches ->
            [mode : Modes, tool : Tools \cup {NoReply}, arg : Payloads \cup Ids,
             reply : Reply \cup {NoReply}, ungrounded : BOOLEAN]] /\ "idle" \in Modes
      BY <1>0 DEF TypeOK, Modes
    <3> QED
      BY <1>6, <2>1, <3>1 DEF SleepEnds
  <2> QED
    BY <1>0, <2>2, <2>3, <2>4 DEF TypeOK
<1>7. ASSUME NEW l \in Lanes, LaneEnds(l)
      PROVE  TypeOK'
  BY <1>7 DEF LaneEnds, TypeOK
<1>8. CASE UNCHANGED vars
  BY <1>8 DEF vars, TypeOK
<1> QED
  BY <1>1, <1>2, <1>3, <1>4, <1>5, <1>6, <1>7, <1>8 DEF Next

\* What only some of the actions touch: real executions, fixtures, and the
\* records a shadow made with its overlay.
LEMMA StepFrame ==
  ASSUME [Next]_vars
  PROVE  /\ hints' = hints
         /\ effects' = effects \/ \E b \in Branches, t \in Tools : \E a : RealCall(b, t, a)
         /\ UNCHANGED <<fixtures, answered>> \/ \E b \in Branches : RealReturn(b)
         /\ \/ UNCHANGED <<running, overlays, made>>
            \/ \E b \in Branches, t \in Tools : \E a : VirtualCall(b, t, a)
            \/ \E l \in Lanes : LaneEnds(l)
<1>1. ASSUME NEW b \in Branches, NEW t \in Tools, NEW a, StubCall(b, t, a)
      PROVE  UNCHANGED <<hints, effects, fixtures, answered, running, overlays, made>>
  BY <1>1 DEF StubCall
<1>2. ASSUME NEW b \in Branches, NEW t \in Tools, NEW a, RealCall(b, t, a)
      PROVE  UNCHANGED <<hints, fixtures, answered, running, overlays, made>>
  BY <1>2 DEF RealCall
<1>3. ASSUME NEW b \in Branches, NEW t \in Tools, NEW a, VirtualCall(b, t, a)
      PROVE  UNCHANGED <<hints, effects, fixtures, answered>>
  BY <1>3 DEF VirtualCall
<1>4. ASSUME NEW b \in Branches, RealReturn(b)
      PROVE  UNCHANGED <<hints, effects, running, overlays, made>>
  BY <1>4 DEF RealReturn
<1>5. ASSUME NEW b \in Branches, RealRaises(b) \/ SleepEnds(b)
      PROVE  UNCHANGED <<hints, effects, fixtures, answered, running, overlays, made>>
  BY <1>5 DEF RealRaises, SleepEnds
<1>6. ASSUME NEW l \in Lanes, LaneEnds(l)
      PROVE  UNCHANGED <<hints, effects, fixtures, answered>>
  BY <1>6 DEF LaneEnds
<1>7. CASE UNCHANGED vars
  BY <1>7 DEF vars
<1> QED
  BY <1>1, <1>2, <1>3, <1>4, <1>5, <1>6, <1>7 DEF Next

LEMMA Typing == Spec => []TypeOK
BY InitTypeOK, StepTypeOK, PTL DEF Spec

\* Calls, answers, fixtures and overlays always have their types.
THEOREM TypeCorrect == Spec => []TypeOK
BY Typing, PTL

-----------------------------------------------------------------------------
(* Containment.                                                            *)

\* The decision is "real" for a primary, and for a shadow with leave only.
LEMMA DecideReal ==
  ASSUME NEW b \in Branches, NEW h \in Hints, Decide(LaneOf[b], h) = "real"
  PROVE  LaneOf[b] \in Primaries \/ (LaneOf[b] \in Shadows /\ Permitted(h))
<1>1. LaneOf[b] \in Primaries \cup Shadows
  BY BoundaryAssumption DEF Decide, Lanes
<1>2. ASSUME LaneOf[b] \notin Primaries
      PROVE  Permitted(h)
  <2>1. h.listed /\ Isolated[Classify(h)] = "real"
    BY <1>2 DEF Decide
  <2>2. Classify(h) \in {"passthrough", "virtual", "block"}
    BY DEF Classify, Hints
  <2>3. Classify(h) = "passthrough"
    BY <2>1, <2>2 DEF Isolated
  <2> QED
    BY <2>1, <2>3 DEF Classify, Permitted, AnnotatedSafe, Hints
<1> QED
  BY <1>1, <1>2

\* A tool runs for real in a primary, or in a shadow with the leave its
\* operator declared: never in a shadow without it and never outside a lane.
THEOREM ContainedHolds == Spec => []Contained
<1>1. Init => Contained
  BY DEF Init, Contained
<1>2. TypeOK /\ Contained /\ [Next]_vars => Contained'
  <2> SUFFICES ASSUME TypeOK, Contained, [Next]_vars
               PROVE  Contained'
    OBVIOUS
  <2>1. ASSUME NEW b \in Branches, NEW t \in Tools, NEW a, RealCall(b, t, a)
        PROVE  Contained'
    <3>1. LaneOf[b] \in Primaries \/ (LaneOf[b] \in Shadows /\ Permitted(hints[t]))
      BY <2>1, DecideReal DEF RealCall, TypeOK
    <3>2. effects' = effects \cup {<<LaneOf[b], t>>} /\ hints' = hints
      BY <2>1 DEF RealCall
    <3> QED
      BY <3>1, <3>2 DEF Contained
  <2>2. CASE UNCHANGED <<effects, hints>>
    BY <2>2 DEF Contained
  <2> QED
    BY <2>1, <2>2, StepFrame
<1> QED
  BY <1>1, <1>2, TypeCorrect, PTL DEF Spec

-----------------------------------------------------------------------------
(* Fixtures.                                                               *)

\* Fixtures hold real identifiers or none.
RealFixtures ==
  \A k \in Calls : fixtures[k] # NoFixture => fixtures[k].id \in RealIds \cup {NoId}

Grounded == FixturesGrounded /\ RealFixtures

\* Only a real call that returns in a primary makes a fixture, and it is the
\* answer the primary gets in the same step.
LEMMA StepGrounded == TypeOK /\ Grounded /\ [Next]_vars => Grounded'
<1> SUFFICES ASSUME TypeOK, Grounded, [Next]_vars
             PROVE  Grounded'
  OBVIOUS
<1>1. ASSUME NEW b \in Branches, RealReturn(b)
      PROVE  Grounded'
  <2> DEFINE k == <<call[b].tool, call[b].arg>>
             R(i) == [id |-> i, source |-> "real", arg |-> call[b].arg]
  <2>1. PICK i \in Returned(call[b].tool, call[b].arg) :
          /\ fixtures' = Captured(LaneOf[b], k, R(i))
          /\ answered' = IF LaneOf[b] \in Primaries
                         THEN [answered EXCEPT ![k] = @ \cup {R(i)}] ELSE answered
    BY <1>1 DEF RealReturn
  <2>2. CASE LaneOf[b] \notin Primaries
    BY <2>1, <2>2 DEF Captured, Captures, Grounded, FixturesGrounded, RealFixtures
  <2>3. CASE LaneOf[b] \in Primaries
    <3>1. i \in RealIds \cup {NoId}
      BY <2>1 DEF Returned
    <3>2. R(i).id \in RealIds \cup {NoId}
      BY <3>1
    <3>3. /\ fixtures' = [fixtures EXCEPT ![k] = R(i)]
          /\ answered' = [answered EXCEPT ![k] = @ \cup {R(i)}]
      BY <2>1, <2>3 DEF Captured, Captures
    <3> HIDE DEF R, k
    <3> QED
      BY <3>2, <3>3 DEF Grounded, FixturesGrounded, RealFixtures, TypeOK
  <2> QED
    BY <2>2, <2>3
<1>2. CASE UNCHANGED <<fixtures, answered>>
  BY <1>2 DEF Grounded, FixturesGrounded, RealFixtures
<1> QED
  BY <1>1, <1>2, StepFrame

\* In every state of a behaviour, fixtures are grounded and hold real ids.
LEMMA GroundedAlways == Spec => []Grounded
<1>1. Init => Grounded
  BY DEF Init, Grounded, FixturesGrounded, RealFixtures
<1> QED
  BY <1>1, Typing, StepGrounded, PTL DEF Spec

\* What shadows are served as a fixture some primary was answered.
THEOREM FixturesGroundedHolds == Spec => []FixturesGrounded
<1>1. Grounded => FixturesGrounded
  BY DEF Grounded
<1> QED
  BY <1>1, GroundedAlways, PTL

-----------------------------------------------------------------------------
(* What a lane wrote, it finds.                                            *)

\* A virtual call files a record for a creation, and leaves the overlay as it
\* was for everything else.
LEMMA VirtualEffect ==
  ASSUME TypeOK, NEW b \in Branches, NEW t \in Tools, NEW a, VirtualCall(b, t, a)
  PROVE  LET l == LaneOf[b]
             o == OverlayFor(l)
             p == Resolved(l, t, a).reply
         IN  /\ \A k \in Shadows : k # l => overlays'[k] = overlays[k] /\ made'[k] = made[k]
             /\ overlays'[l] \in Overlay /\ running' = running
             /\ \/ /\ Specs[t].op # "write" \/ ~Specs[t].linked
                   /\ overlays'[l] = o /\ made'[l] = made[l]
                \/ /\ Specs[t].op = "write" /\ Specs[t].linked
                   /\ p \in Reply /\ p.id # NoId
                   /\ made'[l] = made[l] \cup {p}
                   /\ overlays'[l].delta = [o.delta EXCEPT ![p.id] = p]
                   /\ \/ /\ overlays'[l].minted = o.minted
                         /\ \/ Lookup(t, a) # NoFixture /\ p.id = Lookup(t, a).id /\ p.source = "fixture"
                            \/ p.id = Specs[t].id
                      \/ /\ overlays'[l].minted = o.minted + 1
                         /\ p.id = <<l, o.minted + 1>> /\ p.id \in MintedIds
<1> DEFINE l == LaneOf[b]
           o == OverlayFor(l)
           r == Resolved(l, t, a)
           files == Specs[t].op = "write" /\ Specs[t].linked
<1>1. /\ l \in Shadows /\ a \in Payloads \cup Ids /\ <<t, a>> \in Calls
      /\ r.reply \in Reply /\ r.overlay \in Overlay
  BY VirtualTypes
<1>2. /\ overlays' = [overlays EXCEPT ![l] = r.overlay]
      /\ made' = IF files THEN [made EXCEPT ![l] = @ \cup {r.reply}] ELSE made
      /\ r.overlay.minted <= MaxMinted /\ running' = running
  BY DEF VirtualCall
<1>3. /\ \A k \in Shadows : k # l => overlays'[k] = overlays[k] /\ made'[k] = made[k]
      /\ overlays'[l] = r.overlay
      /\ made'[l] = IF files THEN made[l] \cup {r.reply} ELSE made[l]
  BY <1>1, <1>2 DEF TypeOK
<1>4. files => ~Looks(t, a) /\ ~Own(l, t, a)
  BY DEF Looks, Own
<1>5. CASE ~files
  <2>1. r.overlay = o
    <3>1. \A x : Filed(l, t, x).overlay = o
      BY <1>5 DEF Filed
    <3>2. CASE \E x : r = Filed(l, t, x)
      BY <3>1, <3>2
    <3>3. CASE \E x : r = [reply |-> x, overlay |-> o]
      BY <3>3
    <3> QED
      BY <3>2, <3>3, ResolvedForms
  <2> QED
    BY <1>1, <1>2, <1>3, <1>5, <2>1
<1>6. ASSUME files, NEW x \in Reply, r = Filed(l, t, x)
      PROVE  /\ r.reply.id # NoId /\ r.reply.source = x.source
             /\ overlays'[l].delta = [o.delta EXCEPT ![r.reply.id] = r.reply]
             /\ \/ r.reply.id = x.id /\ overlays'[l].minted = o.minted
                \/ /\ r.reply.id = <<l, o.minted + 1>> /\ r.reply.id \in MintedIds
                   /\ overlays'[l].minted = o.minted + 1
  <2> HIDE DEF l
  <2> QED
    BY <1>1, <1>2, <1>3, <1>6, FiledEffect
<1>7. CASE files /\ Lookup(t, a) = NoFixture
  <2>1. r = Filed(l, t, Invention(t, a)) /\ Invention(t, a) \in Reply
    BY <1>1, <1>4, <1>7, ResolvedForms, SourceTypes
  <2>2. Invention(t, a).id = Specs[t].id
    BY DEF Invention
  <2> QED
    BY <1>1, <1>2, <1>3, <1>6, <1>7, <2>1, <2>2
<1>8. CASE files /\ Lookup(t, a) # NoFixture
  <2> DEFINE x == [Lookup(t, a) EXCEPT !.source = "fixture"]
  <2>1. r = Filed(l, t, x) /\ x \in Reply /\ Lookup(t, a) \in Reply
    BY <1>1, <1>4, <1>8, ResolvedForms, SourceTypes
  <2>2. x.id = Lookup(t, a).id /\ x.source = "fixture"
    BY <2>1 DEF Reply
  <2> HIDE DEF x
  <2> QED
    BY <1>1, <1>2, <1>3, <1>6, <1>8, <2>1, <2>2
<1> QED
  BY <1>5, <1>7, <1>8

\* While a shadow runs, a record it was told of is filed under its identifier,
\* or one it was told of later is.
Kept ==
  \A l \in Shadows : \A r \in made[l] :
    /\ r.id # NoId
    /\ l \in running => OverlayFor(l).delta[r.id] \in made[l]

LEMMA StepKept == TypeOK /\ Kept /\ [Next]_vars => Kept'
<1> SUFFICES ASSUME TypeOK, Kept, [Next]_vars,
                    NEW l \in Shadows, NEW r \in made'[l]
             PROVE  /\ r.id # NoId
                    /\ l \in running' => OverlayFor(l)'.delta[r.id] \in made'[l]
  BY DEF Kept
<1>1. CASE UNCHANGED <<running, overlays, made>>
  BY <1>1 DEF Kept, OverlayFor
<1>2. ASSUME NEW k \in Lanes, LaneEnds(k)
      PROVE  r.id # NoId /\ (l \in running' => OverlayFor(l)'.delta[r.id] \in made'[l])
  <2>1. made' = made /\ running' = running \ {k}
        /\ overlays' = IF k \in Shadows THEN [overlays EXCEPT ![k] = NoOverlay] ELSE overlays
    BY <1>2 DEF LaneEnds
  <2>2. k # l => overlays'[l] = overlays[l]
    BY <2>1 DEF TypeOK
  <2> QED
    BY <2>1, <2>2 DEF Kept, OverlayFor
<1>3. ASSUME NEW b \in Branches, NEW t \in Tools, NEW a, VirtualCall(b, t, a)
      PROVE  r.id # NoId /\ (l \in running' => OverlayFor(l)'.delta[r.id] \in made'[l])
  <2>1. running' = running
    BY <1>3, VirtualEffect
  <2>2. CASE LaneOf[b] # l
    <3>1. overlays'[l] = overlays[l] /\ made'[l] = made[l]
      BY <1>3, <2>2, VirtualEffect
    <3> QED
      BY <2>1, <3>1 DEF Kept, OverlayFor
  <2>3. CASE LaneOf[b] = l
    <3> DEFINE o == OverlayFor(l)
    <3>1. OverlayFor(l)' = overlays'[l]
      BY <1>3, <2>3, VirtualEffect, NothingAssumption DEF OverlayFor
    <3>2. CASE overlays'[l] = o /\ made'[l] = made[l]
      BY <2>1, <3>1, <3>2 DEF Kept
    <3>3. ASSUME NEW p \in Reply, p.id # NoId, made'[l] = made[l] \cup {p},
                 overlays'[l].delta = [o.delta EXCEPT ![p.id] = p]
          PROVE  r.id # NoId /\ (l \in running' => OverlayFor(l)'.delta[r.id] \in made'[l])
      <4>1. o.delta \in [Ids -> Reply \cup {NoReply}]
        BY OverlayForType DEF Overlay
      <4>2. r \in Reply /\ r.id \in Ids
        BY <3>3 DEF TypeOK, Reply
      <4>3. overlays'[l].delta[r.id] = IF r.id = p.id THEN p ELSE o.delta[r.id]
        BY <3>3, <4>1, <4>2
      <4>4. CASE r.id = p.id
        BY <3>1, <3>3, <4>3, <4>4
      <4>5. CASE r.id # p.id
        BY <2>1, <3>1, <3>3, <4>3, <4>5 DEF Kept
      <4> QED
        BY <4>4, <4>5
    <3> QED
      BY <1>3, <2>3, <3>2, <3>3, VirtualEffect
  <2> QED
    BY <2>2, <2>3
<1> QED
  BY <1>1, <1>2, <1>3, StepFrame

\* In every state of a behaviour, running shadows hold what they were told of.
LEMMA KeptAlways == Spec => []Kept
<1>1. Init => Kept
  BY DEF Init, Kept
<1> QED
  BY <1>1, Typing, StepKept, PTL DEF Spec

\* A shadow that looks up an identifier it was given is answered one of its own
\* records, whatever primaries and its other branches do meanwhile.
THEOREM ReadYourWritesHolds == Spec => ReadYourWrites
<1> DEFINE Reads(b) ==
             LET l == LaneOf[b]
                 t == call'[b].tool
             IN  /\ calls'[b] # calls[b] /\ l \in Shadows
                 /\ Decide(l, hints[t]) = "virtual"
                 /\ Looks(t, call'[b].arg)
                 /\ \E r \in made[l] : r.id = call'[b].arg
                 => call'[b].reply \in made[l]
<1>1. TypeOK /\ Kept /\ [Next]_vars => [\A b \in Branches : Reads(b)]_vars
  <2> SUFFICES ASSUME TypeOK, Kept, Next, NEW b \in Branches,
                      calls'[b] # calls[b], LaneOf[b] \in Shadows,
                      Decide(LaneOf[b], hints[call'[b].tool]) = "virtual",
                      Looks(call'[b].tool, call'[b].arg),
                      NEW r \in made[LaneOf[b]], r.id = call'[b].arg
               PROVE  call'[b].reply \in made[LaneOf[b]]
    OBVIOUS
  <2>1. ASSUME NEW c \in Branches, NEW t \in Tools, NEW a, NEW m, NEW x, NEW u,
               Entered(c), Answer(c, t, a, m, x, u)
        PROVE  c = b /\ call'[b].tool = t /\ call'[b].arg = a /\ call'[b].reply = x
    BY <2>1 DEF Entered, Answer, TypeOK
  <2>2. ASSUME NEW c \in Branches, NEW t \in Tools, NEW a, StubCall(c, t, a)
        PROVE  FALSE
    <3>1. /\ Entered(c) /\ Answer(c, t, a, "idle", [id |-> NoId, source |-> "blocked", arg |-> a], FALSE)
          /\ Decide(LaneOf[c], hints[t]) = "stub"
      BY <2>2 DEF StubCall
    <3> QED
      BY <2>1, <3>1
  <2>3. ASSUME NEW c \in Branches, NEW t \in Tools, NEW a, RealCall(c, t, a)
        PROVE  FALSE
    <3>1. /\ Entered(c) /\ Answer(c, t, a, "real", NoReply, FALSE)
          /\ Decide(LaneOf[c], hints[t]) = "real"
      BY <2>3 DEF RealCall
    <3> QED
      BY <2>1, <3>1
  <2>4. ASSUME NEW c \in Branches, RealReturn(c) \/ RealRaises(c) \/ SleepEnds(c)
        PROVE  FALSE
    BY <2>4 DEF RealReturn, RealRaises, SleepEnds
  <2>5. ASSUME NEW c \in Branches, NEW t \in Tools, NEW a, VirtualCall(c, t, a)
        PROVE  call'[b].reply \in made[LaneOf[b]]
    <3> DEFINE l == LaneOf[b]
    <3>1. Entered(c) /\ \E m, u : Answer(c, t, a, m, Resolved(LaneOf[c], t, a).reply, u)
      BY <2>5 DEF VirtualCall
    <3>2. c = b /\ call'[b].tool = t /\ call'[b].arg = a
          /\ call'[b].reply = Resolved(l, t, a).reply
      BY <2>1, <3>1
    <3>3. l \in running
      BY <2>5, <3>2, BoundaryAssumption DEF VirtualCall, MayCall, Lanes
    <3>4. a # NoId /\ OverlayFor(l).delta[a] \in made[l] /\ Looks(t, a)
      BY <3>2, <3>3 DEF Kept, Looks
    <3>5. OverlayFor(l).delta[a] # NoReply
      BY <3>4, NothingAssumption DEF TypeOK
    <3>6. Own(l, t, a)
      BY <3>4, <3>5 DEF Own
    <3>7. Resolved(l, t, a) = [reply |-> OverlayFor(l).delta[a], overlay |-> OverlayFor(l)]
      BY <3>6 DEF Resolved
    <3> QED
      BY <3>2, <3>4, <3>7
  <2>6. ASSUME NEW k \in Lanes, LaneEnds(k)
        PROVE  FALSE
    BY <2>6 DEF LaneEnds
  <2> QED
    BY <2>2, <2>3, <2>4, <2>5, <2>6 DEF Next
<1> QED
  BY <1>1, Typing, KeptAlways, PTL DEF Spec, ReadYourWrites

-----------------------------------------------------------------------------
(* Invented records keep apart.                                            *)

\* No template carries an identifier, so that every invented record gets a
\* minted one.
TemplatesWithoutIds == \A t \in Tools : Specs[t].id = NoId

\* While a shadow runs, its invented records are filed under identifiers its
\* overlay minted, each still in its place.
Apart ==
  \A l \in Shadows \cap running : \A r \in made[l] :
    r.source \in Invented =>
      /\ r.id \in MintedIds
      /\ \E n \in 1..OverlayFor(l).minted : r.id = <<l, n>>
      /\ OverlayFor(l).delta[r.id] = r

\* A record is filed either under a real identifier, where no invented record
\* is, or under the next number of the overlay, above those in use.
LEMMA StepApart ==
  TemplatesWithoutIds /\ TypeOK /\ Grounded /\ Apart /\ [Next]_vars => Apart'
<1> DEFINE Here(l, r) == /\ r.id \in MintedIds
                         /\ \E n \in 1..OverlayFor(l).minted : r.id = <<l, n>>
                         /\ OverlayFor(l).delta[r.id] = r
<1> SUFFICES ASSUME TemplatesWithoutIds, TypeOK, Grounded, Apart, [Next]_vars,
                    NEW l \in Shadows, l \in running', NEW r \in made'[l], r.source \in Invented
             PROVE  Here(l, r)'
  BY DEF Apart
<1>1. CASE UNCHANGED <<running, overlays, made>>
  BY <1>1 DEF Apart, OverlayFor
<1>2. ASSUME NEW k \in Lanes, LaneEnds(k)
      PROVE  Here(l, r)'
  <2>1. made' = made /\ running' = running \ {k}
        /\ overlays' = IF k \in Shadows THEN [overlays EXCEPT ![k] = NoOverlay] ELSE overlays
    BY <1>2 DEF LaneEnds
  <2>2. l \in running /\ overlays'[l] = overlays[l]
    BY <2>1 DEF TypeOK
  <2> QED
    BY <2>1, <2>2 DEF Apart, OverlayFor
<1>3. ASSUME NEW b \in Branches, NEW t \in Tools, NEW a, VirtualCall(b, t, a)
      PROVE  Here(l, r)'
  <2>1. running' = running
    BY <1>3, VirtualEffect
  <2>2. CASE LaneOf[b] # l
    <3>1. overlays'[l] = overlays[l] /\ made'[l] = made[l]
      BY <1>3, <2>2, VirtualEffect
    <3> QED
      BY <2>1, <3>1 DEF Apart, OverlayFor
  <2>3. CASE LaneOf[b] = l
    <3> DEFINE o == OverlayFor(l)
    <3>1. OverlayFor(l)' = overlays'[l]
      BY <1>3, <2>3, VirtualEffect, NothingAssumption DEF OverlayFor
    <3>2. o.delta \in [Ids -> Reply \cup {NoReply}] /\ o.minted \in Nat
      BY OverlayForType DEF Overlay
    <3>3. CASE overlays'[l] = o /\ made'[l] = made[l]
      BY <2>1, <3>1, <3>3 DEF Apart
    <3>4. ASSUME NEW p \in Reply, p.id # NoId, made'[l] = made[l] \cup {p},
                 overlays'[l].delta = [o.delta EXCEPT ![p.id] = p],
                 \/ /\ overlays'[l].minted = o.minted
                    /\ \/ Lookup(t, a) # NoFixture /\ p.id = Lookup(t, a).id /\ p.source = "fixture"
                       \/ p.id = Specs[t].id
                 \/ /\ overlays'[l].minted = o.minted + 1
                    /\ p.id = <<l, o.minted + 1>> /\ p.id \in MintedIds
          PROVE  Here(l, r)'
      <4>1. p.id \in Ids /\ overlays'[l].delta[p.id] = p
        BY <3>2, <3>4 DEF Reply
      <4>2. CASE /\ overlays'[l].minted = o.minted + 1
                 /\ p.id = <<l, o.minted + 1>> /\ p.id \in MintedIds
        <5>1. CASE r = p
          BY <3>1, <3>2, <4>1, <4>2, <5>1
        <5>2. CASE r \in made[l]
          <6>1. Here(l, r)
            BY <2>1, <5>2 DEF Apart
          <6>2. PICK n \in 1..o.minted : r.id = <<l, n>>
            BY <6>1
          <6>3. n # o.minted + 1 /\ n \in 1..(o.minted + 1)
            BY <3>2
          <6>4. r.id # p.id
            BY <4>2, <6>2, <6>3
          <6>5. r.id \in Ids
            BY <6>1 DEF Ids
          <6>6. overlays'[l].delta[r.id] = r
            BY <3>2, <3>4, <6>1, <6>4, <6>5
          <6> QED
            BY <3>1, <4>2, <6>1, <6>2, <6>3, <6>6
        <5> QED
          BY <3>4, <5>1, <5>2
      <4>3. CASE /\ overlays'[l].minted = o.minted
                 /\ Lookup(t, a) # NoFixture /\ p.id = Lookup(t, a).id /\ p.source = "fixture"
        <5>1. <<t, a>> \in Calls
          BY <1>3, VirtualTypes
        <5>2. p.id \in RealIds
          BY <3>4, <4>3, <5>1 DEF Grounded, RealFixtures, Lookup
        <5>3. p.source \notin Invented
          BY <4>3 DEF Invented
        <5>4. r \in made[l] /\ Here(l, r)
          BY <2>1, <3>4, <5>3 DEF Apart
        <5>5. r.id # p.id
          BY <5>2, <5>4, BoundaryAssumption
        <5>6. overlays'[l].delta[r.id] = r
          BY <3>2, <3>4, <5>4, <5>5 DEF Ids
        <5> QED
          BY <3>1, <4>3, <5>4, <5>6
      <4>4. p.id # Specs[t].id
        BY <3>4 DEF TemplatesWithoutIds
      <4> QED
        BY <3>4, <4>2, <4>3, <4>4
    <3> DEFINE p == Resolved(l, t, a).reply
               Same(k) == overlays'[k] = OverlayFor(k) /\ made'[k] = made[k]
               Files(k, q) ==
                 /\ q \in Reply /\ q.id # NoId
                 /\ made'[k] = made[k] \cup {q}
                 /\ overlays'[k].delta = [OverlayFor(k).delta EXCEPT ![q.id] = q]
                 /\ \/ /\ overlays'[k].minted = OverlayFor(k).minted
                       /\ \/ Lookup(t, a) # NoFixture /\ q.id = Lookup(t, a).id /\ q.source = "fixture"
                          \/ q.id = Specs[t].id
                    \/ /\ overlays'[k].minted = OverlayFor(k).minted + 1
                       /\ q.id = <<k, OverlayFor(k).minted + 1>> /\ q.id \in MintedIds
    <3>5. Same(l) \/ Files(l, p)
      <4>1. Same(LaneOf[b]) \/ Files(LaneOf[b], Resolved(LaneOf[b], t, a).reply)
        BY <1>3, VirtualEffect
      <4> HIDE DEF Same, Files
      <4> QED
        BY <2>3, <4>1
    <3>6. CASE Files(l, p)
      <4> HIDE DEF Here, p
      <4> QED
        BY <3>4, <3>6
    <3> QED
      BY <3>3, <3>5, <3>6
  <2> QED
    BY <2>2, <2>3
<1> QED
  BY <1>1, <1>2, <1>3, StepFrame

\* If no template carries an identifier, every invented record of a running
\* shadow can be found under its own, however real and invented writes mix.
THEOREM InventedStayApartHolds == TemplatesWithoutIds => (Spec => []InventedStayApart)
<1> SUFFICES ASSUME TemplatesWithoutIds
             PROVE  Spec => []InventedStayApart
  OBVIOUS
<1>1. Init => Apart
  BY DEF Init, Apart
<1>2. TypeOK /\ Grounded /\ Apart /\ [Next]_vars => Apart'
  BY StepApart
<1>3. Apart => InventedStayApart
  BY DEF Apart, InventedStayApart
<1> QED
  BY <1>1, <1>2, <1>3, Typing, GroundedAlways, PTL DEF Spec

-----------------------------------------------------------------------------
(* Drift.                                                                  *)

\* Every tool that creates records is destructive, as linked writes should be.
WritesAreDestructive == \A t \in Tools : Specs[t].op = "write" => Specs[t].destructive

\* The identifiers under which a lane holds invented records.
InventedIn(l) ==
  {i \in Ids : OverlayFor(l).delta[i] # NoReply /\ OverlayFor(l).delta[i].source \in Invented}

\* A running shadow holds finitely many invented records, and has reported at
\* least as many.
Counted ==
  \A l \in Shadows \cap running :
    IsFiniteSet(InventedIn(l)) /\ Cardinality(InventedIn(l)) <= drift[l]

\* Reported drift never goes down.
LEMMA DriftGrows ==
  ASSUME TypeOK, [Next]_vars, NEW l \in Shadows
  PROVE  drift'[l] \in Nat /\ drift'[l] >= drift[l]
<1>1. ASSUME NEW k, NEW u, Emits(k, u)
      PROVE  drift'[l] \in Nat /\ drift'[l] >= drift[l]
  BY <1>1 DEF Emits, TypeOK
<1>2. CASE drift' = drift
  BY <1>2 DEF TypeOK
<1>3. ASSUME NEW b \in Branches, NEW t \in Tools, NEW a,
             StubCall(b, t, a) \/ RealCall(b, t, a) \/ VirtualCall(b, t, a)
      PROVE  drift'[l] \in Nat /\ drift'[l] >= drift[l]
  BY <1>1, <1>2, <1>3 DEF StubCall, RealCall, VirtualCall
<1>4. ASSUME NEW b \in Branches, RealReturn(b) \/ RealRaises(b) \/ SleepEnds(b)
      PROVE  drift'[l] \in Nat /\ drift'[l] >= drift[l]
  BY <1>1, <1>2, <1>4 DEF RealReturn, RealRaises, SleepEnds
<1>5. ASSUME NEW k \in Lanes, LaneEnds(k)
      PROVE  drift' = drift
  BY <1>5 DEF LaneEnds
<1>6. CASE UNCHANGED vars
  BY <1>2, <1>6 DEF vars
<1> QED
  BY <1>2, <1>3, <1>4, <1>5, <1>6 DEF Next

\* An invented creation is reported in the step that files it: it replays no
\* latency, because no primary was seen making the call.
LEMMA InventedReported ==
  ASSUME TypeOK, WritesAreDestructive,
         NEW b \in Branches, NEW t \in Tools, NEW a, VirtualCall(b, t, a),
         Specs[t].op = "write", Specs[t].linked,
         Resolved(LaneOf[b], t, a).reply.source \in Invented
  PROVE  drift'[LaneOf[b]] = drift[LaneOf[b]] + 1
<1> DEFINE l == LaneOf[b]
           r == Resolved(l, t, a)
<1>1. /\ l \in Shadows /\ a \in Payloads \cup Ids /\ <<t, a>> \in Calls
      /\ r.overlay.minted <= MaxMinted
  BY VirtualTypes DEF VirtualCall
<1>2. ~Looks(t, a) /\ ~Own(l, t, a)
  BY DEF Looks, Own
<1>3. Lookup(t, a) = NoFixture
  <2> SUFFICES ASSUME Lookup(t, a) # NoFixture
               PROVE  FALSE
    OBVIOUS
  <2> DEFINE x == [Lookup(t, a) EXCEPT !.source = "fixture"]
  <2>1. r = Filed(l, t, x) /\ x \in Reply /\ Lookup(t, a) \in Reply
    BY <1>1, <1>2, ResolvedForms, SourceTypes
  <2>2. x.source = "fixture"
    BY <2>1 DEF Reply
  <2>3. Filed(l, t, x).overlay.minted <= MaxMinted
    BY <1>1, <2>1
  <2>4. r.reply.source = Filed(l, t, x).reply.source
    BY <2>1
  <2> HIDE DEF x, l
  <2>5. l \in Shadows /\ x \in Reply
    BY <1>1, <2>1
  <2>6. Filed(l, t, x).reply.source = x.source
    BY <2>3, <2>5, FiledEffect
  <2> QED
    BY <2>2, <2>4, <2>6 DEF Invented, l
<1>4. Ungrounded(l, t, a) /\ ~Sleeps(t, a)
  BY <1>2, <1>3 DEF Ungrounded, Sleeps, WritesAreDestructive
<1>5. Emits(l, Ungrounded(l, t, a) /\ ~(Sleeps(t, a) /\ ~(r.reply.source = "raised")))
  BY DEF VirtualCall
<1>6. drift' = [drift EXCEPT ![l] = @ + 1]
  BY <1>4, <1>5 DEF Emits
<1> QED
  BY <1>1, <1>6 DEF TypeOK

\* Filing a record adds at most its identifier to the invented ones, and then
\* the drift grows too; ending a lane drops them.
LEMMA StepCounted ==
  WritesAreDestructive /\ TypeOK /\ Counted /\ [Next]_vars => Counted'
<1> SUFFICES ASSUME WritesAreDestructive, TypeOK, Counted, [Next]_vars,
                    NEW l \in Shadows, l \in running'
             PROVE  IsFiniteSet(InventedIn(l)') /\ Cardinality(InventedIn(l)') <= drift'[l]
  BY DEF Counted
<1>1. drift[l] \in Nat /\ drift'[l] \in Nat /\ drift'[l] >= drift[l]
  BY DriftGrows DEF TypeOK
<1>2. ASSUME l \in running, InventedIn(l)' \subseteq InventedIn(l)
      PROVE  IsFiniteSet(InventedIn(l)') /\ Cardinality(InventedIn(l)') <= drift'[l]
  <2>1. IsFiniteSet(InventedIn(l)) /\ Cardinality(InventedIn(l)) <= drift[l]
    BY <1>2 DEF Counted
  <2>2. IsFiniteSet(InventedIn(l)') /\ Cardinality(InventedIn(l)') <= Cardinality(InventedIn(l))
    BY <1>2, <2>1, FS_Subset
  <2>3. Cardinality(InventedIn(l)) \in Nat /\ Cardinality(InventedIn(l)') \in Nat
    BY <2>1, <2>2, FS_CardinalityType
  <2> QED
    BY <1>1, <2>1, <2>2, <2>3
<1>3. CASE UNCHANGED <<running, overlays, made>>
  BY <1>2, <1>3 DEF InventedIn, OverlayFor
<1>4. ASSUME NEW k \in Lanes, LaneEnds(k)
      PROVE  l \in running /\ InventedIn(l)' = InventedIn(l)
  <2>1. running' = running \ {k}
        /\ overlays' = IF k \in Shadows THEN [overlays EXCEPT ![k] = NoOverlay] ELSE overlays
    BY <1>4 DEF LaneEnds
  <2>2. l \in running /\ overlays'[l] = overlays[l]
    BY <2>1 DEF TypeOK
  <2> QED
    BY <2>2 DEF InventedIn, OverlayFor
<1>5. ASSUME NEW b \in Branches, NEW t \in Tools, NEW a, VirtualCall(b, t, a)
      PROVE  IsFiniteSet(InventedIn(l)') /\ Cardinality(InventedIn(l)') <= drift'[l]
  <2>1. l \in running
    BY <1>5, VirtualEffect
  <2>2. CASE LaneOf[b] # l
    <3>1. overlays'[l] = overlays[l]
      BY <1>5, <2>2, VirtualEffect
    <3> QED
      BY <1>2, <2>1, <3>1 DEF InventedIn, OverlayFor
  <2>3. CASE LaneOf[b] = l
    <3> DEFINE o == OverlayFor(l)
               p == Resolved(l, t, a).reply
    <3>1. OverlayFor(l)' = overlays'[l]
      BY <1>5, <2>3, VirtualEffect, NothingAssumption DEF OverlayFor
    <3>2. o.delta \in [Ids -> Reply \cup {NoReply}]
      BY OverlayForType DEF Overlay
    <3>3. CASE overlays'[l] = o
      BY <1>2, <2>1, <3>1, <3>3 DEF InventedIn
    <3>4. CASE overlays'[l] # o
      <4>1. p \in Reply /\ overlays'[l].delta = [o.delta EXCEPT ![p.id] = p]
        BY <1>5, <2>3, <3>4, VirtualEffect
      <4>2. Specs[t].op = "write" /\ Specs[t].linked
        BY <1>5, <2>3, <3>4, VirtualEffect
      <4>3. p.id \in Ids /\ overlays'[l].delta[p.id] = p
            /\ \A i \in Ids : i # p.id => overlays'[l].delta[i] = o.delta[i]
        BY <3>2, <4>1 DEF Reply
      <4> HIDE DEF p
      <4>4. InventedIn(l)' = {i \in Ids : overlays'[l].delta[i] # NoReply
                                           /\ overlays'[l].delta[i].source \in Invented}
        BY <3>1 DEF InventedIn
      <4>5. CASE p.source \notin Invented
        <5>1. InventedIn(l)' \subseteq InventedIn(l)
          BY <4>3, <4>4, <4>5 DEF InventedIn
        <5> QED
          BY <1>2, <2>1, <5>1
      <4>6. CASE p.source \in Invented
        <5>1. InventedIn(l)' \subseteq InventedIn(l) \cup {p.id}
          BY <4>3, <4>4 DEF InventedIn
        <5>2. drift'[l] = drift[l] + 1
          BY <1>5, <2>3, <4>2, <4>6, InventedReported DEF p
        <5>3. IsFiniteSet(InventedIn(l)) /\ Cardinality(InventedIn(l)) <= drift[l]
          BY <2>1 DEF Counted
        <5>4. /\ IsFiniteSet(InventedIn(l) \cup {p.id})
              /\ Cardinality(InventedIn(l)) \in Nat
              /\ Cardinality(InventedIn(l) \cup {p.id}) <= Cardinality(InventedIn(l)) + 1
          <6>1. Cardinality(InventedIn(l)) \in Nat
            BY <5>3, FS_CardinalityType
          <6>2. /\ IsFiniteSet(InventedIn(l) \cup {p.id})
                /\ Cardinality(InventedIn(l) \cup {p.id}) =
                     IF p.id \in InventedIn(l) THEN Cardinality(InventedIn(l))
                                              ELSE Cardinality(InventedIn(l)) + 1
            BY <5>3, FS_AddElement
          <6> QED
            BY <6>1, <6>2
        <5>5. /\ IsFiniteSet(InventedIn(l)')
              /\ Cardinality(InventedIn(l)') <= Cardinality(InventedIn(l) \cup {p.id})
          BY <5>1, <5>4, FS_Subset
        <5>6. Cardinality(InventedIn(l)') \in Nat /\ Cardinality(InventedIn(l) \cup {p.id}) \in Nat
          BY <5>4, <5>5, FS_CardinalityType
        <5> QED
          BY <1>1, <5>2, <5>3, <5>4, <5>5, <5>6
      <4> QED
        BY <4>5, <4>6
    <3> QED
      BY <3>3, <3>4
  <2> QED
    BY <2>2, <2>3
<1> QED
  BY <1>2, <1>3, <1>4, <1>5, StepFrame

\* If creations are destructive, a running shadow never holds more invented
\* records than it has reported, so that contamination is not declared late.
THEOREM DriftIsCountedHolds == Spec => []DriftIsCounted
<1>1. CASE WritesAreDestructive
  <2>1. Init => Counted
    <3> SUFFICES ASSUME Init, NEW l \in Shadows
                 PROVE  IsFiniteSet(InventedIn(l)) /\ Cardinality(InventedIn(l)) <= drift[l]
      BY DEF Counted
    <3>1. InventedIn(l) = {}
      BY DEF Init, InventedIn, OverlayFor, FreshOverlay
    <3> QED
      BY <3>1, FS_EmptySet DEF Init
  <2>2. TypeOK /\ Counted /\ [Next]_vars => Counted'
    BY <1>1, StepCounted
  <2>3. Counted => DriftIsCounted
    BY DEF Counted, DriftIsCounted, InventedIn
  <2> QED
    BY <2>1, <2>2, <2>3, TypeCorrect, PTL DEF Spec
<1>2. CASE ~WritesAreDestructive
  <2>1. DriftIsCounted
    BY <1>2 DEF DriftIsCounted, WritesAreDestructive
  <2> QED
    BY <2>1, PTL
<1> QED
  BY <1>1, <1>2

=============================================================================
