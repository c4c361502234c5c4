------------------------- MODULE UserChannelProofs -------------------------
(* Safety of UserChannel, for any sockets, any buffer size and any number  *)
(* of events.                                                              *)
EXTENDS UserChannel, TLAPS

\* A buffer is only ever cut from the front: what is left of a sequence has
\* its elements, in its order.
LEMMA SuffixLemma ==
    ASSUME NEW S, NEW q \in Seq(S), NEW m \in 1 .. Len(q) + 1
    PROVE  /\ SubSeq(q, m, Len(q)) \in Seq(S)
           /\ Len(SubSeq(q, m, Len(q))) = Len(q) - m + 1
           /\ Range(SubSeq(q, m, Len(q))) \subseteq Range(q)
           /\ NoDuplicates(q) => NoDuplicates(SubSeq(q, m, Len(q)))
<1> DEFINE t == SubSeq(q, m, Len(q))
<1>1. /\ t \in Seq(S)
      /\ Len(t) = Len(q) - m + 1
      /\ \A i \in 1 .. Len(t) : t[i] = q[i + m - 1] /\ i + m - 1 \in 1 .. Len(q)
  OBVIOUS
<1>2. DOMAIN t = 1 .. Len(t) /\ DOMAIN q = 1 .. Len(q)
  BY <1>1
<1>3. Range(t) \subseteq Range(q)
  BY <1>1, <1>2 DEF Range
<1>4. NoDuplicates(q) => NoDuplicates(t)
  <2> SUFFICES ASSUME NoDuplicates(q), NEW i \in 1 .. Len(t), NEW j \in 1 .. Len(t),
                      t[i] = t[j]
               PROVE  i = j
    BY <1>2 DEF NoDuplicates
  <2>1. i + m - 1 = j + m - 1
    BY <1>1, <1>2 DEF NoDuplicates
  <2> QED  BY <2>1, <1>1
<1> QED  BY <1>1, <1>3, <1>4

\* A new element at the end.
LEMMA AppendLemma ==
    ASSUME NEW S, NEW q \in Seq(S), NEW e \in S
    PROVE  /\ Append(q, e) \in Seq(S)
           /\ Len(Append(q, e)) = Len(q) + 1
           /\ Range(Append(q, e)) = Range(q) \cup {e}
           /\ NoDuplicates(q) /\ e \notin Range(q) => NoDuplicates(Append(q, e))
<1> DEFINE t == Append(q, e)
<1>1. /\ t \in Seq(S)
      /\ Len(t) = Len(q) + 1
      /\ \A i \in 1 .. Len(q) : t[i] = q[i]
      /\ t[Len(q) + 1] = e
  OBVIOUS
<1>2. DOMAIN t = 1 .. Len(q) + 1 /\ DOMAIN q = 1 .. Len(q)
  BY <1>1
<1>3. Range(t) = Range(q) \cup {e}
  <2>1. ASSUME NEW x \in Range(t) PROVE x \in Range(q) \cup {e}
    BY <1>1, <1>2 DEF Range
  <2>2. ASSUME NEW x \in Range(q) PROVE x \in Range(t)
    <3>1. PICK i \in 1 .. Len(q) : q[i] = x
      BY <1>2 DEF Range
    <3>2. i \in DOMAIN t /\ t[i] = x
      BY <3>1, <1>1, <1>2
    <3> QED  BY <3>2 DEF Range
  <2>3. e \in Range(t)
    <3>1. Len(q) + 1 \in DOMAIN t
      BY <1>2
    <3> QED  BY <3>1, <1>1 DEF Range
  <2> QED  BY <2>1, <2>2, <2>3
<1>4. NoDuplicates(q) /\ e \notin Range(q) => NoDuplicates(t)
  <2> SUFFICES ASSUME NoDuplicates(q), e \notin Range(q),
                      NEW i \in 1 .. Len(q) + 1, NEW j \in 1 .. Len(q) + 1, t[i] = t[j]
               PROVE  i = j
    BY <1>2 DEF NoDuplicates
  <2>1. \A k \in 1 .. Len(q) : q[k] # e
    BY <1>2 DEF Range
  <2> QED  BY <1>1, <1>2, <2>1 DEF NoDuplicates
<1> QED  BY <1>1, <1>3, <1>4

-----------------------------------------------------------------------------
\* Only the events sent so far are anywhere.
OnlySent ==
    /\ Range(buffer) \cup delivered \subseteq 1 .. sent
    /\ \A s \in Sessions : Pending(s) \subseteq 1 .. sent

\* A replay under way is a piece of a buffer, and is not finished.
ReplayBound ==
    \A s \in Sessions :
        /\ Len(replay[s]) <= BufferMax
        /\ pc[s] = "replaying" => replay[s] # <<>>

\* The inductive invariant.
ChannelInv ==
    /\ TypeOK
    /\ BufferBound
    /\ ReplayBound
    /\ OnlySent
    /\ NoEventTwice

\* What the TTL leaves of the buffer, and what the size limit leaves of that.
LEMMA KeptLemma ==
    ASSUME ChannelInv
    PROVE  /\ Valid \in Seq(Events) /\ Len(Valid) <= BufferMax
           /\ Range(Valid) \subseteq Range(buffer) /\ NoDuplicates(Valid)
           /\ Kept \in Seq(Events) /\ Len(Kept) < BufferMax
           /\ Range(Kept) \subseteq Range(buffer) /\ NoDuplicates(Kept)
<1>1. buffer \in Seq(Events) /\ aged \in 0 .. Len(buffer) /\ NoDuplicates(buffer)
      /\ Len(buffer) <= BufferMax
  BY DEF ChannelInv, TypeOK, BufferBound, NoEventTwice
<1>2. aged + 1 \in 1 .. Len(buffer) + 1
  BY <1>1
<1>3. /\ Valid \in Seq(Events) /\ Len(Valid) = Len(buffer) - aged
      /\ Range(Valid) \subseteq Range(buffer) /\ NoDuplicates(Valid)
  BY <1>1, <1>2, SuffixLemma DEF Valid
<1>4. CASE Len(Valid) >= BufferMax
  <2>1. Kept = SubSeq(Valid, Len(Valid) - (BufferMax - 1) + 1, Len(Valid))
    BY <1>4 DEF Kept, Last_n
  <2>2. Len(Valid) - (BufferMax - 1) + 1 \in 1 .. Len(Valid) + 1
    BY <1>3, <1>4, BufferMaxAssumption
  <2>3. /\ Kept \in Seq(Events)
        /\ Len(Kept) = Len(Valid) - (Len(Valid) - (BufferMax - 1) + 1) + 1
        /\ Range(Kept) \subseteq Range(Valid) /\ NoDuplicates(Kept)
    BY <2>1, <2>2, <1>3, SuffixLemma
  <2> QED  BY <2>3, <1>1, <1>3, BufferMaxAssumption
<1>5. CASE ~(Len(Valid) >= BufferMax)
  BY <1>1, <1>3, <1>5, BufferMaxAssumption DEF Kept
<1> QED  BY <1>1, <1>3, <1>4, <1>5

\* The replay loop's tail.
LEMMA TailLemma ==
    ASSUME NEW q \in Seq(Events), q # <<>>, NoDuplicates(q)
    PROVE  /\ Head(q) \in Range(q)
           /\ Tail(q) \in Seq(Events) /\ Len(Tail(q)) = Len(q) - 1
           /\ Range(Tail(q)) \subseteq Range(q) \ {Head(q)}
           /\ NoDuplicates(Tail(q))
           /\ Len(q) # 1 => Tail(q) # <<>>
<1>1. /\ Tail(q) \in Seq(Events) /\ Len(Tail(q)) = Len(q) - 1 /\ Head(q) = q[1]
      /\ \A i \in 1 .. Len(q) - 1 : Tail(q)[i] = q[i + 1]
      /\ DOMAIN q = 1 .. Len(q) /\ DOMAIN Tail(q) = 1 .. Len(q) - 1 /\ Len(q) >= 1
  OBVIOUS
<1>2. Head(q) \in Range(q)
  BY <1>1 DEF Range
<1>3. Range(Tail(q)) \subseteq Range(q) \ {Head(q)}
  <2> SUFFICES ASSUME NEW i \in 1 .. Len(q) - 1
               PROVE  Tail(q)[i] \in Range(q) /\ Tail(q)[i] # q[1]
    BY <1>1 DEF Range
  <2>1. i + 1 \in DOMAIN q /\ 1 \in DOMAIN q /\ Tail(q)[i] = q[i + 1] /\ i + 1 # 1
    BY <1>1
  <2>2. q[i + 1] # q[1]
    BY <2>1 DEF NoDuplicates
  <2> QED  BY <2>1, <2>2 DEF Range
<1>4. NoDuplicates(Tail(q))
  <2> SUFFICES ASSUME NEW i \in 1 .. Len(q) - 1, NEW j \in 1 .. Len(q) - 1,
                      Tail(q)[i] = Tail(q)[j]
               PROVE  i = j
    BY <1>1 DEF NoDuplicates
  <2>1. i + 1 = j + 1
    BY <1>1 DEF NoDuplicates
  <2> QED  BY <2>1
<1>5. Len(q) # 1 => Len(Tail(q)) # Len(<<>>)
  BY <1>1
<1> QED  BY <1>1, <1>2, <1>3, <1>4, <1>5

\* _buffer_event, of an event that waits nowhere else, keeps the buffer sound.
LEMMA BufferEventLemma ==
    ASSUME ChannelInv, NEW e \in Events, e \notin Range(buffer), BufferEvent(e)
    PROVE  /\ buffer' \in Seq(Events) /\ aged' \in 0 .. Len(buffer')
           /\ purged' \in SUBSET Events
           /\ Len(buffer') <= BufferMax
           /\ Range(buffer') \subseteq Range(buffer) \cup {e}
           /\ NoDuplicates(buffer')
<1>1. /\ Kept \in Seq(Events) /\ Len(Kept) < BufferMax
      /\ Range(Kept) \subseteq Range(buffer) /\ NoDuplicates(Kept)
  BY KeptLemma
<1>2. e \notin Range(Kept)
  BY <1>1
<1>3. /\ Append(Kept, e) \in Seq(Events) /\ Len(Append(Kept, e)) = Len(Kept) + 1
      /\ Range(Append(Kept, e)) = Range(Kept) \cup {e}
      /\ NoDuplicates(Append(Kept, e))
  BY <1>1, <1>2, AppendLemma
<1>4. Range(buffer) \subseteq Events
  BY DEF ChannelInv, TypeOK, Range
<1>5. purged' \in SUBSET Events
  BY <1>4 DEF ChannelInv, TypeOK, BufferEvent
<1>6. Len(Kept) \in Nat
  BY <1>1
<1> QED  BY <1>1, <1>3, <1>5, <1>6, BufferMaxAssumption DEF BufferEvent

-----------------------------------------------------------------------------
(* Every action preserves ChannelInv.                                      *)

\* The initial state: nothing was sent.
LEMMA ChannelInvInit == Init => ChannelInv
<1> SUFFICES ASSUME Init PROVE ChannelInv
  OBVIOUS
<1>1. TypeOK
  BY MaxEventsAssumption DEF Init, TypeOK
<1>2. Range(buffer) = {} /\ \A s \in Sessions : Range(replay[s]) = {} /\ sending[s] = {}
  BY DEF Init, Range
<1>3. BufferBound /\ ReplayBound
  BY BufferMaxAssumption DEF Init, BufferBound, ReplayBound
<1>4. OnlySent
  BY <1>2 DEF Init, OnlySent, Pending
<1>5. NoEventTwice
  BY <1>2 DEF Init, NoEventTwice, NoDuplicates, Pending
<1> QED  BY <1>1, <1>3, <1>4, <1>5 DEF ChannelInv

\* The steps that move no event: a socket connects, breaks or ends.
LEMMA SocketInv ==
    ASSUME ChannelInv, NEW s \in Sessions,
           Connect(s) \/ AcceptFails(s) \/ PeerDrops(s) \/ HandleDisconnect(s)
    PROVE  ChannelInv'
<1>1. UNCHANGED <<store, replay, sending, sent, delivered>>
  BY DEF Connect, AcceptFails, PeerDrops, HandleDisconnect
<1>2. TypeOK'
  BY <1>1 DEF ChannelInv, TypeOK, Connect, AcceptFails, PeerDrops, HandleDisconnect, store
<1>3. \A o \in Sessions : pc'[o] = "replaying" => pc[o] = "replaying"
  BY DEF ChannelInv, TypeOK, Connect, AcceptFails, PeerDrops, HandleDisconnect
<1>4. BufferBound' /\ ReplayBound' /\ OnlySent' /\ NoEventTwice'
  BY <1>1, <1>3 DEF ChannelInv, BufferBound, ReplayBound, OnlySent, NoEventTwice, Pending, store
<1> QED  BY <1>2, <1>4 DEF ChannelInv

\* The clock moves no event either.
LEMMA AgeInv ==
    ASSUME ChannelInv, Age
    PROVE  ChannelInv'
<1>1. UNCHANGED <<sockets, buffer, purged, replay, sending, sent, delivered>>
  BY DEF Age
<1>2. TypeOK'
  BY <1>1 DEF ChannelInv, TypeOK, Age, sockets
<1>3. BufferBound' /\ ReplayBound' /\ OnlySent' /\ NoEventTwice'
  BY <1>1 DEF ChannelInv, BufferBound, ReplayBound, OnlySent, NoEventTwice, Pending, sockets
<1> QED  BY <1>2, <1>3 DEF ChannelInv

\* The replay takes the buffer over.
LEMMA AcceptedInv ==
    ASSUME ChannelInv, NEW s \in Sessions, Accepted(s)
    PROVE  ChannelInv'
<1>1. /\ Valid \in Seq(Events) /\ Len(Valid) <= BufferMax
      /\ Range(Valid) \subseteq Range(buffer) /\ NoDuplicates(Valid)
  BY KeptLemma
<1>2. /\ replay' = [replay EXCEPT ![s] = Valid]
      /\ buffer' = <<>> /\ aged' = 0 /\ Range(buffer') = {}
      /\ UNCHANGED <<peer, sending, sent, delivered>>
  BY DEF Accepted, Range
<1>3. Range(buffer) \subseteq Events
  BY DEF ChannelInv, TypeOK, Range
<1>4. TypeOK'
  <2>1. replay' \in [Sessions -> Seq(Events)]
    BY <1>1, <1>2 DEF ChannelInv, TypeOK
  <2>2. purged' \in SUBSET Events
    BY <1>3 DEF ChannelInv, TypeOK, Accepted
  <2>3. pc' \in [Sessions -> {"idle", "accepting", "replaying", "serving", "ended"}]
    BY DEF ChannelInv, TypeOK, Accepted
  <2> QED  BY <1>2, <2>1, <2>2, <2>3 DEF ChannelInv, TypeOK, Accepted
<1>5. replay'[s] = Valid /\ \A o \in Sessions \ {s} : replay'[o] = replay[o]
  BY <1>2 DEF ChannelInv, TypeOK
<1>6. BufferBound'
  BY <1>2, BufferMaxAssumption DEF BufferBound
<1>7. ReplayBound'
  <2>1. pc'[s] = "replaying" => Valid # <<>>
    BY DEF Accepted, ChannelInv, TypeOK
  <2>2. \A o \in Sessions \ {s} : pc'[o] = pc[o]
    BY DEF Accepted, ChannelInv, TypeOK
  <2> QED  BY <1>1, <1>5, <2>1, <2>2 DEF ChannelInv, ReplayBound
<1>8. OnlySent'
  BY <1>1, <1>2, <1>5 DEF ChannelInv, OnlySent, Pending
<1>9. NoEventTwice'
  <2>1. NoDuplicates(buffer')
    BY <1>2 DEF NoDuplicates
  <2>2. \A o \in Sessions : NoDuplicates(replay'[o]) /\ Range(replay'[o]) \cap sending'[o] = {}
    BY <1>1, <1>2, <1>5 DEF ChannelInv, NoEventTwice, Pending
  <2>3. \A o \in Sessions : Pending(o)' \cap (delivered' \cup Range(buffer')) = {}
    BY <1>1, <1>2, <1>5 DEF ChannelInv, NoEventTwice, Pending
  <2>4. \A o, p \in Sessions : o # p => Pending(o)' \cap Pending(p)' = {}
    <3>1. \A o, p \in Sessions : o # p => Pending(o) \cap Pending(p) = {}
      BY DEF ChannelInv, NoEventTwice
    <3>2. \A o \in Sessions : Pending(o) \cap Range(buffer) = {}
      BY DEF ChannelInv, NoEventTwice
    <3>3. Pending(s)' \subseteq Pending(s) \cup Range(buffer)
      BY <1>1, <1>2, <1>5 DEF Pending
    <3>4. \A o \in Sessions \ {s} : Pending(o)' = Pending(o)
      BY <1>2, <1>5 DEF Pending
    <3> QED  BY <3>1, <3>2, <3>3, <3>4
  <2> QED  BY <1>2, <2>1, <2>2, <2>3, <2>4 DEF NoEventTwice
<1> QED  BY <1>4, <1>6, <1>7, <1>8, <1>9 DEF ChannelInv

\* A replayed event is received: it leaves the replay.
LEMMA ReplayOneInv ==
    ASSUME ChannelInv, NEW s \in Sessions, ReplayOne(s)
    PROVE  ChannelInv'
<1> DEFINE e == Head(replay[s])
<1>1. /\ replay[s] \in Seq(Events) /\ replay[s] # <<>> /\ NoDuplicates(replay[s])
      /\ Len(replay[s]) <= BufferMax
  BY DEF ReplayOne, ChannelInv, TypeOK, ReplayBound, NoEventTwice
<1>2. /\ e \in Range(replay[s])
      /\ Tail(replay[s]) \in Seq(Events) /\ Len(Tail(replay[s])) = Len(replay[s]) - 1
      /\ Range(Tail(replay[s])) \subseteq Range(replay[s]) \ {e}
      /\ NoDuplicates(Tail(replay[s]))
      /\ Len(replay[s]) # 1 => Tail(replay[s]) # <<>>
  BY <1>1, TailLemma
<1>3. /\ replay' = [replay EXCEPT ![s] = Tail(replay[s])]
      /\ delivered' = delivered \cup {e}
      /\ UNCHANGED <<user_connections, peer, buffer, aged, purged, sending, sent>>
  BY DEF ReplayOne, ChannelInv, TypeOK, store
<1>4. replay'[s] = Tail(replay[s]) /\ \A o \in Sessions \ {s} : replay'[o] = replay[o]
  BY <1>3 DEF ChannelInv, TypeOK
<1>5. e \in Events
  BY <1>1, <1>2 DEF Range
<1>6. TypeOK'
  <2>1. replay' \in [Sessions -> Seq(Events)]
    BY <1>2, <1>3 DEF ChannelInv, TypeOK
  <2>2. pc' \in [Sessions -> {"idle", "accepting", "replaying", "serving", "ended"}]
    BY DEF ChannelInv, TypeOK, ReplayOne
  <2> QED  BY <1>3, <1>5, <2>1, <2>2 DEF ChannelInv, TypeOK
<1>7. BufferBound'
  BY <1>3 DEF ChannelInv, BufferBound
<1>8. ReplayBound'
  <2>1. pc'[s] = "replaying" => Tail(replay[s]) # <<>>
    BY <1>2 DEF ReplayOne, ChannelInv, TypeOK
  <2>2. \A o \in Sessions \ {s} : pc'[o] = pc[o]
    BY DEF ReplayOne, ChannelInv, TypeOK
  <2>3. Len(Tail(replay[s])) <= BufferMax
    BY <1>1, <1>2, BufferMaxAssumption
  <2> QED  BY <1>4, <2>1, <2>2, <2>3 DEF ChannelInv, ReplayBound
<1>9. OnlySent'
  BY <1>2, <1>3, <1>4 DEF ChannelInv, OnlySent, Pending
<1>10. NoEventTwice'
  <2>1. Pending(s)' \subseteq Pending(s) \ {e} /\ e \in Pending(s)
    BY <1>2, <1>3, <1>4 DEF Pending, ChannelInv, NoEventTwice
  <2>2. \A o \in Sessions \ {s} : Pending(o)' = Pending(o)
    BY <1>3, <1>4 DEF Pending
  <2>3. \A o \in Sessions : NoDuplicates(replay'[o]) /\ Range(replay'[o]) \cap sending'[o] = {}
    BY <1>2, <1>3, <1>4 DEF ChannelInv, NoEventTwice
  <2>4. /\ \A o \in Sessions : Pending(o) \cap (delivered \cup Range(buffer)) = {}
        /\ \A o, p \in Sessions : o # p => Pending(o) \cap Pending(p) = {}
        /\ Range(buffer) \cap delivered = {} /\ NoDuplicates(buffer)
    BY DEF ChannelInv, NoEventTwice
  <2>5. \A o \in Sessions : Pending(o)' \cap (delivered' \cup Range(buffer)) = {}
    BY <1>3, <2>1, <2>2, <2>4
  <2>6. \A o, p \in Sessions : o # p => Pending(o)' \cap Pending(p)' = {}
    BY <2>1, <2>2, <2>4
  <2>7. Range(buffer) \cap delivered' = {}
    BY <1>3, <2>1, <2>4
  <2> QED  BY <1>3, <2>3, <2>4, <2>5, <2>6, <2>7 DEF NoEventTwice
<1> QED  BY <1>6, <1>7, <1>8, <1>9, <1>10 DEF ChannelInv

\* A replay that breaks puts back what it had left.
LEMMA ReplayFailsInv ==
    ASSUME ChannelInv, NEW s \in Sessions, ReplayFails(s)
    PROVE  ChannelInv'
<1>1. /\ replay[s] \in Seq(Events) /\ NoDuplicates(replay[s]) /\ Len(replay[s]) <= BufferMax
  BY DEF ChannelInv, TypeOK, ReplayBound, NoEventTwice
<1>2. /\ buffer' = replay[s] /\ aged' = 0
      /\ replay' = [replay EXCEPT ![s] = <<>>]
      /\ UNCHANGED <<user_connections, peer, purged, sending, sent, delivered>>
  BY DEF ReplayFails
<1>3. replay'[s] = <<>> /\ \A o \in Sessions \ {s} : replay'[o] = replay[o]
  BY <1>2 DEF ChannelInv, TypeOK
<1>4. TypeOK'
  <2>1. pc' \in [Sessions -> {"idle", "accepting", "replaying", "serving", "ended"}]
    BY DEF ChannelInv, TypeOK, ReplayFails
  <2>2. replay' \in [Sessions -> Seq(Events)] /\ buffer' \in Seq(Events) /\ aged' \in 0 .. Len(buffer')
    BY <1>1, <1>2 DEF ChannelInv, TypeOK
  <2> QED  BY <1>2, <2>1, <2>2 DEF ChannelInv, TypeOK
<1>5. BufferBound'
  BY <1>1, <1>2 DEF BufferBound
<1>6. ReplayBound'
  <2>1. pc'[s] # "replaying" /\ \A o \in Sessions \ {s} : pc'[o] = pc[o]
    BY DEF ReplayFails, ChannelInv, TypeOK
  <2>2. Len(<<>>) <= BufferMax
    BY BufferMaxAssumption
  <2> QED  BY <1>3, <2>1, <2>2 DEF ChannelInv, ReplayBound
<1>7. Range(replay'[s]) = {} /\ Range(buffer') \subseteq Pending(s)
  BY <1>2, <1>3 DEF Range, Pending
<1>8. OnlySent'
  BY <1>2, <1>3, <1>7 DEF ChannelInv, OnlySent, Pending
<1>9. NoEventTwice'
  <2>1. Pending(s)' \subseteq Pending(s) \ Range(buffer')
    BY <1>2, <1>3, <1>7 DEF Pending, ChannelInv, NoEventTwice
  <2>2. \A o \in Sessions \ {s} : Pending(o)' = Pending(o)
    BY <1>2, <1>3 DEF Pending
  <2>3. \A o \in Sessions : NoDuplicates(replay'[o]) /\ Range(replay'[o]) \cap sending'[o] = {}
    BY <1>2, <1>3, <1>7 DEF ChannelInv, NoEventTwice, NoDuplicates
  <2>4. /\ \A o \in Sessions : Pending(o) \cap delivered = {}
        /\ \A o, p \in Sessions : o # p => Pending(o) \cap Pending(p) = {}
    BY DEF ChannelInv, NoEventTwice
  <2>5. \A o \in Sessions : Pending(o)' \cap (delivered' \cup Range(buffer')) = {}
    BY <1>2, <1>7, <2>1, <2>2, <2>4
  <2>6. \A o, p \in Sessions : o # p => Pending(o)' \cap Pending(p)' = {}
    BY <2>1, <2>2, <2>4
  <2>7. NoDuplicates(buffer') /\ Range(buffer') \cap delivered' = {}
    BY <1>1, <1>2, <1>7, <2>4
  <2> QED  BY <2>3, <2>5, <2>6, <2>7 DEF NoEventTwice
<1> QED  BY <1>4, <1>5, <1>6, <1>8, <1>9 DEF ChannelInv

\* A new event is nowhere yet.
LEMMA NewEventLemma ==
    ASSUME ChannelInv, sent < MaxEvents
    PROVE  /\ sent + 1 \in Events /\ sent + 1 \in 0 .. MaxEvents
           /\ sent + 1 \notin Range(buffer) \cup delivered
           /\ \A s \in Sessions : sent + 1 \notin Pending(s)
           /\ 1 .. sent \subseteq 1 .. sent + 1 /\ sent + 1 \in 1 .. sent + 1
<1>1. sent \in Nat
  BY MaxEventsAssumption DEF ChannelInv, TypeOK
<1>2. sent + 1 \notin 1 .. sent
  BY <1>1
<1>3. /\ sent + 1 \in Events /\ sent + 1 \in 0 .. MaxEvents
      /\ 1 .. sent \subseteq 1 .. sent + 1 /\ sent + 1 \in 1 .. sent + 1
  BY <1>1, MaxEventsAssumption DEF Events
<1> QED  BY <1>2, <1>3 DEF ChannelInv, OnlySent

\* Nobody is connected: the event is buffered.
LEMMA SendBuffersInv ==
    ASSUME ChannelInv, SendBuffers
    PROVE  ChannelInv'
<1> DEFINE e == sent + 1
<1>1. /\ e \in Events /\ e \in 0 .. MaxEvents
      /\ e \notin Range(buffer) \cup delivered
      /\ \A s \in Sessions : e \notin Pending(s)
      /\ 1 .. sent \subseteq 1 .. e /\ e \in 1 .. e
  BY NewEventLemma DEF SendBuffers
<1>2. /\ sent' = e /\ BufferEvent(e)
      /\ UNCHANGED <<user_connections, pc, peer, replay, sending, delivered>>
  BY DEF SendBuffers, sockets
<1>3. /\ buffer' \in Seq(Events) /\ aged' \in 0 .. Len(buffer')
      /\ purged' \in SUBSET Events /\ Len(buffer') <= BufferMax
      /\ Range(buffer') \subseteq Range(buffer) \cup {e} /\ NoDuplicates(buffer')
  BY <1>1, <1>2, BufferEventLemma
<1>4. TypeOK'
  BY <1>1, <1>2, <1>3 DEF ChannelInv, TypeOK
<1>5. BufferBound' /\ ReplayBound'
  BY <1>2, <1>3 DEF ChannelInv, BufferBound, ReplayBound
<1>6. \A s \in Sessions : Pending(s)' = Pending(s)
  BY <1>2 DEF Pending
<1>7. OnlySent'
  BY <1>1, <1>2, <1>3, <1>6 DEF ChannelInv, OnlySent
<1>8. NoEventTwice'
  BY <1>1, <1>2, <1>3, <1>6 DEF ChannelInv, NoEventTwice
<1> QED  BY <1>4, <1>5, <1>7, <1>8 DEF ChannelInv

\* Somebody is: the event is under way on that socket.
LEMMA SendStartsInv ==
    ASSUME ChannelInv, NEW s \in Sessions, SendStarts(s)
    PROVE  ChannelInv'
<1> DEFINE e == sent + 1
<1>1. /\ e \in Events /\ e \in 0 .. MaxEvents
      /\ e \notin Range(buffer) \cup delivered
      /\ \A o \in Sessions : e \notin Pending(o)
      /\ 1 .. sent \subseteq 1 .. e /\ e \in 1 .. e
  BY NewEventLemma DEF SendStarts
<1>2. /\ sent' = e /\ sending' = [sending EXCEPT ![s] = sending[s] \cup {e}]
      /\ UNCHANGED <<user_connections, pc, peer, buffer, aged, purged, replay, delivered>>
  BY DEF SendStarts, sockets, store, ChannelInv, TypeOK
<1>3. sending'[s] = sending[s] \cup {e} /\ \A o \in Sessions \ {s} : sending'[o] = sending[o]
  BY <1>2 DEF ChannelInv, TypeOK
<1>4. TypeOK'
  BY <1>1, <1>2 DEF ChannelInv, TypeOK
<1>5. BufferBound' /\ ReplayBound'
  BY <1>2 DEF ChannelInv, BufferBound, ReplayBound
<1>6. Pending(s)' = Pending(s) \cup {e} /\ \A o \in Sessions \ {s} : Pending(o)' = Pending(o)
  BY <1>2, <1>3 DEF Pending
<1>7. OnlySent'
  BY <1>1, <1>2, <1>6 DEF ChannelInv, OnlySent
<1>8. NoEventTwice'
  <2>1. \A o \in Sessions : Range(replay[o]) \subseteq Pending(o)
    BY DEF Pending
  <2>2. \A o \in Sessions : Range(replay'[o]) \cap sending'[o] = {}
    BY <1>1, <1>2, <1>3, <2>1 DEF ChannelInv, NoEventTwice
  <2> QED  BY <1>1, <1>2, <1>6, <2>2 DEF ChannelInv, NoEventTwice
<1> QED  BY <1>4, <1>5, <1>7, <1>8 DEF ChannelInv

\* The send returns: the event is received.
LEMMA SendCompletesInv ==
    ASSUME ChannelInv, NEW s \in Sessions, NEW e \in Events, SendCompletes(s, e)
    PROVE  ChannelInv'
<1>1. /\ e \in sending[s] /\ sending' = [sending EXCEPT ![s] = sending[s] \ {e}]
      /\ delivered' = delivered \cup {e}
      /\ UNCHANGED <<user_connections, pc, peer, buffer, aged, purged, replay, sent>>
  BY DEF SendCompletes, sockets, store, ChannelInv, TypeOK
<1>2. sending'[s] = sending[s] \ {e} /\ \A o \in Sessions \ {s} : sending'[o] = sending[o]
  BY <1>1 DEF ChannelInv, TypeOK
<1>3. TypeOK'
  BY <1>1 DEF ChannelInv, TypeOK
<1>4. BufferBound' /\ ReplayBound'
  BY <1>1 DEF ChannelInv, BufferBound, ReplayBound
<1>5. e \in Pending(s) /\ Pending(s)' = Pending(s) \ {e}
  BY <1>1, <1>2 DEF Pending, ChannelInv, NoEventTwice
<1>6. \A o \in Sessions \ {s} : Pending(o)' = Pending(o)
  BY <1>1, <1>2 DEF Pending
<1>7. OnlySent'
  BY <1>1, <1>5, <1>6 DEF ChannelInv, OnlySent
<1>8. NoEventTwice'
  <2>1. /\ \A o \in Sessions : Pending(o) \cap (delivered \cup Range(buffer)) = {}
        /\ \A o, p \in Sessions : o # p => Pending(o) \cap Pending(p) = {}
        /\ Range(buffer) \cap delivered = {} /\ NoDuplicates(buffer)
    BY DEF ChannelInv, NoEventTwice
  <2>2. \A o \in Sessions : NoDuplicates(replay'[o]) /\ Range(replay'[o]) \cap sending'[o] = {}
    BY <1>1, <1>2 DEF ChannelInv, NoEventTwice
  <2>3. \A o \in Sessions : Pending(o)' \cap (delivered' \cup Range(buffer)) = {}
    BY <1>1, <1>5, <1>6, <2>1
  <2>4. \A o, p \in Sessions : o # p => Pending(o)' \cap Pending(p)' = {}
    BY <1>5, <1>6, <2>1
  <2>5. Range(buffer) \cap delivered' = {}
    BY <1>1, <1>5, <2>1
  <2> QED  BY <1>1, <2>1, <2>2, <2>3, <2>4, <2>5 DEF NoEventTwice
<1> QED  BY <1>3, <1>4, <1>7, <1>8 DEF ChannelInv

\* The send raises: the event is buffered.
LEMMA SendFailsInv ==
    ASSUME ChannelInv, NEW s \in Sessions, NEW e \in Events, SendFails(s, e)
    PROVE  ChannelInv'
<1>1. /\ e \in sending[s] /\ sending' = [sending EXCEPT ![s] = sending[s] \ {e}]
      /\ BufferEvent(e) /\ user_connections' = NoWs
      /\ UNCHANGED <<pc, peer, replay, sent, delivered>>
  BY DEF SendFails, ChannelInv, TypeOK
<1>2. sending'[s] = sending[s] \ {e} /\ \A o \in Sessions \ {s} : sending'[o] = sending[o]
  BY <1>1 DEF ChannelInv, TypeOK
<1>3. e \in Pending(s) /\ Pending(s)' = Pending(s) \ {e}
  BY <1>1, <1>2 DEF Pending, ChannelInv, NoEventTwice
<1>4. \A o \in Sessions \ {s} : Pending(o)' = Pending(o)
  BY <1>1, <1>2 DEF Pending
<1>5. /\ \A o \in Sessions : Pending(o) \cap (delivered \cup Range(buffer)) = {}
      /\ \A o, p \in Sessions : o # p => Pending(o) \cap Pending(p) = {}
      /\ Range(buffer) \cap delivered = {}
  BY DEF ChannelInv, NoEventTwice
<1>6. /\ buffer' \in Seq(Events) /\ aged' \in 0 .. Len(buffer')
      /\ purged' \in SUBSET Events /\ Len(buffer') <= BufferMax
      /\ Range(buffer') \subseteq Range(buffer) \cup {e} /\ NoDuplicates(buffer')
  BY <1>1, <1>3, <1>5, BufferEventLemma
<1>7. TypeOK'
  BY <1>1, <1>6 DEF ChannelInv, TypeOK
<1>8. BufferBound' /\ ReplayBound'
  BY <1>1, <1>6 DEF ChannelInv, BufferBound, ReplayBound
<1>9. OnlySent'
  BY <1>1, <1>3, <1>4, <1>6 DEF ChannelInv, OnlySent
<1>10. NoEventTwice'
  <2>1. \A o \in Sessions : NoDuplicates(replay'[o]) /\ Range(replay'[o]) \cap sending'[o] = {}
    BY <1>1, <1>2 DEF ChannelInv, NoEventTwice
  <2>2. \A o \in Sessions : Pending(o)' \cap (delivered \cup Range(buffer')) = {}
    BY <1>3, <1>4, <1>5, <1>6
  <2>3. \A o, p \in Sessions : o # p => Pending(o)' \cap Pending(p)' = {}
    BY <1>3, <1>4, <1>5
  <2>4. Range(buffer') \cap delivered = {}
    BY <1>3, <1>5, <1>6
  <2> QED  BY <1>1, <1>6, <2>1, <2>2, <2>3, <2>4 DEF NoEventTwice
<1> QED  BY <1>7, <1>8, <1>9, <1>10 DEF ChannelInv

-----------------------------------------------------------------------------
\* Every step preserves the inductive invariant.
LEMMA ChannelInvNext == ChannelInv /\ [Next]_vars => ChannelInv'
<1> SUFFICES ASSUME ChannelInv, [Next]_vars PROVE ChannelInv'
  OBVIOUS
<1>1. ASSUME NEW s \in Sessions, Session(s) PROVE ChannelInv'
  BY <1>1, SocketInv, AcceptedInv, ReplayOneInv, ReplayFailsInv, SendStartsInv,
     SendCompletesInv, SendFailsInv DEF Session
<1>2. CASE SendBuffers
  BY <1>2, SendBuffersInv
<1>3. CASE Age
  BY <1>3, AgeInv
<1>4. CASE UNCHANGED vars
  BY <1>4 DEF ChannelInv, TypeOK, BufferBound, ReplayBound, OnlySent, NoEventTwice, Pending,
              vars, sockets, store
<1> QED  BY <1>1, <1>2, <1>3, <1>4 DEF Next

\* ChannelInv holds in every reachable state.
THEOREM ChannelInvariant == Spec => []ChannelInv
<1> QED  BY ChannelInvInit, ChannelInvNext, PTL DEF Spec

\* Type correctness: every variable of the channel keeps its range.
THEOREM ChannelTypes == Spec => []TypeOK
<1>1. ChannelInv => TypeOK
  BY DEF ChannelInv
<1> QED  BY <1>1, ChannelInvariant, PTL

\* websocket_manager.py:8-9, "max 1000": the buffer never exceeds
\* BUFFER_MAX_SIZE, whatever replays break and whatever is appended meanwhile.
THEOREM BufferIsBounded == Spec => []BufferBound
<1>1. ChannelInv => BufferBound
  BY DEF ChannelInv
<1> QED  BY <1>1, ChannelInvariant, PTL

\* The buffer, the replays and the sends never hold one event twice, nor one
\* the user already received.
THEOREM NoEventIsRepeated == Spec => []NoEventTwice
<1>1. ChannelInv => NoEventTwice
  BY DEF ChannelInv
<1> QED  BY <1>1, ChannelInvariant, PTL

\* The buffer of a user, as the run of the channel checks it.
THEOREM BufferHolds == Spec => []BufferIsRight
<1>1. ChannelInv => BufferIsRight
  BY DEF ChannelInv, BufferIsRight
<1> QED  BY <1>1, ChannelInvariant, PTL
=============================================================================
