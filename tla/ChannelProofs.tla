--------------------------- MODULE ChannelProofs ---------------------------
(***************************************************************************)
(* Proofs about Channel, for every game with channels and any behaviour of *)
(* the peer.                                                               *)
(***************************************************************************)
EXTENDS Channel, NumberProofs

----------------------------------------------------------------------------
(* State proofs.                                                           *)

LEMMA PathFacts ==
    ASSUME NEW p \in Proof
    PROVE  /\ p.under \in Reinit /\ p.path \in Seq(Signed) /\ p.path # <<>>
           /\ Len(p.path) \in Nat /\ Len(p.path) >= 1
           /\ DOMAIN p.path = 1 .. Len(p.path)
           /\ \A i \in 1 .. Len(p.path) :
                /\ p.path[i] \in Signed /\ p.path[i].data \in Board
                /\ p.path[i].sigs \subseteq Player /\ p.path[i].move \in Move \cup {NoMove}
           /\ UnverifiedProofEndState(p) \in Board
           /\ ProofCount(p) \in Nat
  <1>1. p.under \in Reinit /\ p.path \in Seq(Signed) /\ p.path # <<>>
    BY DEF Proof
  <1> DEFINE s == p.path
  <1> HIDE DEF s
  <1>2. s \in Seq(Signed) /\ s # <<>>
    BY <1>1 DEF s
  <1>3. Len(s) \in Nat /\ Len(s) >= 1 /\ DOMAIN s = 1 .. Len(s)
    BY <1>2, LenProperties, EmptySeq
  <1>4. ASSUME NEW i \in 1 .. Len(s)
        PROVE  /\ s[i] \in Signed /\ s[i].data \in Board
               /\ s[i].sigs \subseteq Player /\ s[i].move \in Move \cup {NoMove}
    <2>1. s[i] \in Signed
      BY <1>2, ElementOfSeq
    <2> QED  BY <2>1 DEF Signed
  <1>5. s[Len(s)].data \in Board
    BY <1>3, <1>4
  <1>6. TurnCount(s[Len(s)].data) \in Nat
    BY <1>5, BoardAssumption
  <1> QED
    BY <1>1, <1>3, <1>4, <1>5, <1>6 DEF s, UnverifiedProofEndState, ProofCount

LEMMA MakeProof ==
    ASSUME NEW r \in Reinit, NEW n \in Nat, n >= 1, NEW f \in [1 .. n -> Signed]
    PROVE  /\ [under |-> r, path |-> f] \in Proof
           /\ Len(f) = n
  BY FunctionIsSequence DEF Proof

\* A signature of ours is on a state only if we have made it: signed is the
\* set of states we signed.
Honest(signed, p) ==
    \A i \in 1 .. Len(p.path) :
        Me \in p.path[i].sigs => [reinit |-> p.under, data |-> p.path[i].data] \in signed

LEMMA FromReinit ==
    ASSUME NEW r \in Reinit, NEW signed
    PROVE  /\ StateProofFromReinit(r) \in Proof
           /\ Len(StateProofFromReinit(r).path) = 1
           /\ StateProofFromReinit(r).path[1].data = ReinitState(r)
           /\ UnverifiedProofEndState(StateProofFromReinit(r)) = ReinitState(r)
           /\ VerifyStateProof(r, StateProofFromReinit(r))
           /\ Honest(signed, StateProofFromReinit(r))
  <1> DEFINE e == [move |-> NoMove, data |-> ReinitState(r), sigs |-> {}]
             f == <<e>>
             p == StateProofFromReinit(r)
  <1>1. e \in Signed
    BY BoardAssumption DEF Signed
  <1>3. f \in Seq(Signed) /\ Len(f) = 1 /\ f # <<>>
    <2> HIDE DEF e
    <2> QED  BY <1>1
  <1>4. p = [under |-> r, path |-> f]
    BY DEF StateProofFromReinit
  <1>5. f[1] = e /\ f[1].data = ReinitState(r) /\ f[1].sigs = {}
    OBVIOUS
  <1> HIDE DEF f, p
  <1>6. p \in Proof /\ p.path = f /\ p.under = r
    BY <1>3, <1>4 DEF Proof
  <1>7. VerifyStateProof(r, p)
    <2>1. \A i \in 2 .. 1 : VerifyStateTransition(r, p, i)
      OBVIOUS
    <2>2. Len(p.path) = 1 /\ p.path[1].data = ReinitState(r)
      BY <1>3, <1>5, <1>6
    <2> QED  BY <2>1, <2>2 DEF VerifyStateProof
  <1>8. Honest(signed, p)
    <2> HIDE DEF e
    <2>1. Len(p.path) = 1
      BY <1>3, <1>6
    <2>2. p.path[1].sigs = {}
      BY <1>5, <1>6
    <2>3. \A i \in 1 .. 1 : i = 1
      OBVIOUS
    <2> QED  BY <2>1, <2>2, <2>3 DEF Honest
  <1> QED
    BY <1>3, <1>5, <1>6, <1>7, <1>8 DEF p, UnverifiedProofEndState

\* t is the path of q from some state on.
TailFrom(t, q, from) ==
    /\ t \in Proof /\ t.under = q.under
    /\ Len(t.path) = Len(q.path) - from + 1
    /\ \A i \in 1 .. Len(t.path) :
         /\ from + i - 1 \in from .. Len(q.path)
         /\ t.path[i].data = q.path[from + i - 1].data
         /\ t.path[i].sigs = q.path[from + i - 1].sigs
         /\ i # 1 => t.path[i].move = q.path[from + i - 1].move
    /\ UnverifiedProofEndState(t) = UnverifiedProofEndState(q)

LEMMA TrimFacts ==
    ASSUME NEW q \in Proof, NEW from \in 1 .. Len(q.path), NEW t, t = TrimTo(q, from)
    PROVE  TailFrom(t, q, from)
  <1> DEFINE n == Len(q.path) - from + 1
             el(i) == IF i = 1 THEN [q.path[from] EXCEPT !.move = NoMove]
                               ELSE q.path[from + i - 1]
             f == [i \in 1 .. n |-> el(i)]
  <1>1. /\ Len(q.path) \in Nat /\ Len(q.path) >= 1 /\ q.under \in Reinit
        /\ \A i \in 1 .. Len(q.path) : q.path[i] \in Signed
    BY PathFacts
  <1>2. n \in Nat /\ n >= 1
    BY <1>1
  <1>3. ASSUME NEW i \in 1 .. n
        PROVE  /\ from + i - 1 \in from .. Len(q.path) /\ from + i - 1 \in 1 .. Len(q.path)
               /\ el(i) \in Signed
               /\ el(i).data = q.path[from + i - 1].data
               /\ el(i).sigs = q.path[from + i - 1].sigs
               /\ i # 1 => el(i).move = q.path[from + i - 1].move
    <2>1. from + i - 1 \in from .. Len(q.path) /\ from + i - 1 \in 1 .. Len(q.path)
      BY <1>1, <1>2
    <2>2. CASE i # 1
      BY <2>1, <2>2, <1>1
    <2>3. CASE i = 1
      <3> DEFINE e == q.path[from]
      <3>1. e \in Signed /\ from + i - 1 = from
        BY <1>1, <2>3
      <3>2. el(i) = [e EXCEPT !.move = NoMove]
        BY <2>3
      <3> HIDE DEF e
      <3>3. [e EXCEPT !.move = NoMove] \in Signed /\ [e EXCEPT !.move = NoMove].data = e.data
            /\ [e EXCEPT !.move = NoMove].sigs = e.sigs
        BY <3>1 DEF Signed
      <3> HIDE DEF el
      <3>4. q.path[from + i - 1] = e
        BY <3>1 DEF e
      <3> QED  BY <2>1, <2>3, <3>2, <3>3, <3>4
    <2> QED  BY <2>2, <2>3
  <1>4. t = [q EXCEPT !.path = f]
    BY DEF TrimTo
  <1> HIDE DEF el
  <1>5. f \in [1 .. n -> Signed]
    BY <1>3
  <1>6. \A i \in 1 .. n : f[i] = el(i)
    OBVIOUS
  <1> HIDE DEF f, n
  <1>7. t = [under |-> q.under, path |-> f]
    BY <1>4 DEF Proof
  <1>8. t \in Proof /\ Len(f) = n
    BY <1>1, <1>2, <1>5, <1>7, MakeProof
  <1>9. t.path = f /\ t.under = q.under
    BY <1>7
  <1>10. f[n].data = q.path[Len(q.path)].data
    <2>1. n \in 1 .. n /\ from + n - 1 = Len(q.path)
      BY <1>1, <1>2 DEF n
    <2> QED  BY <2>1, <1>3, <1>6
  <1> QED
    BY <1>1, <1>3, <1>6, <1>8, <1>9, <1>10 DEF n, UnverifiedProofEndState, TailFrom

\* The tail that is kept starts where everybody has signed on the rest, or it
\* is everything.
LEMMA MinimalStartFacts ==
    ASSUME NEW r \in Reinit, NEW q \in Proof
    PROVE  /\ MinimalStart(r, q) \in 1 .. Len(q.path)
           /\ Covers(r, q, MinimalStart(r, q)) \/ MinimalStart(r, q) = 1
  <1> DEFINE n == Len(q.path)
             T == {i \in 1 .. n : Covers(r, q, i)}
  <1>1. n \in Nat /\ n >= 1
    BY PathFacts
  <1>2. CASE \E i \in 1 .. n : Covers(r, q, i)
    <2>1. T # {} /\ T \in SUBSET (0 .. n)
      BY <1>1, <1>2
    <2>2. PICK x \in T : \A y \in T : y <= x
      <3> HIDE DEF T, n
      <3> QED  BY <1>1, <2>1, GreatestNumber
    <2>3. x \in 1 .. n /\ Covers(r, q, x) /\ \A j \in (x + 1) .. n : ~Covers(r, q, j)
      BY <1>1, <2>2
    <2>4. MinimalStart(r, q) = CHOOSE i \in 1 .. n :
              Covers(r, q, i) /\ \A j \in (i + 1) .. n : ~Covers(r, q, j)
      BY <1>2 DEF MinimalStart
    <2> HIDE DEF n
    <2>5. \E i \in 1 .. n : Covers(r, q, i) /\ \A j \in (i + 1) .. n : ~Covers(r, q, j)
      BY <2>3
    <2>6. MinimalStart(r, q) \in 1 .. n /\ Covers(r, q, MinimalStart(r, q))
      BY <2>4, <2>5
    <2> QED  BY <2>6 DEF n
  <1>3. CASE ~(\E i \in 1 .. n : Covers(r, q, i))
    BY <1>1, <1>3 DEF MinimalStart
  <1> QED
    BY <1>2, <1>3

LEMMA RebasedFacts ==
    ASSUME NEW r \in Reinit, NEW p \in Proof, NEW q, q = Rebased(r, p)
    PROVE  /\ q \in Proof /\ q.under = r /\ Len(q.path) = Len(p.path)
           /\ \A i \in 1 .. Len(p.path) :
                /\ q.path[i].data = p.path[i].data
                /\ q.path[i].move = p.path[i].move
                /\ q.path[i].sigs = VerifyParticipantSignatures(r, p, i)
  <1> DEFINE n == Len(p.path)
             el(i) == [p.path[i] EXCEPT !.sigs = VerifyParticipantSignatures(r, p, i)]
             f == [i \in 1 .. n |-> el(i)]
  <1>1. n \in Nat /\ n >= 1 /\ \A i \in 1 .. n : p.path[i] \in Signed
    BY PathFacts
  <1>2. ASSUME NEW i \in 1 .. n
        PROVE  /\ el(i) \in Signed /\ el(i).data = p.path[i].data
               /\ el(i).move = p.path[i].move
               /\ el(i).sigs = VerifyParticipantSignatures(r, p, i)
    <2> DEFINE e == p.path[i]
               s == VerifyParticipantSignatures(r, p, i)
    <2>1. e \in Signed
      BY <1>1
    <2>2. s \subseteq Player
      BY BoardAssumption DEF VerifyParticipantSignatures
    <2> HIDE DEF e, s
    <2>3. /\ [e EXCEPT !.sigs = s] \in Signed /\ [e EXCEPT !.sigs = s].data = e.data
          /\ [e EXCEPT !.sigs = s].move = e.move /\ [e EXCEPT !.sigs = s].sigs = s
      BY <2>1, <2>2 DEF Signed
    <2> QED  BY <2>3 DEF e, s
  <1>3. q = [under |-> r, path |-> f]
    BY DEF Rebased
  <1> HIDE DEF el
  <1>4. f \in [1 .. n -> Signed] /\ \A i \in 1 .. n : f[i] = el(i)
    BY <1>2
  <1> HIDE DEF f, n
  <1>5. q \in Proof /\ Len(f) = n
    BY <1>1, <1>3, <1>4, MakeProof
  <1>6. q.path = f /\ q.under = r
    BY <1>3
  <1> QED
    BY <1>2, <1>4, <1>5, <1>6 DEF n

LEMMA WithMoveFacts ==
    ASSUME NEW r \in Reinit, NEW p \in Proof, NEW mv \in Move, NEW signer \in Player,
           NEW b \in Board, b = ApplyMove(UnverifiedProofEndState(p), mv),
           NEW q, q = WithMove(signer, r, p, mv), NEW n, n = Len(p.path)
    PROVE  /\ q \in Proof /\ q.under = r /\ Len(q.path) = n + 1
           /\ \A i \in 1 .. n :
                /\ q.path[i].data = p.path[i].data
                /\ q.path[i].move = p.path[i].move
                /\ q.path[i].sigs = VerifyParticipantSignatures(r, p, i)
           /\ q.path[n + 1] = [move |-> mv, data |-> b, sigs |-> {signer}]
           /\ UnverifiedProofEndState(q) = b
  <1> DEFINE a == Rebased(r, p)
             e == [move |-> mv, data |-> b, sigs |-> {signer}]
  <1>1. /\ a \in Proof /\ a.under = r /\ Len(a.path) = n
        /\ \A i \in 1 .. n :
                /\ a.path[i].data = p.path[i].data
                /\ a.path[i].move = p.path[i].move
                /\ a.path[i].sigs = VerifyParticipantSignatures(r, p, i)
    BY RebasedFacts
  <1>2. q = [a EXCEPT !.path = Append(@, e)]
    BY DEF WithMove
  <1>3. e \in Signed
    BY DEF Signed
  <1> HIDE DEF a, e
  <1> DEFINE s == a.path
             f == Append(s, e)
  <1>4. s \in Seq(Signed) /\ Len(s) = n /\ n \in Nat /\ n >= 1
    BY <1>1, PathFacts
  <1>5. q = [under |-> r, path |-> f]
    BY <1>1, <1>2 DEF Proof
  <1> HIDE DEF s
  <1>6. /\ f \in Seq(Signed) /\ Len(f) = n + 1 /\ f # <<>>
        /\ \A i \in 1 .. n : f[i] = s[i]
        /\ f[n + 1] = e
    BY <1>3, <1>4
  <1> HIDE DEF f
  <1>7. q \in Proof /\ q.path = f /\ q.under = r
    BY <1>5, <1>6 DEF Proof
  <1>8. f[n + 1].data = b
    BY <1>6 DEF e
  <1> QED
    BY <1>1, <1>6, <1>7, <1>8 DEF s, e, UnverifiedProofEndState

\* What we make of a proof by a move of ours: it has one state more, with our
\* signature, and its other signatures were there before.
LEMMA ExtendFacts ==
    ASSUME NEW r \in Reinit, NEW p \in Proof, NEW mv \in Move, Me \in Player,
           NEW e \in ExtendStateProof(Me, r, p, mv)
    PROVE  /\ e \in Proof /\ e.under = r
           /\ WhoseTurn(UnverifiedProofEndState(p)) = Me
           /\ UnverifiedProofEndState(e) = ApplyMove(UnverifiedProofEndState(p), mv)
           /\ UnverifiedProofEndState(e) \in Board
           /\ ProofCount(e) > ProofCount(p)
           /\ \A signed : Honest(signed, p) =>
                Honest(signed \cup {[reinit |-> r, data |-> UnverifiedProofEndState(e)]}, e)
  <1> DEFINE end == UnverifiedProofEndState(p)
             b == ApplyMove(end, mv)
             q == WithMove(Me, r, p, mv)
             from == MinimalStart(r, q)
             n == Len(p.path)
  <1>1. WhoseTurn(end) = Me /\ b # NoBoard /\ e = TrimTo(q, from)
    BY DEF ExtendStateProof
  <1>2. end \in Board /\ n \in Nat /\ n >= 1 /\ ProofCount(p) = TurnCount(end)
    BY PathFacts DEF ProofCount
  <1>3. b \in Board /\ TurnCount(b) > TurnCount(end)
    BY <1>1, <1>2, BoardAssumption
  <1>4. /\ q \in Proof /\ q.under = r /\ Len(q.path) = n + 1
        /\ \A i \in 1 .. n :
             /\ q.path[i].data = p.path[i].data
             /\ q.path[i].sigs = VerifyParticipantSignatures(r, p, i)
        /\ q.path[n + 1] = [move |-> mv, data |-> b, sigs |-> {Me}]
        /\ UnverifiedProofEndState(q) = b
    <2> HIDE DEF q, n
    <2>1. q = WithMove(Me, r, p, mv) /\ n = Len(p.path)
      BY DEF q, n
    <2> QED  BY <1>3, <2>1, WithMoveFacts
  <1> HIDE DEF q
  <1>5. from \in 1 .. Len(q.path)
    BY <1>4, MinimalStartFacts
  <1> HIDE DEF from
  <1>6. /\ e \in Proof /\ e.under = r
        /\ Len(e.path) = Len(q.path) - from + 1
        /\ \A i \in 1 .. Len(e.path) :
                /\ from + i - 1 \in from .. Len(q.path)
                /\ e.path[i].data = q.path[from + i - 1].data
                /\ e.path[i].sigs = q.path[from + i - 1].sigs
        /\ UnverifiedProofEndState(e) = b
    <2>1. TailFrom(e, q, from)
      <3> HIDE DEF b
      <3>1. from \in 1 .. Len(q.path) /\ q \in Proof /\ e = TrimTo(q, from)
        BY <1>1, <1>4, <1>5
      <3> QED  BY <3>1, TrimFacts
    <2> HIDE DEF b
    <2> QED  BY <2>1, <1>4 DEF TailFrom
  <1>7. ProofCount(e) > ProofCount(p)
    BY <1>2, <1>3, <1>6 DEF ProofCount
  <1>8. ASSUME NEW signed, Honest(signed, p),
               NEW i \in 1 .. Len(e.path), Me \in e.path[i].sigs
        PROVE  [reinit |-> r, data |-> e.path[i].data]
                  \in signed \cup {[reinit |-> r, data |-> b]}
    <2> DEFINE j == from + i - 1
    <2>1. j \in from .. n + 1 /\ j \in 1 .. n + 1
      BY <1>2, <1>4, <1>5, <1>6
    <2>2. e.path[i].data = q.path[j].data /\ Me \in q.path[j].sigs
      BY <1>6, <1>8
    <2> HIDE DEF j
    <2>3. CASE j = n + 1
      <3>1. q.path[j].data = b
        BY <2>3, <1>4
      <3> QED  BY <2>2, <3>1
    <2>4. CASE j # n + 1
      <3>1. j \in 1 .. n
        BY <2>1, <2>4, <1>2
      <3>2. q.path[j].data = p.path[j].data /\ Me \in VerifyParticipantSignatures(r, p, j)
        BY <1>4, <2>2, <3>1
      <3>3. p.under = r /\ Me \in p.path[j].sigs
        BY <3>2 DEF VerifyParticipantSignatures
      <3> QED  BY <1>8, <2>2, <3>1, <3>2, <3>3 DEF Honest
    <2> QED  BY <2>3, <2>4
  <1>9. \A signed : Honest(signed, p) =>
                Honest(signed \cup {[reinit |-> r, data |-> b]}, e)
    BY <1>6, <1>8 DEF Honest
  <1> QED
    BY <1>1, <1>3, <1>6, <1>7, <1>9

\* A move of ours on a valid proof gives a valid proof: what was cut off is not
\* needed.
LEMMA ExtendVerifies ==
    ASSUME NEW r \in Reinit, NEW p \in Proof, NEW mv \in Move, Me \in Participants(r),
           VerifyStateProof(r, p), NEW e \in ExtendStateProof(Me, r, p, mv)
    PROVE  VerifyStateProof(r, e)
  <1> DEFINE end == UnverifiedProofEndState(p)
             b == ApplyMove(end, mv)
             q == WithMove(Me, r, p, mv)
             from == MinimalStart(r, q)
             n == Len(p.path)
  <1>1. Me \in Player
    BY BoardAssumption
  <1>2. WhoseTurn(end) = Me /\ b # NoBoard /\ e = TrimTo(q, from)
    BY DEF ExtendStateProof
  <1>3. end \in Board /\ n \in Nat /\ n >= 1 /\ end = p.path[n].data
    BY PathFacts DEF UnverifiedProofEndState
  <1>4. b \in Board
    BY <1>2, <1>3, BoardAssumption
  <1>5. /\ q \in Proof /\ q.under = r /\ Len(q.path) = n + 1
        /\ \A i \in 1 .. n :
             /\ q.path[i].data = p.path[i].data
             /\ q.path[i].move = p.path[i].move
             /\ q.path[i].sigs = VerifyParticipantSignatures(r, p, i)
        /\ q.path[n + 1] = [move |-> mv, data |-> b, sigs |-> {Me}]
    <2> HIDE DEF q, n
    <2>1. q = WithMove(Me, r, p, mv) /\ n = Len(p.path)
      BY DEF q, n
    <2> QED  BY <1>1, <1>4, <2>1, WithMoveFacts
  <1>6. \A i \in 1 .. n :
          VerifyParticipantSignatures(r, q, i) = VerifyParticipantSignatures(r, p, i)
    <2> HIDE DEF q
    <2> QED  BY <1>5 DEF VerifyParticipantSignatures
  <1>7. ASSUME NEW i \in 2 .. n + 1
        PROVE  VerifyStateTransition(r, q, i)
    <2>1. CASE i = n + 1
      <3>1. q.path[i - 1].data = end /\ q.path[i].move = mv /\ q.path[i].data = b
        <4> HIDE DEF q
        <4>1. i - 1 = n /\ n \in 1 .. n
          BY <2>1, <1>3
        <4> QED  BY <4>1, <2>1, <1>3, <1>5
      <3>2. Me \in VerifyParticipantSignatures(r, q, i)
        <4> HIDE DEF q
        <4>1. q.path[i].sigs = {Me}
          BY <2>1, <1>5
        <4> QED  BY <4>1, <1>5 DEF VerifyParticipantSignatures
      <3>3. Me # NoTurn
        BY <1>1, BoardAssumption
      <3> HIDE DEF q
      <3> QED  BY <1>2, <3>1, <3>2, <3>3 DEF VerifyStateTransition
    <2>2. CASE i # n + 1
      <3>1. i \in 1 .. n /\ i - 1 \in 1 .. n /\ i \in 2 .. n
        BY <2>2, <1>3
      <3>2. VerifyStateTransition(r, p, i)
        BY <3>1 DEF VerifyStateProof
      <3> HIDE DEF q
      <3> QED  BY <3>1, <3>2, <1>5, <1>6 DEF VerifyStateTransition
    <2> QED  BY <2>1, <2>2
  <1> HIDE DEF q
  <1>8. from \in 1 .. n + 1 /\ (Covers(r, q, from) \/ from = 1)
    BY <1>5, MinimalStartFacts
  <1> HIDE DEF from
  <1>9. /\ e.under = r
        /\ Len(e.path) = n + 1 - from + 1
        /\ \A i \in 1 .. Len(e.path) :
                /\ from + i - 1 \in from .. n + 1
                /\ e.path[i].data = q.path[from + i - 1].data
                /\ e.path[i].sigs = q.path[from + i - 1].sigs
                /\ i # 1 => e.path[i].move = q.path[from + i - 1].move
    <2>1. TailFrom(e, q, from)
      <3> HIDE DEF b
      <3>1. from \in 1 .. Len(q.path) /\ q \in Proof /\ e = TrimTo(q, from)
        BY <1>2, <1>5, <1>8
      <3> QED  BY <3>1, TrimFacts
    <2>2. Len(q.path) = n + 1 /\ q.under = r /\ n \in Nat /\ from \in Nat
      BY <1>3, <1>5, <1>8
    <2> HIDE DEF n
    <2>3. e.under = r /\ Len(e.path) = n + 1 - from + 1
      BY <2>1, <2>2 DEF TailFrom
    <2> QED  BY <2>1, <2>2, <2>3 DEF TailFrom
  <1>10. \A i \in 1 .. Len(e.path) :
          VerifyParticipantSignatures(r, e, i) = VerifyParticipantSignatures(r, q, from + i - 1)
    BY <1>5, <1>9 DEF VerifyParticipantSignatures
  <1>11. ASSUME NEW i \in 2 .. Len(e.path)
         PROVE  VerifyStateTransition(r, e, i)
    <2>1. /\ i \in 1 .. Len(e.path) /\ i - 1 \in 1 .. Len(e.path) /\ i # 1
          /\ from + i - 1 \in 2 .. n + 1
          /\ from + (i - 1) - 1 = (from + i - 1) - 1
      BY <1>3, <1>8, <1>9
    <2>2. VerifyStateTransition(r, q, from + i - 1)
      BY <1>7, <2>1
    <2>3. /\ e.path[i].data = q.path[from + i - 1].data
          /\ e.path[i].move = q.path[from + i - 1].move
      BY <1>9, <2>1
    <2>4. e.path[i - 1].data = q.path[(from + i - 1) - 1].data
      BY <1>9, <2>1
    <2>5. VerifyParticipantSignatures(r, e, i) = VerifyParticipantSignatures(r, q, from + i - 1)
      BY <1>10, <2>1
    <2> QED
      BY <2>2, <2>3, <2>4, <2>5 DEF VerifyStateTransition
  <1>12. CASE Covers(r, q, from)
    <2>1. ASSUME NEW pl \in Participants(r)
          PROVE  \E i \in 1 .. Len(e.path) : pl \in VerifyParticipantSignatures(r, e, i)
      <3>1. PICK j \in from .. n + 1 : pl \in VerifyParticipantSignatures(r, q, j)
        BY <1>5, <1>12 DEF Covers
      <3> DEFINE i == j - from + 1
      <3>2. i \in 1 .. Len(e.path) /\ from + i - 1 = j
        BY <1>3, <1>8, <1>9
      <3> HIDE DEF i
      <3> QED  BY <1>10, <3>1, <3>2
    <2> QED
      BY <1>11, <2>1 DEF VerifyStateProof
  <1>13. CASE ~Covers(r, q, from)
    <2>1. from = 1 /\ 1 \in 1 .. n /\ 1 \in 1 .. Len(e.path)
      BY <1>3, <1>8, <1>9, <1>13
    <2>2. e.path[1].data = p.path[1].data
      BY <1>5, <1>9, <2>1
    <2>3. CASE p.path[1].data = ReinitState(r)
      BY <1>11, <2>2, <2>3 DEF VerifyStateProof
    <2>4. CASE p.path[1].data # ReinitState(r)
      <3>1. ASSUME NEW pl \in Participants(r)
            PROVE  \E i \in from .. Len(q.path) : pl \in VerifyParticipantSignatures(r, q, i)
        <4>1. PICK i \in 1 .. n : pl \in VerifyParticipantSignatures(r, p, i)
          BY <2>4 DEF VerifyStateProof
        <4>2. i \in from .. Len(q.path)
          BY <1>3, <1>5, <2>1
        <4> QED  BY <1>6, <4>1, <4>2
      <3> QED  BY <1>13, <3>1 DEF Covers
    <2> QED  BY <2>3, <2>4
  <1> QED
    BY <1>12, <1>13

----------------------------------------------------------------------------
(* Agreement.                                                              *)

\* Agreed, for any set of states we have signed.
AgreedIn(signed, r, p) ==
    \E i \in 1 .. Len(p.path) :
        /\ p.path[i].data = ReinitState(r) \/ [reinit |-> r, data |-> p.path[i].data] \in signed
        /\ \A j \in (i + 1) .. Len(p.path) :
             /\ WhoseTurn(p.path[j - 1].data) = Peer
             /\ ApplyMove(p.path[j - 1].data, p.path[j].move) = p.path[j].data

\* The last of the states that we signed or started from is followed by moves
\* of the peer only, because each of ours carries our signature.
LEMMA VerifiedAgreed ==
    ASSUME NEW r \in Reinit, NEW p \in Proof, NEW signed,
           Participants(r) = {Me, Peer}, VerifyStateProof(r, p), Honest(signed, p)
    PROVE  AgreedIn(signed, r, p)
  <1> DEFINE n == Len(p.path)
             Ours(i) == p.path[i].data = ReinitState(r)
                        \/ [reinit |-> r, data |-> p.path[i].data] \in signed
             T == {i \in 1 .. n : Ours(i)}
  <1>1. n \in Nat /\ n >= 1
    BY PathFacts
  <1>2. ASSUME NEW i \in 1 .. n, Me \in VerifyParticipantSignatures(r, p, i)
        PROVE  Ours(i)
    <2>1. p.under = r /\ Me \in p.path[i].sigs
      BY <1>2 DEF VerifyParticipantSignatures
    <2> QED  BY <2>1 DEF Honest
  <1>3. \E i \in 1 .. n : Ours(i)
    <2>1. CASE p.path[1].data = ReinitState(r)
      BY <1>1, <2>1
    <2>2. CASE p.path[1].data # ReinitState(r)
      <3>1. PICK i \in 1 .. n : Me \in VerifyParticipantSignatures(r, p, i)
        BY <2>2 DEF VerifyStateProof
      <3> QED  BY <1>2, <3>1
    <2> QED  BY <2>1, <2>2
  <1>4. PICK x \in T : \A y \in T : y <= x
    <2>1. T # {} /\ T \in SUBSET (0 .. n)
      BY <1>1, <1>3
    <2> HIDE DEF T, n
    <2> QED  BY <1>1, <2>1, GreatestNumber
  <1>5. x \in 1 .. n /\ Ours(x)
    BY <1>4
  <1>6. ASSUME NEW j \in (x + 1) .. n
        PROVE  /\ WhoseTurn(p.path[j - 1].data) = Peer
               /\ ApplyMove(p.path[j - 1].data, p.path[j].move) = p.path[j].data
    <2>1. j \in 2 .. n /\ j \in 1 .. n /\ ~(j <= x)
      BY <1>1, <1>5
    <2>2. VerifyStateTransition(r, p, j)
      BY <2>1 DEF VerifyStateProof
    <2>3. ~Ours(j)
      <3> HIDE DEF Ours, n
      <3> QED  BY <1>4, <2>1
    <2>4. Me \notin VerifyParticipantSignatures(r, p, j)
      <3> HIDE DEF Ours
      <3> QED  BY <1>2, <2>1, <2>3
    <2>5. WhoseTurn(p.path[j - 1].data) \in VerifyParticipantSignatures(r, p, j)
      BY <2>2 DEF VerifyStateTransition
    <2>6. VerifyParticipantSignatures(r, p, j) \subseteq {Me, Peer}
      BY DEF VerifyParticipantSignatures
    <2> QED
      BY <2>2, <2>4, <2>5, <2>6 DEF VerifyStateTransition
  <1> QED
    BY <1>5, <1>6 DEF AgreedIn

----------------------------------------------------------------------------
(* The manager's invariant.                                                *)

ReinitsType == UNION {[D -> ReinitData] : D \in SUBSET Reinit}

DisputeType == [open : BOOLEAN, turn : Player \cup {NoTurn}, count : Nat,
                pendingResolution : SUBSET AllTx]

Manager ==
    [reinits : ReinitsType, reinitId : Reinit \cup {NoReinit},
     queue : [Reinit -> Seq(Proof)], size : Int, fatal : Checks,
     exists : BOOLEAN, dispute : DisputeType,
     pendingPut : SUBSET AllTx, pendingDispute : SUBSET AllTx, txidClose : SUBSET AllTx,
     priv : Priv, pool : SUBSET AllTx, signed : SUBSET [reinit : Reinit, data : Board]]

\* A proof that may be held for a reinitialisation.  Before somebody joins,
\* nobody can move.
Known(signed, r, p) ==
    /\ p \in Proof /\ Honest(signed, p) /\ VerifyStateProof(r, p)
    /\ r = CreateReinit => p = StateProofFromReinit(r)

ReinitsOK(m) ==
    \A r \in DOMAIN m.reinits :
        /\ Known(m.signed, r, m.reinits[r].proof)
        /\ m.reinits[r].onChainTurn <= ProofCount(m.reinits[r].proof)

QueueOK(m) ==
    /\ m.queue[CreateReinit] = <<>>
    /\ \A r \in Reinit : \A i \in 1 .. Len(m.queue[r]) : Honest(m.signed, m.queue[r][i])

SizeOK(m) == m.size = Cardinality(Places(m.queue, Reinit)) /\ m.size <= MaxSize

PoolOK(m) == \A tx \in m.pool : Honest(m.signed, tx.proof)

StateOK(m) ==
    /\ m.exists => m.reinitId \in DOMAIN m.reinits
    /\ m.dispute.open => m.dispute.turn # NoTurn

FatalOK(m) == m.fatal \in {"", "exists"} \/ (~AutoMovesValid /\ m.fatal = "automove")

ManagerOK(m) ==
    /\ m \in Manager /\ ReinitsOK(m) /\ QueueOK(m) /\ SizeOK(m) /\ PoolOK(m)
    /\ StateOK(m) /\ FatalOK(m)

\* What is signed stays signed, and nothing known is replaced by something older.
Grows(m, n) ==
    /\ m.signed \subseteq n.signed
    /\ \A r \in DOMAIN m.reinits :
         r \in DOMAIN n.reinits /\ ProofCount(n.reinits[r].proof) >= ProofCount(m.reinits[r].proof)

LEMMA HonestMonotone ==
    ASSUME NEW s, NEW t, s \subseteq t, NEW p, Honest(s, p)
    PROVE  Honest(t, p)
  BY DEF Honest

LEMMA KnownMonotone ==
    ASSUME NEW s, NEW t, s \subseteq t, NEW r, NEW p, Known(s, r, p)
    PROVE  Known(t, r, p)
  BY HonestMonotone DEF Known

LEMMA ReinitsFacts ==
    ASSUME NEW f \in ReinitsType
    PROVE  /\ DOMAIN f \in SUBSET Reinit /\ f \in [DOMAIN f -> ReinitData]
           /\ \A r \in DOMAIN f : /\ f[r] \in ReinitData /\ f[r].proof \in Proof
                                  /\ f[r].onChainTurn \in Nat /\ ProofCount(f[r].proof) \in Nat
  <1>1. PICK D \in SUBSET Reinit : f \in [D -> ReinitData]
    BY DEF ReinitsType
  <1>2. \A r \in DOMAIN f : /\ f[r] \in ReinitData /\ f[r].proof \in Proof
                            /\ f[r].onChainTurn \in Nat
    BY <1>1 DEF ReinitData
  <1> QED
    BY <1>1, <1>2, PathFacts

LEMMA MakeReinits ==
    ASSUME NEW D \in SUBSET Reinit, NEW f \in [D -> ReinitData]
    PROVE  f \in ReinitsType
  BY DEF ReinitsType

LEMMA ManagerFacts ==
    ASSUME NEW m \in Manager
    PROVE  /\ m.reinits \in ReinitsType /\ DOMAIN m.reinits \in SUBSET Reinit
           /\ m.queue \in [Reinit -> Seq(Proof)]
           /\ \A r \in Reinit : m.queue[r] \in Seq(Proof) /\ Len(m.queue[r]) \in Nat
           /\ m.size \in Int /\ m.exists \in BOOLEAN
           /\ m.dispute \in DisputeType /\ m.signed \in SUBSET [reinit : Reinit, data : Board]
           /\ m.priv \in Priv /\ m.pool \in SUBSET AllTx
           /\ \A r \in DOMAIN m.reinits :
                /\ m.reinits[r] \in ReinitData /\ m.reinits[r].proof \in Proof
                /\ m.reinits[r].onChainTurn \in Nat /\ ProofCount(m.reinits[r].proof) \in Nat
  <1>1. /\ m.reinits \in ReinitsType /\ m.queue \in [Reinit -> Seq(Proof)]
        /\ m.size \in Int /\ m.exists \in BOOLEAN
        /\ m.dispute \in DisputeType /\ m.signed \in SUBSET [reinit : Reinit, data : Board]
        /\ m.priv \in Priv /\ m.pool \in SUBSET AllTx
    BY DEF Manager
  <1>2. \A r \in Reinit : m.queue[r] \in Seq(Proof) /\ Len(m.queue[r]) \in Nat
    BY <1>1, LenProperties
  <1> QED
    BY <1>1, <1>2, ReinitsFacts

LEMMA GrowsItself ==
    ASSUME NEW m \in Manager, NEW n, n.signed = m.signed, n.reinits = m.reinits
    PROVE  Grows(m, n)
  <1>1. \A r \in DOMAIN m.reinits : ProofCount(m.reinits[r].proof) \in Nat
    BY ManagerFacts
  <1> QED
    BY <1>1 DEF Grows

LEMMA GrowsOn ==
    ASSUME NEW m \in Manager, NEW n \in Manager, NEW o \in Manager, Grows(m, n), Grows(n, o)
    PROVE  Grows(m, o)
  <1>1. ASSUME NEW r \in DOMAIN m.reinits
        PROVE  /\ r \in DOMAIN o.reinits
               /\ ProofCount(o.reinits[r].proof) >= ProofCount(m.reinits[r].proof)
    <2>1. r \in DOMAIN n.reinits /\ r \in DOMAIN o.reinits
      BY DEF Grows
    <2> DEFINE x == ProofCount(m.reinits[r].proof)
               y == ProofCount(n.reinits[r].proof)
               z == ProofCount(o.reinits[r].proof)
    <2>2. x \in Nat /\ y \in Nat /\ z \in Nat
      BY <2>1, ManagerFacts
    <2>3. y >= x /\ z >= y
      BY <2>1 DEF Grows
    <2> HIDE DEF x, y, z
    <2>4. z >= x
      BY <2>2, <2>3
    <2> QED  BY <2>1, <2>4 DEF x, z
  <1> QED
    BY <1>1 DEF Grows

----------------------------------------------------------------------------
(* The queue.                                                              *)

LEMMA QueueWithout ==
    ASSUME NEW q \in [Reinit -> Seq(Proof)], NEW x \in Reinit
    PROVE  /\ Cardinality(Places(q, Reinit)) = Len(q[x]) + Cardinality(Places(q, Reinit \ {x}))
           /\ Len(q[x]) \in Nat /\ Cardinality(Places(q, Reinit \ {x})) \in Nat
  <1>1. \A r \in Reinit : Len(q[r]) \in Nat
    BY LenProperties
  <1>2. IsFiniteSet(Reinit) /\ IsFiniteSet(Reinit \ {x})
    BY QueueAssumption, FS_Difference
  <1> QED
    BY <1>1, <1>2, PlacesFinite, PlacesWithout

LEMMA PlacesChange ==
    ASSUME NEW q \in [Reinit -> Seq(Proof)], NEW x \in Reinit, NEW s \in Seq(Proof)
    PROVE  Cardinality(Places([q EXCEPT ![x] = s], Reinit))
             = Cardinality(Places(q, Reinit)) - Len(q[x]) + Len(s)
  <1> DEFINE t == [q EXCEPT ![x] = s]
             R == Reinit \ {x}
  <1>1. t \in [Reinit -> Seq(Proof)] /\ t[x] = s /\ \A r \in R : t[r] = q[r]
    OBVIOUS
  <1> HIDE DEF t
  <1>4. Places(t, R) = Places(q, R)
    BY <1>1 DEF Places
  <1>5. /\ Cardinality(Places(q, Reinit)) = Len(q[x]) + Cardinality(Places(q, R))
        /\ Len(q[x]) \in Nat /\ Cardinality(Places(q, R)) \in Nat
    BY QueueWithout
  <1>6. Cardinality(Places(t, Reinit)) = Len(t[x]) + Cardinality(Places(t, R)) /\ Len(t[x]) \in Nat
    BY <1>1, QueueWithout
  <1>8. Len(t[x]) = Len(s)
    BY <1>1
  <1> DEFINE rest == Cardinality(Places(q, R))
             all == Cardinality(Places(q, Reinit))
             new == Cardinality(Places(t, Reinit))
             a == Len(q[x])
             b == Len(s)
  <1>9. all = a + rest /\ new = b + rest /\ rest \in Nat /\ a \in Nat /\ b \in Nat
    BY <1>4, <1>5, <1>6, <1>8
  <1> HIDE DEF rest, all, new, a, b
  <1>10. new = all - a + b
    BY <1>9
  <1> QED
    BY <1>10 DEF new, all, a, b, t

LEMMA PlacesOfFew ==
    ASSUME NEW q \in [Reinit -> Seq(Proof)], NEW x \in Reinit,
           \A r \in Reinit \ {x} : q[r] = <<>>
    PROVE  Cardinality(Places(q, Reinit)) = Len(q[x])
  <1>1. \A r \in Reinit : q[r] \in Seq(Proof) /\ Len(q[r]) \in Nat
    BY LenProperties
  <1>2. Cardinality(Places(q, Reinit)) = Len(q[x]) + Cardinality(Places(q, Reinit \ {x}))
    BY <1>1, QueueAssumption, PlacesWithout
  <1>3. Places(q, Reinit \ {x}) = {}
    <2>1. Len(<<>>) = 0 /\ 1 .. 0 = {}
      OBVIOUS
    <2>2. \A r \in Reinit \ {x} : 1 .. Len(q[r]) = {}
      BY <2>1
    <2> QED  BY <2>2 DEF Places
  <1>4. Cardinality({}) = 0
    BY FS_EmptySet
  <1>5. Len(q[x]) + 0 = Len(q[x])
    BY <1>1
  <1> QED
    BY <1>2, <1>3, <1>4, <1>5

\* The queue q of size k may take the place of the manager's.
GoodQueue(m, q, k) ==
    /\ q \in [Reinit -> Seq(Proof)] /\ k \in Int
    /\ q[CreateReinit] = <<>>
    /\ \A r \in Reinit : \A i \in 1 .. Len(q[r]) : Honest(m.signed, q[r][i])
    /\ k = Cardinality(Places(q, Reinit)) /\ k <= MaxSize

\* Only the queue differs.
SameButQueue(m, n) ==
    /\ n.reinits = m.reinits /\ n.reinitId = m.reinitId /\ n.exists = m.exists
    /\ n.fatal = m.fatal /\ n.dispute = m.dispute /\ n.signed = m.signed
    /\ n.pool = m.pool /\ n.priv = m.priv
    /\ n.pendingPut = m.pendingPut /\ n.pendingDispute = m.pendingDispute

WithQueue(m, q, k) == [m EXCEPT !.queue = q, !.size = k]

LEMMA QueueChange ==
    ASSUME NEW m, ManagerOK(m), NEW q, NEW k, GoodQueue(m, q, k),
           NEW n, n = WithQueue(m, q, k)
    PROVE  ManagerOK(n) /\ SameButQueue(m, n) /\ n.queue = q /\ n.size = k
  <1>1. n \in Manager
    BY DEF ManagerOK, GoodQueue, Manager, WithQueue
  <1>2. SameButQueue(m, n) /\ n.queue = q /\ n.size = k
    BY DEF ManagerOK, Manager, SameButQueue, WithQueue
  <1>3. ReinitsOK(n) /\ PoolOK(n) /\ StateOK(n) /\ FatalOK(n)
    <2>1. ReinitsOK(m) /\ PoolOK(m) /\ StateOK(m) /\ FatalOK(m)
      BY DEF ManagerOK
    <2>2. /\ n.reinits = m.reinits /\ n.reinitId = m.reinitId /\ n.exists = m.exists
          /\ n.fatal = m.fatal /\ n.dispute = m.dispute /\ n.signed = m.signed
          /\ n.pool = m.pool
      BY <1>2 DEF SameButQueue
    <2> QED  BY <2>1, <2>2 DEF ReinitsOK, PoolOK, StateOK, FatalOK
  <1>4. QueueOK(n) /\ SizeOK(n)
    <2>1. n.signed = m.signed
      BY <1>2 DEF SameButQueue
    <2> QED  BY <1>2, <2>1 DEF GoodQueue, QueueOK, SizeOK
  <1> QED
    BY <1>1, <1>2, <1>3, <1>4 DEF ManagerOK

LEMMA QueueEntries ==
    ASSUME NEW m, ManagerOK(m)
    PROVE  /\ m \in Manager /\ m.queue \in [Reinit -> Seq(Proof)]
           /\ m.queue[CreateReinit] = <<>>
           /\ \A r \in Reinit : /\ m.queue[r] \in Seq(Proof) /\ Len(m.queue[r]) \in Nat
                                /\ \A i \in 1 .. Len(m.queue[r]) :
                                     m.queue[r][i] \in Proof /\ Honest(m.signed, m.queue[r][i])
           /\ m.size \in Int /\ m.size = Cardinality(Places(m.queue, Reinit)) /\ m.size <= MaxSize
  <1>1. m \in Manager /\ QueueOK(m) /\ SizeOK(m)
    BY DEF ManagerOK
  <1>2. /\ m.queue \in [Reinit -> Seq(Proof)] /\ m.size \in Int
        /\ \A r \in Reinit : m.queue[r] \in Seq(Proof) /\ Len(m.queue[r]) \in Nat
    BY <1>1, ManagerFacts
  <1>3. \A r \in Reinit : \A i \in 1 .. Len(m.queue[r]) : m.queue[r][i] \in Proof
    BY <1>2, ElementOfSeq
  <1> QED
    BY <1>1, <1>2, <1>3 DEF QueueOK, SizeOK

\* The queue with what is there for one reinitialisation replaced.
LEMMA GoodChange ==
    ASSUME NEW m, ManagerOK(m), NEW r \in Reinit, NEW s \in Seq(Proof),
           r = CreateReinit => s = <<>>,
           \A i \in 1 .. Len(s) : Honest(m.signed, s[i]),
           NEW k, k = m.size - Len(m.queue[r]) + Len(s), k <= MaxSize
    PROVE  GoodQueue(m, [m.queue EXCEPT ![r] = s], k)
  <1> DEFINE q == [m.queue EXCEPT ![r] = s]
  <1>1. q \in [Reinit -> Seq(Proof)]
    BY QueueEntries
  <1>2. /\ q[r] = s /\ \A x \in Reinit \ {r} : q[x] = m.queue[x]
    BY QueueEntries
  <1>3. q[CreateReinit] = <<>>
    BY <1>2, QueueEntries, ShipsAssumption
  <1>4. k = Cardinality(Places(q, Reinit))
    <2>1. m.queue \in [Reinit -> Seq(Proof)] /\ m.size = Cardinality(Places(m.queue, Reinit))
      BY QueueEntries
    <2>2. Cardinality(Places(q, Reinit))
            = Cardinality(Places(m.queue, Reinit)) - Len(m.queue[r]) + Len(s)
      BY <2>1, PlacesChange
    <2> HIDE DEF q
    <2> QED  BY <2>1, <2>2
  <1>5. k \in Int
    BY QueueEntries, LenProperties
  <1>6. ASSUME NEW x \in Reinit, NEW i \in 1 .. Len(q[x])
        PROVE  Honest(m.signed, q[x][i])
    <2> HIDE DEF q
    <2>1. CASE x = r
      BY <2>1, <1>2, <1>6
    <2>2. CASE x # r
      BY <2>2, <1>2, <1>6, QueueEntries
    <2> QED  BY <2>1, <2>2
  <1> QED
    BY <1>1, <1>3, <1>4, <1>5, <1>6 DEF GoodQueue

LEMMA DropOthersOK ==
    ASSUME NEW m, ManagerOK(m), NEW r \in Reinit, r # CreateReinit
    PROVE  /\ ManagerOK(DropOthers(m, r)) /\ SameButQueue(m, DropOthers(m, r))
           /\ DropOthers(m, r).queue[r] = m.queue[r]
           /\ DropOthers(m, r).size = Len(m.queue[r])
  <1> DEFINE q == [x \in Reinit |-> IF x = r THEN m.queue[x] ELSE <<>>]
             sum == MapThenSumSet(LAMBDA x : Len(m.queue[x]), Reinit \ {r})
             k == m.size - sum
             n == DropOthers(m, r)
  <1>1. m.size = Len(m.queue[r]) + Cardinality(Places(m.queue, Reinit \ {r}))
        /\ Len(m.queue[r]) \in Nat /\ Cardinality(Places(m.queue, Reinit \ {r})) \in Nat
    BY QueueEntries, QueueWithout
  <1>2. MapThenSumSet(LAMBDA x : Len(m.queue[x]), Reinit \ {r})
          = Cardinality(Places(m.queue, Reinit \ {r}))
    <2>1. IsFiniteSet(Reinit \ {r})
      BY QueueAssumption, FS_Difference
    <2>2. \A x \in Reinit \ {r} : Len(m.queue[x]) \in Nat
      BY QueueEntries
    <2> QED  BY <2>1, <2>2, SumIsPlaces
  <1>3. k = Len(m.queue[r])
    <2> DEFINE c == Cardinality(Places(m.queue, Reinit \ {r}))
    <2>1. sum = c /\ m.size = Len(m.queue[r]) + c /\ c \in Nat
      BY <1>1, <1>2
    <2> HIDE DEF sum, c
    <2> QED  BY <1>1, <2>1
  <1>4. n = WithQueue(m, q, k)
    BY DEF DropOthers, WithQueue
  <1>5. q \in [Reinit -> Seq(Proof)] /\ q[r] = m.queue[r] /\ \A x \in Reinit \ {r} : q[x] = <<>>
    <2>1. \A x \in Reinit : m.queue[x] \in Seq(Proof)
      BY QueueEntries
    <2>2. <<>> \in Seq(Proof)
      OBVIOUS
    <2> QED  BY <2>1, <2>2
  <1> HIDE DEF q, k, n
  <1>6. k = Cardinality(Places(q, Reinit))
    BY <1>3, <1>5, PlacesOfFew
  <1>7. k \in Int /\ k <= MaxSize
    <2>1. m.size <= MaxSize /\ m.size \in Int /\ MaxSize \in Nat
      BY QueueEntries, QueueAssumption
    <2> QED  BY <1>1, <1>3, <2>1
  <1>8. ASSUME NEW x \in Reinit, NEW i \in 1 .. Len(q[x])
        PROVE  Honest(m.signed, q[x][i])
    <2>1. CASE x = r
      BY <2>1, <1>5, <1>8, QueueEntries
    <2>2. CASE x # r
      <3>1. Len(q[x]) = 0
        BY <2>2, <1>5
      <3> QED  BY <3>1, <1>8
    <2> QED  BY <2>1, <2>2
  <1>9. q[CreateReinit] = <<>>
    BY <1>5, ShipsAssumption
  <1>10. GoodQueue(m, q, k)
    BY <1>5, <1>6, <1>7, <1>8, <1>9 DEF GoodQueue
  <1>11. ManagerOK(n) /\ SameButQueue(m, n) /\ n.queue = q /\ n.size = k
    BY <1>4, <1>10, QueueChange
  <1> QED
    BY <1>3, <1>5, <1>11 DEF n

LEMMA DropOldestOK ==
    ASSUME NEW m, ManagerOK(m), NEW r \in Reinit, r # CreateReinit,
           Len(m.queue[r]) = m.size, m.size = MaxSize
    PROVE  /\ ManagerOK(DropOldest(m, r)) /\ SameButQueue(m, DropOldest(m, r))
           /\ DropOldest(m, r).size = MaxSize - 1
  <1> DEFINE s == m.queue[r]
             t == Tail(m.queue[r])
             q == [m.queue EXCEPT ![r] = t]
             n == DropOldest(m, r)
  <1>1. s \in Seq(Proof) /\ Len(s) = MaxSize /\ MaxSize \in Nat /\ MaxSize >= 1
    BY QueueEntries, QueueAssumption
  <1>2. \A i \in 1 .. Len(s) : Honest(m.signed, s[i])
    BY QueueEntries
  <1>3. t \in Seq(Proof) /\ Len(t) = MaxSize - 1 /\ \A i \in 1 .. Len(t) : t[i] = s[i + 1]
    <2> HIDE DEF s
    <2>1. t = Tail(s)
      BY DEF s
    <2>2. s # <<>>
      BY <1>1
    <2> HIDE DEF t
    <2> QED  BY <1>1, <2>1, <2>2
  <1>4. \A i \in 1 .. Len(t) : Honest(m.signed, t[i])
    <2>1. \A i \in 1 .. Len(t) : i + 1 \in 1 .. Len(s)
      BY <1>1, <1>3
    <2> HIDE DEF s, t
    <2> QED  BY <1>2, <1>3, <2>1
  <1>5. n = WithQueue(m, q, m.size - 1)
    <2>1. n = [m EXCEPT !.queue[r] = Tail(@), !.size = @ - 1]
      BY DEF DropOldest
    <2> QED  BY <2>1 DEF WithQueue
  <1>6. /\ MaxSize - 1 = m.size - Len(s) + Len(t) /\ MaxSize - 1 <= MaxSize
        /\ m.size - 1 = MaxSize - 1
    BY <1>1, <1>3
  <1>7. GoodQueue(m, q, MaxSize - 1)
    <2> HIDE DEF t
    <2> QED  BY <1>3, <1>4, <1>6, GoodChange
  <1> HIDE DEF q, n
  <1>8. ManagerOK(n) /\ SameButQueue(m, n) /\ n.size = MaxSize - 1
    BY <1>5, <1>6, <1>7, QueueChange
  <1> QED
    BY <1>8 DEF n

LEMMA InsertOK ==
    ASSUME NEW m, ManagerOK(m), NEW r \in Reinit, r # CreateReinit,
           NEW p \in Proof, Honest(m.signed, p)
    PROVE  ManagerOK(Insert(m, r, p)) /\ SameButQueue(m, Insert(m, r, p))
  <1> DEFINE a == IF m.size = MaxSize THEN DropOthers(m, r) ELSE m
             b == IF a.size = MaxSize THEN DropOldest(a, r) ELSE a
             s == Append(b.queue[r], p)
             q == [b.queue EXCEPT ![r] = s]
             n == Insert(m, r, p)
  <1>1. /\ ManagerOK(a) /\ SameButQueue(m, a)
        /\ a.size = MaxSize => Len(a.queue[r]) = a.size
    <2>1. CASE m.size = MaxSize
      BY <2>1, DropOthersOK
    <2>2. CASE m.size # MaxSize
      BY <2>2 DEF SameButQueue
    <2> QED  BY <2>1, <2>2
  <1>2. n = [b EXCEPT !.queue[r] = Append(@, p), !.size = @ + 1]
    BY DEF Insert
  <1> HIDE DEF a
  <1>3. ManagerOK(b) /\ SameButQueue(m, b) /\ b.size < MaxSize
    <2>1. CASE a.size = MaxSize
      <3>1. ManagerOK(b) /\ SameButQueue(a, b) /\ b.size = MaxSize - 1
        BY <1>1, <2>1, DropOldestOK
      <3>2. MaxSize - 1 < MaxSize
        BY QueueAssumption
      <3> HIDE DEF b
      <3> QED  BY <1>1, <3>1, <3>2 DEF SameButQueue
    <2>2. CASE a.size # MaxSize
      <3>1. b = a
        BY <2>2
      <3>2. a.size <= MaxSize /\ a.size \in Int /\ MaxSize \in Nat
        BY <1>1, QueueEntries, QueueAssumption
      <3> QED  BY <1>1, <2>2, <3>1, <3>2
    <2> QED  BY <2>1, <2>2
  <1> HIDE DEF b
  <1>4. n = WithQueue(b, q, b.size + 1)
    BY <1>2 DEF WithQueue
  <1>5. b.queue[r] \in Seq(Proof) /\ Len(b.queue[r]) \in Nat /\ b.size \in Int /\ MaxSize \in Nat
        /\ \A i \in 1 .. Len(b.queue[r]) : Honest(b.signed, b.queue[r][i])
    BY <1>3, QueueEntries, QueueAssumption
  <1>6. s \in Seq(Proof) /\ Len(s) = Len(b.queue[r]) + 1
        /\ (\A i \in 1 .. Len(b.queue[r]) : s[i] = b.queue[r][i]) /\ s[Len(b.queue[r]) + 1] = p
    <2> DEFINE z == b.queue[r]
    <2>1. z \in Seq(Proof) /\ Len(z) \in Nat
      BY <1>5
    <2>2. s = Append(z, p)
      OBVIOUS
    <2> HIDE DEF z, s
    <2>3. s \in Seq(Proof) /\ Len(s) = Len(z) + 1
          /\ (\A i \in 1 .. Len(z) : s[i] = z[i]) /\ s[Len(z) + 1] = p
      BY <2>1, <2>2
    <2> QED  BY <2>3 DEF z
  <1>7. Honest(b.signed, p)
    BY <1>3 DEF SameButQueue
  <1>8. ASSUME NEW i \in 1 .. Len(s)
        PROVE  Honest(b.signed, s[i])
    <2> DEFINE l == Len(b.queue[r])
    <2>1. l \in Nat /\ i \in 1 .. l + 1
      BY <1>5, <1>6
    <2> HIDE DEF s, l
    <2>2. CASE i = l + 1
      BY <2>2, <1>6, <1>7 DEF l
    <2>3. CASE i # l + 1
      <3>1. i \in 1 .. l
        BY <2>1, <2>3
      <3> QED  BY <3>1, <1>5, <1>6 DEF l
    <2> QED  BY <2>2, <2>3
  <1>9. b.size + 1 = b.size - Len(b.queue[r]) + Len(s) /\ b.size + 1 <= MaxSize
    <2> HIDE DEF s
    <2> QED  BY <1>3, <1>5, <1>6
  <1>10. GoodQueue(b, q, b.size + 1)
    <2> HIDE DEF s
    <2> QED  BY <1>3, <1>6, <1>8, <1>9, GoodChange
  <1> HIDE DEF q, n
  <1>11. ManagerOK(n) /\ SameButQueue(b, n)
    BY <1>3, <1>4, <1>10, QueueChange
  <1>12. SameButQueue(m, n)
    BY <1>3, <1>11 DEF SameButQueue
  <1> QED
    BY <1>11, <1>12 DEF n

----------------------------------------------------------------------------
(* The rolling state.                                                      *)

\* The queue stays good whatever is signed.
LEMMA ManagerKeeps ==
    ASSUME NEW m, ManagerOK(m), NEW n \in Manager, m.signed \subseteq n.signed,
           n.queue = m.queue, n.size = m.size,
           ReinitsOK(n), PoolOK(n), StateOK(n), FatalOK(n)
    PROVE  ManagerOK(n)
  <1>1. QueueOK(n)
    <2>1. QueueOK(m)
      BY DEF ManagerOK
    <2>2. ASSUME NEW r \in Reinit, NEW i \in 1 .. Len(m.queue[r])
          PROVE  Honest(n.signed, m.queue[r][i])
      BY <2>1, <2>2, HonestMonotone DEF QueueOK
    <2> QED  BY <2>1, <2>2 DEF QueueOK
  <1>2. SizeOK(n)
    BY DEF ManagerOK, SizeOK
  <1> QED
    BY <1>1, <1>2 DEF ManagerOK

LEMMA ReinitsMonotone ==
    ASSUME NEW m, ReinitsOK(m), NEW n, m.signed \subseteq n.signed, n.reinits = m.reinits
    PROVE  ReinitsOK(n)
  BY KnownMonotone DEF ReinitsOK

LEMMA PoolMonotone ==
    ASSUME NEW m, PoolOK(m), NEW n, m.signed \subseteq n.signed, n.pool = m.pool
    PROVE  PoolOK(n)
  BY HonestMonotone DEF PoolOK

\* Only the known states, what is signed and the queue differ.
SameRest(m, n) ==
    /\ DOMAIN n.reinits = DOMAIN m.reinits
    /\ n.reinitId = m.reinitId /\ n.exists = m.exists /\ n.fatal = m.fatal
    /\ n.dispute = m.dispute /\ n.pool = m.pool /\ n.priv = m.priv
    /\ n.pendingPut = m.pendingPut /\ n.pendingDispute = m.pendingDispute

WithProof(f, r, p) == [f EXCEPT ![r].proof = p]

LEMMA WithProofFacts ==
    ASSUME NEW f, f \in ReinitsType, NEW r, r \in DOMAIN f, NEW p, p \in Proof,
           NEW g, g = WithProof(f, r, p)
    PROVE  /\ g \in ReinitsType /\ DOMAIN g = DOMAIN f
           /\ g[r].proof = p /\ g[r].onChainTurn = f[r].onChainTurn
           /\ \A x \in DOMAIN f : x # r => g[x] = f[x]
  <1>1. DOMAIN f \in SUBSET Reinit /\ f \in [DOMAIN f -> ReinitData] /\ f[r] \in ReinitData
    BY ReinitsFacts
  <1> DEFINE d == [f[r] EXCEPT !.proof = p]
  <1>2. d \in ReinitData /\ d.proof = p /\ d.onChainTurn = f[r].onChainTurn
    BY <1>1 DEF ReinitData
  <1>3. g = [f EXCEPT ![r] = d]
    BY DEF WithProof
  <1> HIDE DEF d
  <1>4. g \in [DOMAIN f -> ReinitData] /\ g[r] = d /\ \A x \in DOMAIN f : x # r => g[x] = f[x]
    BY <1>1, <1>2, <1>3
  <1> QED
    BY <1>1, <1>2, <1>4, MakeReinits

LEMMA SetProof ==
    ASSUME NEW f \in ReinitsType, NEW r \in DOMAIN f, NEW p \in Proof,
           NEW g, g = [f EXCEPT ![r].proof = p]
    PROVE  /\ g \in ReinitsType /\ DOMAIN g = DOMAIN f
           /\ g[r].proof = p /\ g[r].onChainTurn = f[r].onChainTurn
           /\ \A x \in DOMAIN f : x # r => g[x] = f[x]
  <1>1. DOMAIN f \in SUBSET Reinit /\ f \in [DOMAIN f -> ReinitData] /\ f[r] \in ReinitData
    BY ReinitsFacts
  <1> DEFINE d == [f[r] EXCEPT !.proof = p]
  <1>2. d \in ReinitData /\ d.proof = p /\ d.onChainTurn = f[r].onChainTurn
    BY <1>1 DEF ReinitData
  <1>3. g = [f EXCEPT ![r] = d]
    OBVIOUS
  <1> HIDE DEF d
  <1>4. g \in [DOMAIN f -> ReinitData] /\ g[r] = d /\ \A x \in DOMAIN f : x # r => g[x] = f[x]
    BY <1>1, <1>2, <1>3
  <1> QED
    BY <1>1, <1>2, <1>4, MakeReinits

\* A fresher valid proof of which our signatures are ours takes the place of
\* the known one; at the same time something may have been signed.
LEMMA NewProof ==
    ASSUME NEW m, ManagerOK(m), NEW r \in DOMAIN m.reinits, r # CreateReinit,
           NEW p \in Proof, IsFresher(m, r, p),
           NEW S \in SUBSET [reinit : Reinit, data : Board], m.signed \subseteq S, Honest(S, p),
           NEW n \in Manager, n.reinits = [m.reinits EXCEPT ![r].proof = p],
           n.signed = S, n.queue = m.queue, n.size = m.size,
           n.reinitId = m.reinitId, n.exists = m.exists, n.fatal = m.fatal,
           n.dispute = m.dispute, n.pool = m.pool
    PROVE  ManagerOK(n) /\ Grows(m, n) /\ DOMAIN n.reinits = DOMAIN m.reinits
  <1>1. /\ m \in Manager /\ ReinitsOK(m) /\ PoolOK(m) /\ StateOK(m) /\ FatalOK(m)
    BY DEF ManagerOK
  <1>2. /\ m.reinits \in ReinitsType
        /\ \A x \in DOMAIN m.reinits :
             /\ m.reinits[x].onChainTurn \in Nat /\ ProofCount(m.reinits[x].proof) \in Nat
    BY <1>1, ManagerFacts
  <1>3. /\ DOMAIN n.reinits = DOMAIN m.reinits
        /\ n.reinits[r].proof = p /\ n.reinits[r].onChainTurn = m.reinits[r].onChainTurn
        /\ \A x \in DOMAIN m.reinits : x # r => n.reinits[x] = m.reinits[x]
    BY <1>2, SetProof
  <1>4. /\ VerifyStateProof(r, p) /\ ProofCount(p) > ProofCount(m.reinits[r].proof)
        /\ ProofCount(p) \in Nat
    BY PathFacts DEF IsFresher, KnownCount
  <1>5. ASSUME NEW x \in DOMAIN m.reinits
        PROVE  /\ Known(n.signed, x, n.reinits[x].proof)
               /\ n.reinits[x].onChainTurn <= ProofCount(n.reinits[x].proof)
               /\ ProofCount(n.reinits[x].proof) >= ProofCount(m.reinits[x].proof)
    <2>1. /\ Known(m.signed, x, m.reinits[x].proof)
          /\ m.reinits[x].onChainTurn <= ProofCount(m.reinits[x].proof)
      BY <1>1 DEF ReinitsOK
    <2>2. CASE x = r
      <3>1. Known(n.signed, r, p)
        BY <1>4 DEF Known
      <3> DEFINE c == ProofCount(m.reinits[r].proof)
                 d == m.reinits[r].onChainTurn
                 e == ProofCount(p)
      <3>2. c \in Nat /\ d \in Nat /\ e \in Nat /\ e > c /\ d <= c
        BY <1>2, <1>4, <2>1, <2>2
      <3> HIDE DEF c, d, e
      <3>3. d <= e /\ e >= c
        BY <3>2
      <3> QED  BY <2>2, <1>3, <3>1, <3>3 DEF c, d, e
    <2>3. CASE x # r
      BY <2>1, <2>3, <1>2, <1>3, KnownMonotone
    <2> QED  BY <2>2, <2>3
  <1>6. ReinitsOK(n) /\ Grows(m, n)
    BY <1>3, <1>5 DEF ReinitsOK, Grows
  <1>7. StateOK(n) /\ FatalOK(n)
    BY <1>1, <1>3 DEF StateOK, FatalOK
  <1>8. PoolOK(n)
    BY <1>1, PoolMonotone
  <1> QED
    BY <1>3, <1>6, <1>7, <1>8, ManagerKeeps

LEMMA UpdateWithMoveOK ==
    ASSUME NEW m, ManagerOK(m), NEW r \in Reinit, r # CreateReinit,
           NEW p \in Proof, Honest(m.signed, p), NEW n, n = UpdateWithMove(m, r, p)
    PROVE  ManagerOK(n) /\ Grows(m, n) /\ SameRest(m, n)
  <1>1. m \in Manager
    BY DEF ManagerOK
  <1>2. CASE r \notin DOMAIN m.reinits
    <2>1. n = Insert(m, r, p)
      BY <1>2 DEF UpdateWithMove
    <2>2. ManagerOK(n) /\ SameButQueue(m, n)
      BY <2>1, InsertOK
    <2>3. n.signed = m.signed /\ n.reinits = m.reinits /\ SameRest(m, n)
      BY <2>2 DEF SameButQueue, SameRest
    <2> QED  BY <1>1, <2>2, <2>3, GrowsItself
  <1>3. CASE r \in DOMAIN m.reinits /\ IsFresher(m, r, p)
    <2> DEFINE f == [m.reinits EXCEPT ![r].proof = p]
    <2>1. n = [m EXCEPT !.reinits = f]
      BY <1>3 DEF UpdateWithMove
    <2>2. f \in ReinitsType
      BY <1>1, <1>3, ManagerFacts, SetProof
    <2> HIDE DEF f
    <2>3. n \in Manager
      BY <1>1, <2>1, <2>2 DEF Manager
    <2>4. /\ n.reinits = f /\ n.signed = m.signed /\ n.queue = m.queue /\ n.size = m.size
          /\ n.reinitId = m.reinitId /\ n.exists = m.exists /\ n.fatal = m.fatal
          /\ n.dispute = m.dispute /\ n.pool = m.pool /\ n.priv = m.priv
          /\ n.pendingPut = m.pendingPut /\ n.pendingDispute = m.pendingDispute
      BY <1>1, <2>1 DEF Manager
    <2>5. m.signed \in SUBSET [reinit : Reinit, data : Board]
      BY <1>1, ManagerFacts
    <2>6. ManagerOK(n) /\ Grows(m, n) /\ DOMAIN n.reinits = DOMAIN m.reinits
      BY <1>3, <2>3, <2>4, <2>5, NewProof DEF f
    <2> QED  BY <2>4, <2>6 DEF SameRest
  <1>4. CASE r \in DOMAIN m.reinits /\ ~IsFresher(m, r, p)
    <2>1. n = m
      BY <1>4 DEF UpdateWithMove
    <2> QED  BY <1>1, <2>1, GrowsItself DEF SameRest
  <1> QED
    BY <1>2, <1>3, <1>4

----------------------------------------------------------------------------
(* Local moves.                                                            *)

\* Neither a dispute nor what is pending differs.
SameMost(m, n) ==
    /\ DOMAIN n.reinits = DOMAIN m.reinits
    /\ n.reinitId = m.reinitId /\ n.exists = m.exists
    /\ n.dispute = m.dispute /\ n.pool = m.pool
    /\ n.pendingPut = m.pendingPut /\ n.pendingDispute = m.pendingDispute

LEMMA FatalKeeps ==
    ASSUME NEW m, ManagerOK(m), NEW w,
           w = "exists" \/ (w = "automove" /\ ~AutoMovesValid)
    PROVE  ManagerOK(Fatal(m, w)) /\ Grows(m, Fatal(m, w)) /\ SameMost(m, Fatal(m, w))
  <1>1. m \in Manager
    BY DEF ManagerOK
  <1>2. CASE m.fatal # ""
    <2>1. Fatal(m, w) = m
      BY <1>2 DEF Fatal
    <2> QED  BY <1>1, <2>1, GrowsItself DEF SameMost
  <1>3. CASE m.fatal = ""
    <2> DEFINE n == Fatal(m, w)
    <2>1. n = [m EXCEPT !.fatal = w]
      BY <1>3 DEF Fatal
    <2>2. w \in Checks
      BY DEF Checks
    <2> HIDE DEF n
    <2>3. n \in Manager
      BY <1>1, <2>1, <2>2 DEF Manager
    <2>4. /\ n.reinits = m.reinits /\ n.signed = m.signed /\ n.queue = m.queue
          /\ n.size = m.size /\ n.reinitId = m.reinitId /\ n.exists = m.exists
          /\ n.dispute = m.dispute /\ n.pool = m.pool /\ n.fatal = w
          /\ n.pendingPut = m.pendingPut /\ n.pendingDispute = m.pendingDispute
      BY <1>1, <2>1 DEF Manager
    <2>5. ReinitsOK(n) /\ PoolOK(n) /\ StateOK(n)
      BY <2>4 DEF ManagerOK, ReinitsOK, PoolOK, StateOK
    <2>6. FatalOK(n)
      BY <2>4 DEF FatalOK
    <2>7. ManagerOK(n)
      BY <2>3, <2>4, <2>5, <2>6, ManagerKeeps
    <2>8. Grows(m, n) /\ SameMost(m, n)
      BY <1>1, <2>4, GrowsItself DEF SameMost
    <2> QED  BY <2>7, <2>8 DEF n
  <1> QED
    BY <1>2, <1>3

LEMMA CurrentFacts ==
    ASSUME NEW m, ManagerOK(m), m.reinitId \in DOMAIN m.reinits
    PROVE  /\ m \in Manager /\ m.reinitId \in Reinit
           /\ GetStateProof(m) = m.reinits[m.reinitId].proof
           /\ Known(m.signed, m.reinitId, GetStateProof(m))
           /\ GetStateProof(m) \in Proof /\ Honest(m.signed, GetStateProof(m))
           /\ GetLatestState(m) = UnverifiedProofEndState(GetStateProof(m))
           /\ GetLatestState(m) \in Board /\ LatestCount(m) \in Nat
           /\ LatestCount(m) = ProofCount(GetStateProof(m))
           /\ GetOnChainTurnCount(m) \in Nat /\ GetOnChainTurnCount(m) <= LatestCount(m)
  <1>1. m \in Manager /\ ReinitsOK(m)
    BY DEF ManagerOK
  <1>2. m.reinitId \in Reinit
    BY <1>1, ManagerFacts
  <1>3. GetStateProof(m) = m.reinits[m.reinitId].proof
        /\ GetOnChainTurnCount(m) = m.reinits[m.reinitId].onChainTurn
    BY DEF GetStateProof, Current, GetOnChainTurnCount
  <1>4. Known(m.signed, m.reinitId, GetStateProof(m))
        /\ GetOnChainTurnCount(m) <= ProofCount(GetStateProof(m))
    BY <1>1, <1>3 DEF ReinitsOK
  <1>5. GetStateProof(m) \in Proof /\ Honest(m.signed, GetStateProof(m))
    BY <1>4 DEF Known
  <1>6. UnverifiedProofEndState(GetStateProof(m)) \in Board /\ ProofCount(GetStateProof(m)) \in Nat
    BY <1>5, PathFacts
  <1>7. GetOnChainTurnCount(m) \in Nat
    BY <1>1, <1>3, ManagerFacts
  <1> QED
    BY <1>1, <1>2, <1>3, <1>4, <1>5, <1>6, <1>7 DEF GetLatestState, LatestCount, ProofCount

\* It is our turn only in a channel that somebody has joined.
LEMMA OurTurn ==
    ASSUME NEW m, ManagerOK(m), m.reinitId \in DOMAIN m.reinits,
           WhoseTurn(GetLatestState(m)) = Me
    PROVE  m.reinitId # CreateReinit /\ Me \in Participants(m.reinitId)
  <1>1. m.reinitId # CreateReinit
    <2> SUFFICES ASSUME m.reinitId = CreateReinit PROVE FALSE
      OBVIOUS
    <2>1. GetStateProof(m) = StateProofFromReinit(CreateReinit)
      BY CurrentFacts DEF Known
    <2>2. GetLatestState(m) = ReinitState(CreateReinit)
      BY <2>1, CurrentFacts, FromReinit, ShipsAssumption
    <2>3. Me # NoTurn
      BY ShipsAssumption, BoardAssumption
    <2> QED  BY <2>2, <2>3, ShipsAssumption
  <1>2. m.reinitId \in Reinit
    BY CurrentFacts
  <1>3. Participants(m.reinitId) = {Creator, Joiner}
    BY <1>1, <1>2, ShipsAssumption
  <1> QED
    BY <1>1, <1>3, ShipsAssumption, ChannelAssumption

\* A move of ours is always taken: CHECK (rollingState.UpdateWithMove (...)).
LEMMA ApplyLocalMoveOK ==
    ASSUME NEW m, ManagerOK(m), NEW mv \in Move, NEW n \in ApplyLocalMove(m, mv)
    PROVE  ManagerOK(n) /\ Grows(m, n) /\ SameMost(m, n)
  <1>1. CASE ~m.exists
    <2>1. n = Fatal(m, "exists")
      BY <1>1 DEF ApplyLocalMove
    <2> QED  BY <2>1, FatalKeeps
  <1>2. CASE m.exists
    <2> DEFINE r == m.reinitId
               end == GetLatestState(m)
    <2>1. r \in DOMAIN m.reinits
      BY <1>2 DEF ManagerOK, StateOK
    <2>2. PICK p \in ExtendStateProof(Me, r, GetStateProof(m), mv) :
            n = IF UpdateIsChange(m, r, p)
                THEN [UpdateWithMove(m, r, p) EXCEPT !.signed =
                        @ \cup {[reinit |-> r, data |-> UnverifiedProofEndState(p)]}]
                ELSE Fatal(m, "no change")
      BY <1>2 DEF ApplyLocalMove
    <2>3. /\ m \in Manager /\ r \in Reinit /\ GetStateProof(m) \in Proof
          /\ Honest(m.signed, GetStateProof(m)) /\ VerifyStateProof(r, GetStateProof(m))
          /\ end = UnverifiedProofEndState(GetStateProof(m))
          /\ GetStateProof(m) = m.reinits[r].proof
      BY <2>1, CurrentFacts DEF Known
    <2> DEFINE x == [reinit |-> r, data |-> UnverifiedProofEndState(p)]
               S == m.signed \cup {x}
               f == [m.reinits EXCEPT ![r].proof = p]
               u == UpdateWithMove(m, r, p)
    <2> HIDE DEF r
    <2>4. /\ p \in Proof /\ WhoseTurn(end) = Me
          /\ UnverifiedProofEndState(p) \in Board
          /\ ProofCount(p) > ProofCount(GetStateProof(m)) /\ Honest(S, p)
      BY <2>2, <2>3, ExtendFacts, ShipsAssumption
    <2>5. r # CreateReinit /\ Me \in Participants(r)
      BY <2>1, <2>4, OurTurn DEF r
    <2>6. VerifyStateProof(r, p)
      BY <2>2, <2>3, <2>5, ExtendVerifies
    <2>7. IsFresher(m, r, p)
      BY <2>3, <2>4, <2>6 DEF IsFresher, KnownCount
    <2>8. UpdateIsChange(m, r, p)
      BY <2>1, <2>7 DEF UpdateIsChange, r
    <2>9. u = [m EXCEPT !.reinits = f]
      BY <2>1, <2>7 DEF UpdateWithMove, r
    <2>10. n = [u EXCEPT !.signed = u.signed \cup {x}]
      BY <2>2, <2>8
    <2>11. f \in ReinitsType
      BY <2>1, <2>3, <2>4, ManagerFacts, SetProof DEF r
    <2>12. S \in SUBSET [reinit : Reinit, data : Board] /\ m.signed \subseteq S
      BY <2>3, <2>4, ManagerFacts
    <2> HIDE DEF f, u, x
    <2>13. /\ u \in Manager /\ u.reinits = f /\ u.signed = m.signed /\ u.queue = m.queue
           /\ u.size = m.size /\ u.reinitId = m.reinitId /\ u.exists = m.exists
           /\ u.fatal = m.fatal /\ u.dispute = m.dispute /\ u.pool = m.pool
           /\ u.pendingPut = m.pendingPut /\ u.pendingDispute = m.pendingDispute
      BY <2>3, <2>9, <2>11 DEF Manager
    <2>14. n = [u EXCEPT !.signed = S]
      BY <2>10, <2>13
    <2> HIDE DEF S
    <2>15. /\ n \in Manager /\ n.reinits = f /\ n.signed = S /\ n.queue = m.queue
           /\ n.size = m.size /\ n.reinitId = m.reinitId /\ n.exists = m.exists
           /\ n.fatal = m.fatal /\ n.dispute = m.dispute /\ n.pool = m.pool
           /\ n.pendingPut = m.pendingPut /\ n.pendingDispute = m.pendingDispute
      BY <2>12, <2>13, <2>14 DEF Manager
    <2>16. ManagerOK(n) /\ Grows(m, n) /\ DOMAIN n.reinits = DOMAIN m.reinits
      <3>1. r \in DOMAIN m.reinits /\ n.reinits = [m.reinits EXCEPT ![r].proof = p]
        BY <2>1, <2>15 DEF f, r
      <3> QED  BY <2>4, <2>5, <2>7, <2>12, <2>15, <3>1, NewProof
    <2> QED
      BY <2>15, <2>16 DEF SameMost
  <1> QED
    BY <1>1, <1>2

LEMMA PrivKeeps ==
    ASSUME NEW m, ManagerOK(m), NEW v \in Priv, NEW n, n = [m EXCEPT !.priv = v]
    PROVE  /\ ManagerOK(n) /\ Grows(m, n) /\ SameMost(m, n)
           /\ n.reinits = m.reinits
  <1>1. m \in Manager /\ ReinitsOK(m) /\ PoolOK(m) /\ StateOK(m) /\ FatalOK(m)
    BY DEF ManagerOK
  <1>2. /\ n \in Manager /\ n.reinits = m.reinits /\ n.signed = m.signed /\ n.queue = m.queue
        /\ n.size = m.size /\ n.reinitId = m.reinitId /\ n.exists = m.exists
        /\ n.dispute = m.dispute /\ n.pool = m.pool /\ n.fatal = m.fatal
        /\ n.pendingPut = m.pendingPut /\ n.pendingDispute = m.pendingDispute
    BY <1>1 DEF Manager
  <1>3. ReinitsOK(n) /\ PoolOK(n) /\ StateOK(n) /\ FatalOK(n)
    BY <1>1, <1>2 DEF ReinitsOK, PoolOK, StateOK, FatalOK
  <1>4. ManagerOK(n)
    BY <1>2, <1>3, ManagerKeeps
  <1> QED
    BY <1>1, <1>2, <1>4, GrowsItself DEF SameMost

LEMMA AutoMoveOK ==
    ASSUME NEW m, ManagerOK(m), m.reinitId \in DOMAIN m.reinits, NEW rnd \in Rnd
    PROVE  /\ ManagerOK(AutoMove(m, rnd)) /\ Grows(m, AutoMove(m, rnd))
           /\ SameMost(m, AutoMove(m, rnd))
  <1> DEFINE end == GetLatestState(m)
             found == MaybeAutoMove(m.priv, end, rnd)
             mv == CHOOSE a \in found : TRUE
             o == [m EXCEPT !.priv = mv.priv]
             next == ApplyLocalMove(o, mv.move)
  <1>1. m \in Manager /\ end \in Board /\ m.priv \in Priv
    BY CurrentFacts, ManagerFacts
  <1>2. CASE m.fatal # "" \/ WhoseTurn(end) # Me \/ found = {}
    <2>1. AutoMove(m, rnd) = m
      BY <1>2 DEF AutoMove
    <2> QED  BY <1>1, <2>1, GrowsItself DEF SameMost
  <1>3. CASE m.fatal = "" /\ WhoseTurn(end) = Me /\ found # {}
    <2>1. AutoMove(m, rnd) = IF next = {} THEN Fatal(m, "automove")
                             ELSE CHOOSE n \in next : TRUE
      BY <1>3 DEF AutoMove
    <2>2. found \subseteq [move : Move, priv : Priv]
      BY <1>1, AutoMoveAssumption
    <2> HIDE DEF found
    <2>3. mv \in found
      BY <1>3
    <2> HIDE DEF mv
    <2>4. mv.move \in Move /\ mv.priv \in Priv
      BY <2>2, <2>3
    <2>5. ManagerOK(o) /\ Grows(m, o) /\ SameMost(m, o) /\ o.reinits = m.reinits
      BY <2>4, PrivKeeps
    <2> HIDE DEF o
    <2>6. CASE next # {}
      <3> HIDE DEF next
      <3> DEFINE n == CHOOSE k \in next : TRUE
      <3>1. n \in next
        BY <2>6
      <3> HIDE DEF n
      <3>2. ManagerOK(n) /\ Grows(o, n) /\ SameMost(o, n)
        BY <3>1, <2>4, <2>5, ApplyLocalMoveOK DEF next
      <3>3. o \in Manager /\ n \in Manager
        BY <2>5, <3>2 DEF ManagerOK
      <3>4. Grows(m, n) /\ SameMost(m, n)
        BY <1>1, <2>5, <3>2, <3>3, GrowsOn DEF SameMost
      <3>5. AutoMove(m, rnd) = n
        BY <2>1, <2>6 DEF n
      <3> QED  BY <3>2, <3>4, <3>5
    <2>7. CASE next = {}
      <3>1. o.exists
        <4> SUFFICES ASSUME ~o.exists PROVE FALSE
          OBVIOUS
        <4>1. next = {Fatal(o, "exists")}
          BY DEF ApplyLocalMove
        <4> HIDE DEF next
        <4> QED  BY <2>7, <4>1
      <3> DEFINE r == o.reinitId
                 E == ExtendStateProof(Me, r, GetStateProof(o), mv.move)
      <3>2. GetStateProof(o) = GetStateProof(m)
        BY <2>5 DEF SameMost, GetStateProof, Current
      <3>3. E = {}
        <4> SUFFICES ASSUME NEW p \in E PROVE FALSE
          OBVIOUS
        <4> DEFINE g(q) == IF UpdateIsChange(o, r, q)
                           THEN [UpdateWithMove(o, r, q) EXCEPT !.signed =
                              @ \cup {[reinit |-> r, data |-> UnverifiedProofEndState(q)]}]
                           ELSE Fatal(o, "no change")
        <4>1. next = {g(q) : q \in E}
          BY <3>1 DEF ApplyLocalMove
        <4> HIDE DEF g, E, next
        <4>2. g(p) \in next
          BY <4>1
        <4> QED  BY <2>7, <4>2
      <3>4. end = UnverifiedProofEndState(GetStateProof(o))
        BY <3>2, CurrentFacts
      <3>5. ApplyMove(end, mv.move) = NoBoard
        <4> DEFINE t == TrimTo(WithMove(Me, r, GetStateProof(o), mv.move),
                               MinimalStart(r, WithMove(Me, r, GetStateProof(o), mv.move)))
        <4> SUFFICES ASSUME ApplyMove(end, mv.move) # NoBoard PROVE FALSE
          OBVIOUS
        <4>1. E = {t}
          BY <1>3, <3>4 DEF ExtendStateProof
        <4> HIDE DEF t, E
        <4> QED  BY <3>3, <4>1
      <3>6. ~AutoMovesValid
        BY <1>1, <1>3, <2>3, <3>5 DEF AutoMovesValid, found
      <3>7. AutoMove(m, rnd) = Fatal(m, "automove")
        BY <2>1, <2>7
      <3> QED  BY <3>6, <3>7, FatalKeeps
    <2> QED  BY <2>6, <2>7
  <1> QED
    BY <1>2, <1>3

LEMMA ProcessAutoMovesOK ==
    ASSUME NEW m, ManagerOK(m), m.reinitId \in DOMAIN m.reinits, NEW rnd \in Rnd
    PROVE  /\ ManagerOK(ProcessAutoMoves(m, rnd)) /\ Grows(m, ProcessAutoMoves(m, rnd))
           /\ SameMost(m, ProcessAutoMoves(m, rnd))
  <1> DEFINE a == AutoMove(m, rnd)
             b == AutoMove(a, rnd)
  <1>1. ManagerOK(a) /\ Grows(m, a) /\ SameMost(m, a)
    BY AutoMoveOK
  <1> HIDE DEF a
  <1>2. a.reinitId \in DOMAIN a.reinits
    BY <1>1 DEF SameMost
  <1>3. ManagerOK(b) /\ Grows(a, b) /\ SameMost(a, b)
    BY <1>1, <1>2, AutoMoveOK
  <1> HIDE DEF b
  <1>4. m \in Manager /\ a \in Manager /\ b \in Manager
    BY <1>1, <1>3 DEF ManagerOK
  <1>5. Grows(m, b) /\ SameMost(m, b)
    BY <1>1, <1>3, <1>4, GrowsOn DEF SameMost
  <1> QED
    BY <1>3, <1>5 DEF ProcessAutoMoves, a, b

----------------------------------------------------------------------------
(* Sending transactions.                                                   *)

LEMMA TxFacts ==
    ASSUME NEW kind \in {"dispute", "resolution", "loss"}, NEW r \in Reinit \cup {NoReinit},
           NEW p \in Proof, NEW signed, Honest(signed, p), NEW fail \in BOOLEAN,
           NEW id, id = Txid(Tx(kind, r, p), fail)
    PROVE  id \in SUBSET AllTx /\ \A tx \in id : Honest(signed, tx.proof)
  <1> DEFINE tx == [kind |-> kind, by |-> Me, reinit |-> r, proof |-> p]
  <1>1. tx \in AllTx /\ tx.proof = p
    BY DEF AllTx
  <1>2. id \subseteq {tx}
    BY DEF Txid, Tx
  <1> HIDE DEF tx
  <1> QED
    BY <1>1, <1>2

SameKnown(m, n) ==
    /\ n.reinits = m.reinits /\ n.signed = m.signed /\ n.queue = m.queue /\ n.size = m.size
    /\ n.reinitId = m.reinitId /\ n.exists = m.exists /\ n.fatal = m.fatal

\* The transactions that the manager takes for pending.
Pending(m) == m.dispute.pendingResolution \cup m.pendingDispute \cup m.pendingPut

\* The channel and the dispute are still those found on chain, and whatever is
\* newly taken for pending is.
Quiet(m, n) ==
    /\ n.exists = m.exists /\ n.reinitId = m.reinitId
    /\ n.dispute.open = m.dispute.open /\ n.dispute.count = m.dispute.count
    /\ m.pool \subseteq n.pool /\ Pending(n) \subseteq Pending(m) \cup n.pool

Answered(m) == m.fatal = "" /\ CanResolve(m) => m.dispute.pendingResolution # {}

LEMMA SameMostQuiet ==
    ASSUME NEW m, NEW n, SameMost(m, n)
    PROVE  Quiet(m, n)
  BY DEF SameMost, Quiet, Pending

LEMMA QuietOn ==
    ASSUME NEW m, NEW n, NEW o, Quiet(m, n), Quiet(n, o)
    PROVE  Quiet(m, o)
  BY DEF Quiet

LEMMA SendKeeps ==
    ASSUME NEW m, ManagerOK(m), NEW id, \A tx \in id : Honest(m.signed, tx.proof),
           NEW n \in Manager, SameKnown(m, n), n.pool = m.pool \cup id,
           n.dispute.open <=> m.dispute.open, n.dispute.turn = m.dispute.turn
    PROVE  ManagerOK(n) /\ Grows(m, n)
  <1>1. m \in Manager /\ ReinitsOK(m) /\ PoolOK(m) /\ StateOK(m) /\ FatalOK(m)
    BY DEF ManagerOK
  <1>2. ReinitsOK(n) /\ StateOK(n) /\ FatalOK(n)
    BY <1>1 DEF SameKnown, ReinitsOK, StateOK, FatalOK
  <1>3. PoolOK(n)
    BY <1>1 DEF SameKnown, PoolOK
  <1>4. n.signed = m.signed /\ n.reinits = m.reinits /\ n.queue = m.queue /\ n.size = m.size
    BY DEF SameKnown
  <1> QED
    BY <1>1, <1>2, <1>3, <1>4, ManagerKeeps, GrowsItself

LEMMA TryResolveDisputeOK ==
    ASSUME NEW m, ManagerOK(m), m.reinitId \in DOMAIN m.reinits, NEW fail \in BOOLEAN,
           NEW n, n = TryResolveDispute(m, fail)
    PROVE  ManagerOK(n) /\ SameKnown(m, n) /\ Quiet(m, n) /\ (~fail => Answered(n))
  <1>1. CASE ~m.exists \/ ~m.dispute.open \/ m.dispute.pendingResolution # {} \/ ~CanResolve(m)
    <2>1. m.dispute.open => m.dispute.turn # NoTurn
      BY DEF ManagerOK, StateOK
    <2>2. n = m
      BY <1>1, <2>1 DEF TryResolveDispute
    <2> QED  BY <1>1, <2>2 DEF SameKnown, Quiet, Pending, Answered, CanResolve
  <1>2. CASE m.exists /\ m.dispute.open /\ m.dispute.pendingResolution = {} /\ CanResolve(m)
    <2> DEFINE p == GetStateProof(m)
               id == Txid(ResolutionTx(p), fail)
               d == [m.dispute EXCEPT !.pendingResolution = id]
    <2>1. m.dispute.turn # NoTurn
      BY <1>2 DEF ManagerOK, StateOK
    <2>2. n = [m EXCEPT !.dispute = d, !.pool = m.pool \cup id]
      BY <1>2, <2>1 DEF TryResolveDispute
    <2>3. m \in Manager /\ p \in Proof /\ Honest(m.signed, p)
      BY CurrentFacts
    <2> HIDE DEF p
    <2>4. id = Txid(Tx("resolution", NoReinit, p), fail)
      BY DEF ResolutionTx
    <2> HIDE DEF id
    <2>5. id \in SUBSET AllTx /\ \A tx \in id : Honest(m.signed, tx.proof)
      BY <2>3, <2>4, TxFacts
    <2>6. /\ d \in DisputeType /\ d.open = m.dispute.open /\ d.turn = m.dispute.turn
          /\ d.count = m.dispute.count /\ d.pendingResolution = id
      <3>1. m.dispute \in DisputeType
        BY <2>3, ManagerFacts
      <3> QED  BY <2>5, <3>1 DEF DisputeType
    <2> HIDE DEF d
    <2>7. n \in Manager
      BY <2>2, <2>3, <2>5, <2>6 DEF Manager
    <2>8. /\ SameKnown(m, n) /\ n.pool = m.pool \cup id /\ n.dispute = d
          /\ n.pendingPut = m.pendingPut /\ n.pendingDispute = m.pendingDispute
      BY <2>2, <2>3 DEF Manager, SameKnown
    <2>9. Quiet(m, n)
      BY <2>6, <2>8 DEF Quiet, Pending, SameKnown
    <2>10. ~fail => Answered(n)
      <3>1. ~fail => id # {}
        BY DEF id, Txid
      <3> QED  BY <2>6, <2>8, <3>1 DEF Answered
    <2> QED
      BY <2>5, <2>6, <2>7, <2>8, <2>9, <2>10, SendKeeps
  <1> QED
    BY <1>1, <1>2

LEMMA SameAnswered ==
    ASSUME NEW m, NEW n, n.fatal = m.fatal, n.exists = m.exists, n.dispute = m.dispute,
           m.exists => n.reinits[n.reinitId] = m.reinits[m.reinitId], Answered(m)
    PROVE  Answered(n)
  <1>1. m.exists => LatestCount(n) = LatestCount(m)
    BY DEF LatestCount, GetLatestState, GetStateProof, Current
  <1> QED
    BY <1>1 DEF Answered, CanResolve

LEMMA MaybeOnChainMoveOK ==
    ASSUME NEW m, ManagerOK(m), m.reinitId \in DOMAIN m.reinits, NEW fail \in BOOLEAN,
           NEW n, n = MaybeOnChainMove(m, fail)
    PROVE  ManagerOK(n) /\ SameKnown(m, n) /\ Quiet(m, n) /\ (Answered(m) => Answered(n))
  <1>1. CASE n = m
    BY <1>1 DEF SameKnown, Quiet, Pending
  <1>2. CASE n # m
    <2> DEFINE r == m.reinitId
               p == StateProofFromReinit(r)
               id == Txid(LossTx(r), fail)
    <2>1. n = [m EXCEPT !.txidClose = id, !.pool = m.pool \cup id]
      BY <1>2 DEF MaybeOnChainMove
    <2>2. m \in Manager /\ r \in Reinit
      BY CurrentFacts
    <2>3. p \in Proof /\ Honest(m.signed, p)
      BY <2>2, FromReinit
    <2>4. id = Txid(Tx("loss", r, p), fail)
      BY DEF LossTx
    <2> HIDE DEF id, r, p
    <2>5. id \in SUBSET AllTx /\ \A tx \in id : Honest(m.signed, tx.proof)
      BY <2>2, <2>3, <2>4, TxFacts
    <2>6. n \in Manager
      BY <2>1, <2>2, <2>5 DEF Manager
    <2>7. /\ SameKnown(m, n) /\ n.pool = m.pool \cup id /\ n.dispute = m.dispute
          /\ n.pendingPut = m.pendingPut /\ n.pendingDispute = m.pendingDispute
      BY <2>1, <2>2 DEF Manager, SameKnown
    <2>8. Quiet(m, n)
      BY <2>7 DEF Quiet, Pending, SameKnown
    <2>9. Answered(m) => Answered(n)
      BY <2>7, SameAnswered DEF SameKnown
    <2> QED
      BY <2>5, <2>6, <2>7, <2>8, <2>9, SendKeeps
  <1> QED
    BY <1>1, <1>2

LEMMA ReactOK ==
    ASSUME NEW m, ManagerOK(m), m.reinitId \in DOMAIN m.reinits, NEW fail \in BOOLEAN
    PROVE  /\ ManagerOK(React(m, fail)) /\ SameKnown(m, React(m, fail))
           /\ Quiet(m, React(m, fail)) /\ (~fail => Answered(React(m, fail)))
  <1>1. CASE m.fatal # ""
    BY <1>1 DEF React, SameKnown, Quiet, Pending, Answered
  <1>2. CASE m.fatal = ""
    <2> DEFINE a == TryResolveDispute(m, fail)
               b == MaybeOnChainMove(a, fail)
    <2>1. ManagerOK(a) /\ SameKnown(m, a) /\ Quiet(m, a) /\ (~fail => Answered(a))
      BY TryResolveDisputeOK
    <2> HIDE DEF a
    <2>2. a.reinitId \in DOMAIN a.reinits
      BY <2>1 DEF SameKnown
    <2>3. ManagerOK(b) /\ SameKnown(a, b) /\ Quiet(a, b) /\ (Answered(a) => Answered(b))
      BY <2>1, <2>2, MaybeOnChainMoveOK
    <2>4. React(m, fail) = b
      BY <1>2 DEF React, a
    <2> HIDE DEF b
    <2> QED
      BY <2>1, <2>3, <2>4, QuietOn DEF SameKnown
  <1> QED
    BY <1>1, <1>2

LEMMA ProcessStateUpdateOK ==
    ASSUME NEW m, ManagerOK(m), m.reinitId \in DOMAIN m.reinits,
           NEW rnd \in Rnd, NEW fail \in BOOLEAN, NEW n, n = ProcessStateUpdate(m, rnd, fail)
    PROVE  /\ ManagerOK(n) /\ Grows(m, n) /\ n.reinitId = m.reinitId /\ n.exists = m.exists
           /\ Quiet(m, n) /\ (~fail => Answered(n))
  <1> DEFINE a == ProcessAutoMoves(m, rnd)
  <1>1. ManagerOK(a) /\ Grows(m, a) /\ SameMost(m, a)
    BY ProcessAutoMovesOK
  <1>2. n = React(a, fail)
    BY DEF ProcessStateUpdate
  <1> HIDE DEF a
  <1>3. a.reinitId \in DOMAIN a.reinits
    BY <1>1 DEF SameMost
  <1>4. ManagerOK(n) /\ SameKnown(a, n) /\ Quiet(a, n) /\ (~fail => Answered(n))
    BY <1>1, <1>2, <1>3, ReactOK
  <1>5. Grows(m, n)
    BY <1>1, <1>4 DEF SameKnown, Grows
  <1>6. Quiet(m, n)
    BY <1>1, <1>4, SameMostQuiet, QuietOn
  <1> QED
    BY <1>1, <1>4, <1>5, <1>6 DEF SameKnown, SameMost

----------------------------------------------------------------------------
(* Updates from the chain.                                                 *)

\* The first of the best queued updates, which the code finds by applying them
\* one by one, exists.
LEMMA BestIndex ==
    ASSUME NEW n \in Nat, NEW good \in SUBSET (1 .. n), good # {}, NEW c \in [1 .. n -> Nat]
    PROVE  \E i \in good : \A j \in good : c[j] < c[i] \/ (c[j] = c[i] /\ i <= j)
  <1> DEFINE Bounded(k) == \E b \in Nat : \A i \in 1 .. k : c[i] <= b
             Bad == {k \in 0 .. n : ~Bounded(k)}
  <1>1. Bounded(n)
    <2> SUFFICES ASSUME ~Bounded(n) PROVE FALSE
      OBVIOUS
    <2>1. Bad # {} /\ Bad \in SUBSET Nat
      <3> HIDE DEF Bounded
      <3> QED  OBVIOUS
    <2>2. PICK k \in Bad : \A l \in Bad : k <= l
      <3> HIDE DEF Bad
      <3> QED  BY <2>1, LeastNumber
    <2>3. k \in 0 .. n /\ ~Bounded(k)
      BY <2>2
    <2>4. k # 0
      <3>1. Bounded(0)
        <4>1. \A i \in 1 .. 0 : c[i] <= 0
          OBVIOUS
        <4> QED  BY <4>1
      <3> QED  BY <2>3, <3>1
    <2>5. k - 1 \in 0 .. n /\ ~(k <= k - 1) /\ k \in 1 .. n
      BY <2>3, <2>4
    <2>6. Bounded(k - 1)
      <3> HIDE DEF Bounded
      <3> QED  BY <2>2, <2>5
    <2>7. PICK b \in Nat : \A i \in 1 .. (k - 1) : c[i] <= b
      BY <2>6
    <2>8. c[k] \in Nat
      BY <2>5
    <2>9. PICK d \in Nat : b <= d /\ c[k] <= d
      <3> DEFINE e == c[k]
      <3>1. e \in Nat
        BY <2>8
      <3> HIDE DEF e
      <3>2. b + e \in Nat /\ b <= b + e /\ e <= b + e
        BY <3>1
      <3> QED  BY <3>2 DEF e
    <2>10. ASSUME NEW i \in 1 .. k
           PROVE  c[i] <= d
      <3>1. CASE i = k
        BY <2>9, <3>1
      <3>2. CASE i # k
        <4>1. i \in 1 .. (k - 1) /\ i \in 1 .. n
          BY <2>3, <3>2
        <4>2. c[i] <= b /\ c[i] \in Nat
          BY <2>7, <4>1
        <4> QED  BY <2>9, <4>2
      <3> QED  BY <3>1, <3>2
    <2> QED
      BY <2>3, <2>10
  <1>2. PICK b \in Nat : \A i \in 1 .. n : c[i] <= b
    BY <1>1
  <1> DEFINE T == {c[i] : i \in good}
  <1>3. T # {} /\ T \in SUBSET (0 .. b)
    <2>1. ASSUME NEW i \in good
          PROVE  c[i] \in 0 .. b /\ c[i] \in Nat
      <3>1. i \in 1 .. n
        OBVIOUS
      <3>2. c[i] \in Nat /\ c[i] <= b
        BY <1>2, <3>1
      <3> QED  BY <3>2
    <2> QED  BY <2>1
  <1>4. PICK x \in T : \A y \in T : y <= x
    <2> HIDE DEF T
    <2> QED  BY <1>3, GreatestNumber
  <1> DEFINE U == {i \in good : c[i] = x}
  <1>5. U # {} /\ U \in SUBSET Nat
    <2>1. PICK i \in good : c[i] = x
      BY <1>4
    <2>2. good \subseteq Nat
      OBVIOUS
    <2> QED  BY <2>1, <2>2
  <1>6. PICK i \in U : \A j \in U : i <= j
    <2> HIDE DEF U
    <2> QED  BY <1>5, LeastNumber
  <1>7. i \in good /\ c[i] = x /\ x \in Nat
    BY <1>6
  <1>8. ASSUME NEW j \in good
        PROVE  c[j] < c[i] \/ (c[j] = c[i] /\ i <= j)
    <2>1. c[j] \in T /\ c[j] \in Nat
      OBVIOUS
    <2>2. c[j] <= x
      <3> HIDE DEF T
      <3> QED  BY <1>4, <2>1
    <2>3. CASE c[j] = x
      <3>1. j \in U
        BY <2>3
      <3>2. i <= j
        <4> HIDE DEF U
        <4> QED  BY <1>6, <3>1
      <3> QED  BY <1>7, <2>3, <3>2
    <2>4. CASE c[j] # x
      BY <1>7, <2>1, <2>2, <2>4
    <2> QED  BY <2>3, <2>4
  <1> QED
    BY <1>7, <1>8

LEMMA BestQueuedFacts ==
    ASSUME NEW w, NEW r \in Reinit, w.queue[r] \in Seq(Proof)
    PROVE  \/ BestQueued(w, r) = w.reinits[r].proof
           \/ \E i \in 1 .. Len(w.queue[r]) :
                BestQueued(w, r) = w.queue[r][i] /\ IsFresher(w, r, w.queue[r][i])
  <1> DEFINE q == w.queue[r]
             n == Len(q)
             good == {i \in 1 .. n : IsFresher(w, r, q[i])}
             First(i) == \A j \in good : \/ ProofCount(q[j]) < ProofCount(q[i])
                                         \/ ProofCount(q[j]) = ProofCount(q[i]) /\ i <= j
             c == [i \in 1 .. n |-> ProofCount(q[i])]
  <1>1. BestQueued(w, r) = IF good = {} THEN w.reinits[r].proof
                           ELSE q[CHOOSE i \in good : First(i)]
    BY DEF BestQueued
  <1>2. CASE good = {}
    BY <1>1, <1>2
  <1>3. CASE good # {}
    <2>1. n \in Nat /\ \A i \in 1 .. n : q[i] \in Proof
      BY LenProperties, ElementOfSeq
    <2>2. c \in [1 .. n -> Nat] /\ \A i \in 1 .. n : c[i] = ProofCount(q[i])
      BY <2>1, PathFacts
    <2>3. good \in SUBSET (1 .. n)
      OBVIOUS
    <2> HIDE DEF c, good, n
    <2>4. PICK i \in good : \A j \in good : c[j] < c[i] \/ (c[j] = c[i] /\ i <= j)
      BY <1>3, <2>1, <2>2, <2>3, BestIndex
    <2>5. First(i)
      BY <2>2, <2>3, <2>4
    <2> DEFINE k == CHOOSE x \in good : First(x)
    <2>6. k \in good
      <3> HIDE DEF First
      <3> QED  BY <2>5
    <2>7. BestQueued(w, r) = q[k]
      BY <1>1, <1>3
    <2> HIDE DEF k
    <2>8. k \in 1 .. n /\ IsFresher(w, r, q[k])
      BY <2>6 DEF good
    <2> QED
      BY <2>7, <2>8 DEF n
  <1> QED
    BY <1>2, <1>3

\* One reinitialisation gets a new entry, which is not staler than the last.
LEMMA NewEntry ==
    ASSUME NEW m, ManagerOK(m), NEW r \in Reinit, NEW d \in ReinitData,
           Known(m.signed, r, d.proof), d.onChainTurn <= ProofCount(d.proof),
           r \in DOMAIN m.reinits => ProofCount(d.proof) >= ProofCount(m.reinits[r].proof),
           NEW b \in Manager, b.signed = m.signed, b.pool = m.pool, b.fatal = m.fatal,
           b.dispute = m.dispute, b.reinitId = r, QueueOK(b), SizeOK(b),
           DOMAIN b.reinits = DOMAIN m.reinits \cup {r}, b.reinits[r] = d,
           \A x \in DOMAIN m.reinits : x # r => b.reinits[x] = m.reinits[x]
    PROVE  ManagerOK(b) /\ Grows(m, b)
  <1>1. m \in Manager /\ ReinitsOK(m) /\ PoolOK(m) /\ StateOK(m) /\ FatalOK(m)
    BY DEF ManagerOK
  <1>2. ReinitsOK(b)
    BY <1>1 DEF ReinitsOK
  <1>3. PoolOK(b) /\ StateOK(b) /\ FatalOK(b)
    BY <1>1 DEF PoolOK, StateOK, FatalOK
  <1>4. \A x \in DOMAIN m.reinits : ProofCount(m.reinits[x].proof) \in Nat
    BY <1>1, ManagerFacts
  <1>5. Grows(m, b)
    BY <1>4 DEF Grows
  <1> QED
    BY <1>2, <1>3, <1>5 DEF ManagerOK

\* a is m but for the current ID, the exists flag and what is pending.
SameRolling(m, a) ==
    /\ a.reinits = m.reinits /\ a.signed = m.signed /\ a.queue = m.queue /\ a.size = m.size
    /\ a.pool = m.pool /\ a.fatal = m.fatal /\ a.dispute = m.dispute

\* What UpdateOnChain and its parts establish.
UpdatedOnChain(m, a, r, p, b) ==
    /\ ManagerOK(b) /\ Grows(m, b) /\ b.reinitId = r /\ r \in DOMAIN b.reinits
    /\ b.exists = a.exists /\ b.dispute = a.dispute /\ b.pool = a.pool /\ b.fatal = a.fatal
    /\ ProofCount(b.reinits[r].proof) >= ProofCount(p)
    /\ b.pendingPut = a.pendingPut /\ b.pendingDispute = a.pendingDispute

LEMMA NewReinitOK ==
    ASSUME NEW m, ManagerOK(m), NEW a \in Manager, SameRolling(m, a),
           NEW r \in Reinit, a.reinitId = r, r \notin DOMAIN m.reinits,
           NEW p, Known(m.signed, r, p), NEW b, b = ApplyQueue(WithReinit(a, r, p), r)
    PROVE  UpdatedOnChain(m, a, r, p, b)
  <1> DEFINE w == WithReinit(a, r, p)
             D == DOMAIN m.reinits \cup {r}
             e == [proof |-> p, onChainTurn |-> ProofCount(p)]
             g == [q \in D |-> IF q = r THEN e ELSE m.reinits[q]]
             best == BestQueued(w, r)
             f == [g EXCEPT ![r].proof = best]
             x == [w EXCEPT !.reinits[r].proof = best]
             s == m.queue[r]
             k == m.size - Len(s)
  <1>1. m \in Manager /\ p \in Proof /\ ProofCount(p) \in Nat
    BY PathFacts DEF ManagerOK, Known
  <1>2. e \in ReinitData
    BY <1>1 DEF ReinitData
  <1>3. D \in SUBSET Reinit /\ \A q \in DOMAIN m.reinits : m.reinits[q] \in ReinitData
    BY <1>1, ManagerFacts
  <1>4. /\ g \in ReinitsType /\ DOMAIN g = D /\ g[r] = e
        /\ \A q \in DOMAIN m.reinits : g[q] = m.reinits[q]
    <2> HIDE DEF e
    <2>1. g \in [D -> ReinitData]
      BY <1>2, <1>3
    <2> QED  BY <1>3, <2>1, MakeReinits
  <1>5. w = [a EXCEPT !.reinits = g]
    BY DEF WithReinit, SameRolling
  <1>6. e.proof = p /\ e.onChainTurn = ProofCount(p)
    OBVIOUS
  <1> HIDE DEF w, g, e
  <1>7. /\ w \in Manager /\ w.reinits = g /\ w.signed = m.signed /\ w.queue = m.queue
        /\ w.size = m.size /\ w.pool = m.pool /\ w.fatal = m.fatal /\ w.dispute = m.dispute
        /\ w.reinitId = r /\ w.exists = a.exists
        /\ w.pendingPut = a.pendingPut /\ w.pendingDispute = a.pendingDispute
    BY <1>4, <1>5 DEF Manager, SameRolling
  <1>8. s \in Seq(Proof) /\ Len(s) \in Nat
        /\ \A i \in 1 .. Len(s) : s[i] \in Proof /\ Honest(m.signed, s[i])
    BY QueueEntries
  <1>9. best = p \/ \E i \in 1 .. Len(s) : best = s[i] /\ IsFresher(w, r, s[i])
    BY <1>4, <1>6, <1>7, <1>8, BestQueuedFacts
  <1>10. KnownCount(w, r) = ProofCount(p)
    BY <1>4, <1>6, <1>7 DEF KnownCount
  <1> HIDE DEF best
  <1>11. Known(m.signed, r, best) /\ ProofCount(best) \in Nat /\ ProofCount(best) >= ProofCount(p)
    <2>1. CASE best = p
      BY <1>1, <2>1
    <2>2. CASE best # p
      <3>1. PICK i \in 1 .. Len(s) : best = s[i] /\ IsFresher(w, r, s[i])
        BY <1>9, <2>2
      <3>2. r # CreateReinit
        <4> SUFFICES ASSUME r = CreateReinit PROVE FALSE
          OBVIOUS
        <4>1. s = <<>> /\ Len(s) = 0
          BY QueueEntries
        <4> QED  BY <4>1, <3>1
      <3>3. best \in Proof /\ Honest(m.signed, best)
        BY <1>8, <3>1
      <3>4. VerifyStateProof(r, best) /\ ProofCount(best) > ProofCount(p)
        BY <1>10, <3>1 DEF IsFresher
      <3>5. ProofCount(best) \in Nat
        BY <3>3, PathFacts
      <3> QED  BY <1>1, <3>2, <3>3, <3>4, <3>5 DEF Known
    <2> QED  BY <2>1, <2>2
  <1>12. best \in Proof
    BY <1>11 DEF Known
  <1>13. /\ f \in ReinitsType /\ DOMAIN f = D
         /\ f[r].proof = best /\ f[r].onChainTurn = ProofCount(p)
         /\ \A q \in DOMAIN m.reinits : q # r => f[q] = m.reinits[q]
    <2> HIDE DEF f
    <2>1. f = WithProof(g, r, best)
      BY DEF f, WithProof
    <2>3. g \in ReinitsType
      BY <1>4
    <2>4. r \in DOMAIN g
      BY <1>4
    <2>2. /\ f \in ReinitsType /\ DOMAIN f = DOMAIN g
          /\ f[r].proof = best /\ f[r].onChainTurn = g[r].onChainTurn
          /\ \A q \in DOMAIN g : q # r => f[q] = g[q]
      BY <1>12, <2>1, <2>3, <2>4, WithProofFacts
    <2> QED  BY <1>4, <1>6, <2>2
  <1>14. x = [w EXCEPT !.reinits = f]
    BY <1>7
  <1> HIDE DEF f, x
  <1>15. /\ x \in Manager /\ x.reinits = f /\ x.signed = m.signed /\ x.queue = m.queue
         /\ x.size = m.size /\ x.pool = m.pool /\ x.fatal = m.fatal /\ x.dispute = m.dispute
         /\ x.reinitId = r /\ x.exists = a.exists
         /\ x.pendingPut = a.pendingPut /\ x.pendingDispute = a.pendingDispute
    BY <1>7, <1>13, <1>14 DEF Manager
  <1> DEFINE q2 == [m.queue EXCEPT ![r] = <<>>]
  <1>16. b = WithQueue(x, q2, k)
    <2>1. b = ExtractQueue(x, r)
      BY DEF ApplyQueue, x, best, w
    <2>2. b = [x EXCEPT !.queue[r] = <<>>, !.size = x.size - Len(x.queue[r])]
      BY <2>1 DEF ExtractQueue
    <2> QED  BY <2>2, <1>15 DEF WithQueue
  <1>17. GoodQueue(m, q2, k)
    <2>1. <<>> \in Seq(Proof) /\ Len(<<>>) = 0
      OBVIOUS
    <2>2. m.size \in Int /\ m.size <= MaxSize /\ MaxSize \in Nat
      BY QueueEntries, QueueAssumption
    <2>3. k = m.size - Len(m.queue[r]) + Len(<<>>) /\ k <= MaxSize
      BY <1>8, <2>1, <2>2
    <2>4. \A i \in 1 .. Len(<<>>) : Honest(m.signed, <<>>[i])
      BY <2>1
    <2> HIDE DEF k
    <2> QED  BY <2>1, <2>3, <2>4, GoodChange
  <1> HIDE DEF q2, k
  <1>18. /\ b \in Manager /\ b.reinits = f /\ b.signed = m.signed /\ b.queue = q2
         /\ b.size = k /\ b.pool = m.pool /\ b.fatal = m.fatal /\ b.dispute = m.dispute
         /\ b.reinitId = r /\ b.exists = a.exists
         /\ b.pendingPut = a.pendingPut /\ b.pendingDispute = a.pendingDispute
    BY <1>15, <1>16, <1>17 DEF Manager, WithQueue, GoodQueue
  <1>19. QueueOK(b) /\ SizeOK(b)
    BY <1>17, <1>18 DEF QueueOK, SizeOK, GoodQueue
  <1>20. f[r] \in ReinitData /\ r \in D
    BY <1>13, ReinitsFacts
  <1>21. ManagerOK(b) /\ Grows(m, b)
    <2>1. /\ Known(m.signed, r, f[r].proof) /\ f[r].onChainTurn <= ProofCount(f[r].proof)
          /\ DOMAIN b.reinits = DOMAIN m.reinits \cup {r} /\ b.reinits[r] = f[r]
          /\ \A q \in DOMAIN m.reinits : q # r => b.reinits[q] = m.reinits[q]
      BY <1>1, <1>11, <1>13, <1>18
    <2> QED  BY <1>18, <1>19, <1>20, <2>1, NewEntry
  <1> QED
    BY <1>11, <1>13, <1>18, <1>20, <1>21 DEF SameRolling, UpdatedOnChain

LEMMA KnownReinitOK ==
    ASSUME NEW m, ManagerOK(m), NEW a \in Manager, SameRolling(m, a),
           NEW r \in Reinit, a.reinitId = r, r \in DOMAIN m.reinits,
           NEW p, Known(m.signed, r, p), NEW b, b = UpdateKnown(a, r, p)
    PROVE  UpdatedOnChain(m, a, r, p, b)
  <1> DEFINE c == ProofCount(p)
             old == m.reinits[r]
             t == IF c > old.onChainTurn THEN c ELSE old.onChainTurn
             q == IF c > ProofCount(old.proof) THEN p ELSE old.proof
             d == [proof |-> q, onChainTurn |-> t]
             f == [m.reinits EXCEPT ![r] = d]
  <1>1. m \in Manager /\ p \in Proof /\ c \in Nat
    BY PathFacts DEF ManagerOK, Known
  <1>2. /\ m.reinits \in [DOMAIN m.reinits -> ReinitData] /\ DOMAIN m.reinits \in SUBSET Reinit
        /\ old \in ReinitData /\ old.proof \in Proof /\ old.onChainTurn \in Nat
        /\ ProofCount(old.proof) \in Nat
    BY <1>1, ManagerFacts, ReinitsFacts
  <1>3. Known(m.signed, r, old.proof) /\ old.onChainTurn <= ProofCount(old.proof)
    BY DEF ManagerOK, ReinitsOK
  <1> HIDE DEF c
  <1>4. /\ q \in Proof /\ t \in Nat /\ Known(m.signed, r, q)
        /\ t <= ProofCount(q) /\ ProofCount(q) >= ProofCount(old.proof) /\ ProofCount(q) >= c
    <2> DEFINE z == ProofCount(old.proof)
               y == old.onChainTurn
    <2>1. z \in Nat /\ y \in Nat /\ y <= z /\ c \in Nat /\ c = ProofCount(p)
      BY <1>1, <1>2, <1>3 DEF c
    <2>2. CASE c > z
      <3>1. q = p
        BY <2>2
      <3> HIDE DEF z, y, q
      <3>2. ProofCount(q) = c /\ c >= z
        BY <2>1, <2>2, <3>1
      <3>3. t \in Nat /\ t <= c
        BY <2>1, <2>2 DEF y
      <3> QED  BY <1>1, <2>1, <3>1, <3>2, <3>3 DEF z
    <2>3. CASE ~(c > z)
      <3>1. q = old.proof
        BY <2>3
      <3>2. t \in Nat /\ t <= z /\ z >= c
        <4> HIDE DEF z, y
        <4> QED  BY <2>1, <2>3 DEF y
      <3> QED  BY <1>2, <1>3, <3>1, <3>2
    <2> QED  BY <2>2, <2>3
  <1>6. a.reinits = m.reinits
    BY DEF SameRolling
  <1>5. b = [a EXCEPT !.reinits[r] = d]
    BY <1>6 DEF UpdateKnown, c
  <1>7. b = [a EXCEPT !.reinits = f]
    <2> HIDE DEF d
    <2> QED  BY <1>5, <1>6
  <1> HIDE DEF q, t
  <1>8. d \in ReinitData /\ d.proof = q /\ d.onChainTurn = t
    BY <1>4 DEF ReinitData
  <1> HIDE DEF d
  <1>9. f \in [DOMAIN m.reinits -> ReinitData] /\ f[r] = d
        /\ \A x \in DOMAIN m.reinits : x # r => f[x] = m.reinits[x]
    BY <1>2, <1>8
  <1> HIDE DEF f
  <1>10. f \in ReinitsType /\ DOMAIN f = DOMAIN m.reinits \cup {r}
    BY <1>2, <1>9, MakeReinits
  <1>11. /\ b \in Manager /\ b.reinits = f /\ b.signed = m.signed /\ b.queue = m.queue
         /\ b.size = m.size /\ b.pool = m.pool /\ b.fatal = m.fatal /\ b.dispute = m.dispute
         /\ b.reinitId = r /\ b.exists = a.exists
         /\ b.pendingPut = a.pendingPut /\ b.pendingDispute = a.pendingDispute
    BY <1>7, <1>10 DEF Manager, SameRolling
  <1>12. QueueOK(b) /\ SizeOK(b)
    BY <1>11 DEF ManagerOK, QueueOK, SizeOK
  <1>13. ManagerOK(b) /\ Grows(m, b)
    BY <1>4, <1>8, <1>9, <1>10, <1>11, <1>12, NewEntry
  <1> QED
    BY <1>4, <1>8, <1>9, <1>10, <1>11, <1>13 DEF SameRolling, UpdatedOnChain, c

LEMMA UpdateOnChainOK ==
    ASSUME NEW m, ManagerOK(m), NEW a \in Manager, SameRolling(m, a),
           NEW r \in Reinit, NEW p, Known(m.signed, r, p),
           NEW b, b = UpdateOnChain(a, r, p)
    PROVE  UpdatedOnChain(m, a, r, p, b)
  <1> DEFINE c == [a EXCEPT !.reinitId = r]
  <1>1. /\ c \in Manager /\ SameRolling(m, c) /\ c.reinitId = r /\ c.exists = a.exists
        /\ c.dispute = a.dispute /\ c.pool = a.pool /\ c.fatal = a.fatal
        /\ c.pendingPut = a.pendingPut /\ c.pendingDispute = a.pendingDispute
    BY DEF Manager, SameRolling
  <1>2. VerifyStateProof(r, p) /\ a.reinits = m.reinits
    BY DEF Known, SameRolling
  <1>3. b = IF r \notin DOMAIN m.reinits THEN ApplyQueue(WithReinit(c, r, p), r)
            ELSE UpdateKnown(c, r, p)
    BY <1>2 DEF UpdateOnChain
  <1> HIDE DEF c
  <1>4. UpdatedOnChain(m, c, r, p, b)
    BY <1>1, <1>3, NewReinitOK, KnownReinitOK
  <1> QED
    BY <1>1, <1>4 DEF UpdatedOnChain

----------------------------------------------------------------------------
(* The calls.                                                              *)

\* What every call promises.
CallOK(m, n) == ManagerOK(n) /\ Grows(m, n)

\* What every call but those of the feeder promises on top of it.  A dispute is
\* answered if sending works.
Reaction(m, fail, n) == Quiet(m, n) /\ (~fail /\ Answered(m) => Answered(n))

LEMMA SameReaction ==
    ASSUME NEW m, NEW fail
    PROVE  Reaction(m, fail, m)
  BY DEF Reaction, Quiet

\* An update that is no change leaves the current state alone.
LEMMA NoChangeKeeps ==
    ASSUME NEW m, ManagerOK(m), NEW r \in Reinit, r # CreateReinit,
           NEW p \in Proof, Honest(m.signed, p), ~UpdateIsChange(m, r, p),
           NEW n, n = UpdateWithMove(m, r, p)
    PROVE  m.exists => n.reinits[n.reinitId] = m.reinits[m.reinitId]
  <1> SUFFICES ASSUME m.exists PROVE n.reinits[n.reinitId] = m.reinits[m.reinitId]
    OBVIOUS
  <1>1. m.reinitId \in DOMAIN m.reinits /\ m \in Manager
    BY DEF ManagerOK, StateOK
  <1>2. CASE r \notin DOMAIN m.reinits
    <2>1. n = Insert(m, r, p)
      BY <1>2 DEF UpdateWithMove
    <2>2. SameButQueue(m, n)
      BY <2>1, InsertOK
    <2> QED  BY <2>2 DEF SameButQueue
  <1>3. CASE r \in DOMAIN m.reinits /\ IsFresher(m, r, p)
    <2> DEFINE f == WithProof(m.reinits, r, p)
    <2>1. n = [m EXCEPT !.reinits = f]
      BY <1>3 DEF UpdateWithMove, WithProof
    <2>2. m.reinits \in ReinitsType
      BY <1>1, ManagerFacts
    <2>3. \A x \in DOMAIN m.reinits : x # r => f[x] = m.reinits[x]
      BY <1>3, <2>2, WithProofFacts
    <2> HIDE DEF f
    <2>4. n.reinits = f /\ n.reinitId = m.reinitId
      BY <1>1, <2>1 DEF Manager
    <2>5. m.reinitId # r
      BY <1>3 DEF UpdateIsChange
    <2> QED  BY <1>1, <2>3, <2>4, <2>5
  <1>4. CASE r \in DOMAIN m.reinits /\ ~IsFresher(m, r, p)
    BY <1>4 DEF UpdateWithMove
  <1> QED
    BY <1>2, <1>3, <1>4

LEMMA ProcessOffChainOK ==
    ASSUME NEW m, ManagerOK(m), NEW r \in Reinit, r # CreateReinit,
           NEW p \in Proof, Honest(m.signed, p), NEW rnd \in Rnd, NEW fail \in BOOLEAN,
           NEW n, n = ProcessOffChain(m, r, p, rnd, fail)
    PROVE  CallOK(m, n) /\ Reaction(m, fail, n)
  <1> DEFINE w == UpdateWithMove(m, r, p)
  <1>1. ManagerOK(w) /\ Grows(m, w) /\ SameRest(m, w)
    BY UpdateWithMoveOK
  <1>2. n = IF UpdateIsChange(m, r, p) THEN ProcessStateUpdate(w, rnd, fail) ELSE w
    BY DEF ProcessOffChain
  <1> HIDE DEF w
  <1>5. Quiet(m, w)
    BY <1>1 DEF SameRest, Quiet, Pending
  <1>3. CASE UpdateIsChange(m, r, p)
    <2>1. n = ProcessStateUpdate(w, rnd, fail)
      BY <1>2, <1>3
    <2>2. w.reinitId \in DOMAIN w.reinits
      BY <1>1, <1>3 DEF UpdateIsChange, SameRest
    <2>3. ManagerOK(n) /\ Grows(w, n) /\ Quiet(w, n) /\ (~fail => Answered(n))
      BY <1>1, <2>1, <2>2, ProcessStateUpdateOK
    <2>4. m \in Manager /\ w \in Manager /\ n \in Manager
      BY <1>1, <2>3 DEF ManagerOK
    <2>5. Quiet(m, n)
      BY <1>5, <2>3, QuietOn
    <2> QED  BY <1>1, <2>3, <2>4, <2>5, GrowsOn DEF CallOK, Reaction
  <1>4. CASE ~UpdateIsChange(m, r, p)
    <2>1. n = w
      BY <1>2, <1>4
    <2>2. m.exists => w.reinits[w.reinitId] = m.reinits[m.reinitId]
      BY <1>4, NoChangeKeeps DEF w
    <2>3. Answered(m) => Answered(w)
      BY <1>1, <2>2, SameAnswered DEF SameRest
    <2> QED  BY <1>1, <1>5, <2>1, <2>3 DEF CallOK, Reaction
  <1> QED
    BY <1>3, <1>4

LEMMA NonExistantOK ==
    ASSUME NEW m, ManagerOK(m), NEW n, n = ProcessOnChainNonExistant(m)
    PROVE  CallOK(m, n)
  <1>1. m \in Manager /\ ReinitsOK(m) /\ PoolOK(m) /\ StateOK(m) /\ FatalOK(m)
    BY DEF ManagerOK
  <1>2. /\ n \in Manager /\ n.reinits = m.reinits /\ n.signed = m.signed /\ n.queue = m.queue
        /\ n.size = m.size /\ n.pool = m.pool /\ n.fatal = m.fatal /\ n.dispute = m.dispute
        /\ n.exists = FALSE
    BY <1>1 DEF ProcessOnChainNonExistant, Manager
  <1>3. ReinitsOK(n) /\ PoolOK(n) /\ StateOK(n) /\ FatalOK(n)
    BY <1>1, <1>2 DEF ReinitsOK, PoolOK, StateOK, FatalOK
  <1> QED
    BY <1>1, <1>2, <1>3, ManagerKeeps, GrowsItself DEF CallOK

LEMMA DisputeFromOK ==
    ASSUME NEW m \in Manager, NEW p \in Proof, NEW disputed \in BOOLEAN,
           disputed => WhoseTurn(UnverifiedProofEndState(p)) # NoTurn,
           NEW d, d = DisputeFrom(m, p, disputed)
    PROVE  d \in DisputeType /\ (d.open => d.turn # NoTurn)
  <1>1. UnverifiedProofEndState(p) \in Board /\ ProofCount(p) \in Nat
    BY PathFacts
  <1>2. WhoseTurn(UnverifiedProofEndState(p)) \in Player \cup {NoTurn}
    BY <1>1, BoardAssumption
  <1>3. m.dispute.pendingResolution \in SUBSET AllTx
    BY ManagerFacts DEF DisputeType
  <1>4. ResetMinedTxid(m, m.dispute.pendingResolution) \in SUBSET AllTx
    BY <1>3 DEF ResetMinedTxid
  <1>5. CASE ~disputed
    BY <1>5 DEF DisputeFrom, NoDispute, DisputeType
  <1>6. CASE disputed
    BY <1>1, <1>2, <1>4, <1>6 DEF DisputeFrom, DisputeType
  <1> QED
    BY <1>5, <1>6

\* The manager is at r, not behind p, and knows of a dispute exactly if there
\* is one, of p; what it takes for pending is.
Synced(m, r, p, disputed) ==
    /\ m.exists /\ m.reinitId = r /\ LatestCount(m) >= ProofCount(p)
    /\ m.dispute.open <=> disputed
    /\ m.dispute.open => m.dispute.count = ProofCount(p)
    /\ Pending(m) \subseteq m.pool

LEMMA SyncedStays ==
    ASSUME NEW m, NEW n, ManagerOK(m), ManagerOK(n), Grows(m, n), Quiet(m, n),
           NEW r, NEW p, ProofCount(p) \in Nat, NEW disputed, Synced(m, r, p, disputed)
    PROVE  Synced(n, r, p, disputed)
  <1>1. n.exists /\ n.reinitId = m.reinitId
    BY DEF Quiet, Synced
  <1>2. m.reinitId \in DOMAIN m.reinits
    BY DEF Synced, ManagerOK, StateOK
  <1>3. n.reinitId \in DOMAIN n.reinits
    BY <1>1 DEF ManagerOK, StateOK
  <1>4. /\ LatestCount(m) \in Nat /\ LatestCount(m) = ProofCount(GetStateProof(m))
        /\ GetStateProof(m) = m.reinits[m.reinitId].proof
    BY <1>2, CurrentFacts
  <1>5. /\ LatestCount(n) \in Nat /\ LatestCount(n) = ProofCount(GetStateProof(n))
        /\ GetStateProof(n) = n.reinits[n.reinitId].proof
    BY <1>3, CurrentFacts
  <1>6. LatestCount(n) >= LatestCount(m)
    BY <1>1, <1>2, <1>4, <1>5 DEF Grows
  <1>7. LatestCount(n) >= ProofCount(p)
    BY <1>4, <1>5, <1>6 DEF Synced
  <1>8. Pending(n) \subseteq n.pool
    BY DEF Quiet, Synced
  <1> QED
    BY <1>1, <1>7, <1>8 DEF Quiet, Synced

LEMMA ProcessOnChainOK ==
    ASSUME NEW m, ManagerOK(m), NEW r \in Reinit, NEW p, Known(m.signed, r, p),
           NEW disputed \in BOOLEAN, disputed => WhoseTurn(UnverifiedProofEndState(p)) # NoTurn,
           NEW rnd \in Rnd, NEW fail \in BOOLEAN,
           NEW n, n = ProcessOnChain(m, r, p, disputed, rnd, fail)
    PROVE  /\ CallOK(m, n)
           /\ m.fatal = "" => Synced(n, r, p, disputed) /\ (~fail => Answered(n))
  <1> DEFINE put == ResetMinedTxid(m, m.pendingPut)
             dsp == ResetMinedTxid(m, m.pendingDispute)
             a == [m EXCEPT !.exists = TRUE, !.pendingPut = put, !.pendingDispute = dsp]
             b == UpdateOnChain(a, r, p)
             d == DisputeFrom(b, p, disputed)
             c == [b EXCEPT !.dispute = d]
  <1>1. m \in Manager /\ p \in Proof
    BY DEF ManagerOK, Known
  <1>2. n = IF b.fatal # "" THEN b ELSE ProcessStateUpdate(c, rnd, fail)
    BY DEF ProcessOnChain
  <1>3. /\ put \in SUBSET AllTx /\ dsp \in SUBSET AllTx
        /\ put \subseteq m.pool /\ dsp \subseteq m.pool
    BY <1>1 DEF ResetMinedTxid, IsPending, Manager
  <1> HIDE DEF put, dsp
  <1>4. /\ a \in Manager /\ SameRolling(m, a) /\ a.exists = TRUE
        /\ a.pendingPut = put /\ a.pendingDispute = dsp
    BY <1>1, <1>3 DEF Manager, SameRolling
  <1> HIDE DEF a
  <1>5. UpdatedOnChain(m, a, r, p, b)
    BY <1>4, UpdateOnChainOK
  <1>6. ManagerOK(b) /\ Grows(m, b) /\ b.reinitId = r /\ r \in DOMAIN b.reinits
    BY <1>5 DEF UpdatedOnChain
  <1>7. b \in Manager
    BY <1>6 DEF ManagerOK
  <1>13. /\ b.exists = TRUE /\ b.fatal = m.fatal /\ b.pool = m.pool
         /\ b.pendingPut \subseteq b.pool /\ b.pendingDispute \subseteq b.pool
         /\ ProofCount(b.reinits[r].proof) >= ProofCount(p)
    BY <1>3, <1>4, <1>5 DEF UpdatedOnChain, SameRolling
  <1> HIDE DEF b
  <1>8. d \in DisputeType /\ (d.open => d.turn # NoTurn)
    BY <1>1, <1>7, DisputeFromOK
  <1>14. /\ d.open <=> disputed
         /\ d.open => d.count = ProofCount(p)
         /\ d.pendingResolution \subseteq b.pool
    BY DEF DisputeFrom, NoDispute, ResetMinedTxid, IsPending
  <1> HIDE DEF d
  <1>9. /\ c \in Manager /\ c.reinits = b.reinits /\ c.signed = b.signed /\ c.queue = b.queue
        /\ c.size = b.size /\ c.pool = b.pool /\ c.fatal = b.fatal /\ c.dispute = d
        /\ c.reinitId = r /\ c.exists = b.exists
        /\ c.pendingPut = b.pendingPut /\ c.pendingDispute = b.pendingDispute
    BY <1>6, <1>7, <1>8 DEF Manager
  <1> HIDE DEF c
  <1>10. ManagerOK(c) /\ Grows(b, c)
    <2>1. ReinitsOK(b) /\ PoolOK(b) /\ FatalOK(b)
      BY <1>6 DEF ManagerOK
    <2>2. ReinitsOK(c) /\ PoolOK(c) /\ FatalOK(c)
      BY <1>9, <2>1 DEF ReinitsOK, PoolOK, FatalOK
    <2>3. StateOK(c)
      BY <1>6, <1>8, <1>9 DEF StateOK
    <2> QED  BY <1>6, <1>7, <1>9, <2>2, <2>3, ManagerKeeps, GrowsItself
  <1>15. Synced(c, r, p, disputed)
    <2>1. c.reinitId \in DOMAIN c.reinits
      BY <1>6, <1>9
    <2>2. LatestCount(c) = ProofCount(c.reinits[r].proof)
      BY <1>9, <1>10, <2>1, CurrentFacts
    <2> QED  BY <1>9, <1>13, <1>14, <2>2 DEF Synced, Pending
  <1>11. CASE b.fatal # ""
    BY <1>2, <1>6, <1>11, <1>13 DEF CallOK
  <1>12. CASE b.fatal = ""
    <2>1. n = ProcessStateUpdate(c, rnd, fail)
      BY <1>2, <1>12
    <2>2. c.reinitId \in DOMAIN c.reinits
      BY <1>6, <1>9
    <2>3. ManagerOK(n) /\ Grows(c, n) /\ Quiet(c, n) /\ (~fail => Answered(n))
      BY <1>10, <2>1, <2>2, ProcessStateUpdateOK
    <2>4. n \in Manager
      BY <2>3 DEF ManagerOK
    <2>5. Grows(b, n)
      BY <1>7, <1>9, <1>10, <2>3, <2>4, GrowsOn
    <2>6. Synced(n, r, p, disputed)
      BY <1>1, <1>10, <1>15, <2>3, SyncedStays, PathFacts
    <2> QED  BY <1>1, <1>6, <1>7, <2>3, <2>4, <2>5, <2>6, GrowsOn DEF CallOK
  <1> QED
    BY <1>11, <1>12

LEMMA ProcessLocalMoveOK ==
    ASSUME NEW m, ManagerOK(m), NEW mv \in Move, NEW rnd \in Rnd, NEW fail \in BOOLEAN,
           NEW n, n = ProcessLocalMove(m, mv, rnd, fail)
    PROVE  CallOK(m, n) /\ Reaction(m, fail, n)
  <1>0. m \in Manager
    BY DEF ManagerOK
  <1> DEFINE next == ApplyLocalMove(m, mv)
             w == CHOOSE x \in next : TRUE
  <1>1. n = IF ~m.exists \/ next = {} THEN m ELSE ProcessStateUpdate(w, rnd, fail)
    BY DEF ProcessLocalMove
  <1>2. next # {} => w \in next
    OBVIOUS
  <1> HIDE DEF w
  <1>3. CASE ~m.exists \/ next = {}
    BY <1>0, <1>1, <1>3, GrowsItself, SameReaction DEF CallOK
  <1>4. CASE m.exists /\ next # {}
    <2>1. n = ProcessStateUpdate(w, rnd, fail)
      BY <1>1, <1>4
    <2>2. ManagerOK(w) /\ Grows(m, w) /\ SameMost(m, w)
      BY <1>2, <1>4, ApplyLocalMoveOK
    <2>3. w.reinitId \in DOMAIN w.reinits
      BY <1>4, <2>2 DEF ManagerOK, StateOK, SameMost
    <2>4. ManagerOK(n) /\ Grows(w, n) /\ Quiet(w, n) /\ (~fail => Answered(n))
      BY <2>1, <2>2, <2>3, ProcessStateUpdateOK
    <2>5. w \in Manager /\ n \in Manager
      BY <2>2, <2>4 DEF ManagerOK
    <2>6. Quiet(m, n)
      BY <2>2, <2>4, SameMostQuiet, QuietOn
    <2> QED  BY <1>0, <2>2, <2>4, <2>5, <2>6, GrowsOn DEF CallOK, Reaction
  <1> QED
    BY <1>3, <1>4

LEMMA TriggerAutoMovesOK ==
    ASSUME NEW m, ManagerOK(m), NEW rnd \in Rnd, NEW fail \in BOOLEAN,
           NEW n, n = TriggerAutoMoves(m, rnd, fail)
    PROVE  CallOK(m, n) /\ Reaction(m, fail, n)
  <1>0. m \in Manager
    BY DEF ManagerOK
  <1> DEFINE a == ProcessAutoMoves(m, rnd)
  <1>1. n = IF ~m.exists \/ a = m THEN m ELSE ProcessStateUpdate(a, rnd, fail)
    BY DEF TriggerAutoMoves
  <1>2. CASE ~m.exists \/ a = m
    BY <1>0, <1>1, <1>2, GrowsItself, SameReaction DEF CallOK
  <1>3. CASE m.exists /\ a # m
    <2>1. n = ProcessStateUpdate(a, rnd, fail)
      BY <1>1, <1>3
    <2>2. m.reinitId \in DOMAIN m.reinits
      BY <1>3 DEF ManagerOK, StateOK
    <2>3. ManagerOK(a) /\ Grows(m, a) /\ SameMost(m, a)
      BY <2>2, ProcessAutoMovesOK
    <2> HIDE DEF a
    <2>4. a.reinitId \in DOMAIN a.reinits
      BY <2>2, <2>3 DEF SameMost
    <2>5. ManagerOK(n) /\ Grows(a, n) /\ Quiet(a, n) /\ (~fail => Answered(n))
      BY <2>1, <2>3, <2>4, ProcessStateUpdateOK
    <2>6. a \in Manager /\ n \in Manager
      BY <2>3, <2>5 DEF ManagerOK
    <2>7. Quiet(m, n)
      BY <2>3, <2>5, SameMostQuiet, QuietOn
    <2> QED  BY <1>0, <2>3, <2>5, <2>6, <2>7, GrowsOn DEF CallOK, Reaction
  <1> QED
    BY <1>2, <1>3

LEMMA PutStateOnChainOK ==
    ASSUME NEW m, ManagerOK(m), NEW fail \in BOOLEAN, NEW n, n = PutStateOnChain(m, fail)
    PROVE  CallOK(m, n) /\ Reaction(m, fail, n)
  <1>0. m \in Manager
    BY DEF ManagerOK
  <1>1. CASE n = m
    BY <1>0, <1>1, GrowsItself, SameReaction DEF CallOK
  <1>2. CASE n # m
    <2> DEFINE p == GetStateProof(m)
               id == Txid(ResolutionTx(p), fail)
    <2>1. m.exists
      BY <1>2 DEF PutStateOnChain
    <2>2. m.reinitId \in DOMAIN m.reinits
      BY <2>1 DEF ManagerOK, StateOK
    <2>3. /\ LatestCount(m) \in Nat /\ GetOnChainTurnCount(m) \in Nat
          /\ GetOnChainTurnCount(m) <= LatestCount(m)
      BY <2>2, CurrentFacts
    <2>4. p \in Proof /\ Honest(m.signed, p)
      BY <2>2, CurrentFacts
    <2>9. ~(LatestCount(m) <= GetOnChainTurnCount(m))
      <3> SUFFICES ASSUME LatestCount(m) <= GetOnChainTurnCount(m)  PROVE FALSE
        OBVIOUS
      <3>1. LatestCount(m) = GetOnChainTurnCount(m)
        BY <2>3
      <3> QED  BY <1>2, <2>1, <3>1 DEF PutStateOnChain
    <2>5. n = [m EXCEPT !.pendingPut = id, !.pool = m.pool \cup id]
      BY <1>2, <2>1, <2>9 DEF PutStateOnChain
    <2>6. id = Txid(Tx("resolution", NoReinit, p), fail)
      BY DEF ResolutionTx
    <2> HIDE DEF p, id
    <2>7. id \in SUBSET AllTx /\ \A tx \in id : Honest(m.signed, tx.proof)
      BY <2>4, <2>6, TxFacts
    <2>8. n \in Manager
      BY <1>0, <2>5, <2>7 DEF Manager
    <2>10. /\ SameKnown(m, n) /\ n.pool = m.pool \cup id /\ n.dispute = m.dispute
          /\ n.pendingDispute = m.pendingDispute /\ n.pendingPut = id
      BY <1>0, <2>5 DEF Manager, SameKnown
    <2>11. Quiet(m, n)
      BY <2>10 DEF Quiet, Pending, SameKnown
    <2>12. Answered(m) => Answered(n)
      BY <2>10, SameAnswered DEF SameKnown
    <2> QED
      BY <2>7, <2>8, <2>10, <2>11, <2>12, SendKeeps DEF CallOK, Reaction
  <1> QED
    BY <1>1, <1>2

LEMMA FileDisputeOK ==
    ASSUME NEW m, ManagerOK(m), NEW fail \in BOOLEAN, NEW n, n = FileDispute(m, fail)
    PROVE  CallOK(m, n) /\ Reaction(m, fail, n)
  <1>0. m \in Manager
    BY DEF ManagerOK
  <1>1. CASE n = m
    BY <1>0, <1>1, GrowsItself, SameReaction DEF CallOK
  <1>2. CASE n # m
    <2> DEFINE p == GetStateProof(m)
               id == Txid(DisputeTx(p), fail)
    <2>1. m.exists
      BY <1>2 DEF FileDispute
    <2>2. m.reinitId \in DOMAIN m.reinits
      BY <2>1 DEF ManagerOK, StateOK
    <2>4. p \in Proof /\ Honest(m.signed, p)
      BY <2>2, CurrentFacts
    <2>5. n = [m EXCEPT !.pendingDispute = id, !.pool = m.pool \cup id]
      BY <1>2 DEF FileDispute
    <2>6. id = Txid(Tx("dispute", NoReinit, p), fail)
      BY DEF DisputeTx
    <2> HIDE DEF p, id
    <2>7. id \in SUBSET AllTx /\ \A tx \in id : Honest(m.signed, tx.proof)
      BY <2>4, <2>6, TxFacts
    <2>8. n \in Manager
      BY <1>0, <2>5, <2>7 DEF Manager
    <2>9. /\ SameKnown(m, n) /\ n.pool = m.pool \cup id /\ n.dispute = m.dispute
          /\ n.pendingPut = m.pendingPut /\ n.pendingDispute = id
      BY <1>0, <2>5 DEF Manager, SameKnown
    <2>11. Quiet(m, n)
      BY <2>9 DEF Quiet, Pending, SameKnown
    <2>12. Answered(m) => Answered(n)
      BY <2>9, SameAnswered DEF SameKnown
    <2> QED
      BY <2>7, <2>8, <2>9, <2>11, <2>12, SendKeeps DEF CallOK, Reaction
  <1> QED
    BY <1>1, <1>2

\* Mining and reorgs only change which transactions are pending.
LEMMA PoolChange ==
    ASSUME NEW m, ManagerOK(m), NEW pool \in SUBSET AllTx,
           \A tx \in pool : Honest(m.signed, tx.proof), NEW n, n = [m EXCEPT !.pool = pool]
    PROVE  CallOK(m, n) /\ n.signed = m.signed /\ n.pool = pool
  <1>1. m \in Manager /\ ReinitsOK(m) /\ StateOK(m) /\ FatalOK(m)
    BY DEF ManagerOK
  <1>2. /\ n \in Manager /\ n.reinits = m.reinits /\ n.signed = m.signed /\ n.queue = m.queue
        /\ n.size = m.size /\ n.pool = pool /\ n.fatal = m.fatal /\ n.dispute = m.dispute
        /\ n.exists = m.exists /\ n.reinitId = m.reinitId
    BY <1>1 DEF Manager
  <1>3. ReinitsOK(n) /\ PoolOK(n) /\ StateOK(n) /\ FatalOK(n)
    BY <1>1, <1>2 DEF ReinitsOK, PoolOK, StateOK, FatalOK
  <1> QED
    BY <1>1, <1>2, <1>3, ManagerKeeps, GrowsItself DEF CallOK

----------------------------------------------------------------------------
(* The chain.                                                              *)

\* A channel between two moves of a block: an overdue dispute may be open.
Unsettled == [status : {"none", "open", "closed"}, reinit : Reinit, proof : Proof,
              dispute : NoAge..DisputeBlocks, age : 0..TimeoutBlocks,
              winner : Player \cup {NoTurn}]

\* The chain takes only states that S, what we signed, allows, and disputes
\* only where somebody has to move.
StoredOK(S, on) ==
    /\ Known(S, on.reinit, on.proof)
    /\ on.dispute # NoAge => /\ on.status = "open"
                             /\ WhoseTurn(UnverifiedProofEndState(on.proof)) # NoTurn

MidOK(S, on) == on \in Unsettled /\ StoredOK(S, on)

OnOK(S, on) ==
    /\ on \in OnChain /\ StoredOK(S, on)
    /\ on.status = "open" /\ ~HasTwo(on) => on.age < TimeoutBlocks

\* A transaction that may be mined.
TxOK(S, tx) ==
    /\ tx.proof \in Proof /\ Honest(S, tx.proof)
    /\ tx.kind = "join" => tx.reinit \in Reinit \ {CreateReinit}

LEMMA HasTwoFacts ==
    ASSUME NEW on, on.reinit \in Reinit
    PROVE  HasTwo(on) <=> on.reinit # CreateReinit
  <1>1. CASE on.reinit = CreateReinit
    <2>1. Participants(on.reinit) = {Creator} /\ Cardinality({Creator}) = 1
      BY <1>1, ShipsAssumption, FS_Singleton
    <2>2. ~HasTwo(on)
      <3>1. Cardinality(Participants(on.reinit)) = 1
        BY <2>1
      <3> QED  BY <3>1 DEF HasTwo
    <2> QED  BY <1>1, <2>2
  <1>2. CASE on.reinit # CreateReinit
    <2>1. Participants(on.reinit) = {Creator, Joiner} /\ Creator # Joiner
      BY <1>2, ShipsAssumption
    <2>2. IsFiniteSet({Creator}) /\ Cardinality({Creator}) = 1
      BY FS_Singleton
    <2>3. Cardinality({Creator} \cup {Joiner}) = Cardinality({Creator}) + 1
      BY <2>1, <2>2, FS_AddElement
    <2>4. {Creator} \cup {Joiner} = {Creator, Joiner}
      OBVIOUS
    <2>5. Cardinality(Participants(on.reinit)) = 2
      BY <2>1, <2>2, <2>3, <2>4
    <2> QED  BY <1>2, <2>5 DEF HasTwo
  <1> QED
    BY <1>1, <1>2

LEMMA KnownStart ==
    ASSUME NEW r \in Reinit, NEW S
    PROVE  Known(S, r, StateProofFromReinit(r))
  BY FromReinit DEF Known

\* The entry of a channel in its first state, or without one.
Fresh(st, w) == [status |-> st, reinit |-> CreateReinit,
                 proof |-> StateProofFromReinit(CreateReinit),
                 dispute |-> NoAge, age |-> 0, winner |-> w]

LEMMA NoChannelOK ==
    ASSUME NEW S, NEW st \in {"none", "open", "closed"}, NEW w \in Player \cup {NoTurn},
           NEW on, on = Fresh(st, w)
    PROVE  MidOK(S, on) /\ on.dispute = NoAge /\ on.age = 0 /\ on.status = st
  <1> DEFINE p == StateProofFromReinit(CreateReinit)
  <1>1. CreateReinit \in Reinit /\ DisputeBlocks \in Nat /\ TimeoutBlocks \in Nat
    BY ShipsAssumption
  <1>2. p \in Proof /\ Known(S, CreateReinit, p)
    BY <1>1, FromReinit, KnownStart
  <1> DEFINE x == [status |-> st, reinit |-> CreateReinit, proof |-> p,
                   dispute |-> NoAge, age |-> 0, winner |-> w]
  <1>3. on = x
    BY DEF Fresh
  <1> HIDE DEF p
  <1>4. NoAge \in NoAge .. DisputeBlocks /\ 0 \in 0 .. TimeoutBlocks
    BY <1>1 DEF NoAge
  <1>5. /\ x.status = st /\ x.reinit = CreateReinit /\ x.proof = p /\ x.dispute = NoAge
        /\ x.age = 0
    OBVIOUS
  <1>6. x \in Unsettled
    BY <1>1, <1>2, <1>4 DEF Unsettled
  <1> HIDE DEF x
  <1>7. MidOK(S, x)
    BY <1>2, <1>5, <1>6 DEF MidOK, StoredOK
  <1> QED
    BY <1>3, <1>5, <1>7

LEMMA CloseIsFresh ==
    ASSUME NEW w, NEW on, on = Close(w)
    PROVE  on = Fresh("closed", w)
  <1> DEFINE p == StateProofFromReinit(CreateReinit)
             x == [status |-> "closed", reinit |-> CreateReinit, proof |-> p,
                   dispute |-> NoAge, age |-> 0, winner |-> w]
  <1>1. on = x
    BY DEF Close, NoChannel
  <1> QED
    BY <1>1 DEF Fresh

LEMMA CloseOK ==
    ASSUME NEW S, NEW w \in Player \cup {NoTurn}
    PROVE  MidOK(S, Close(w)) /\ Close(w).dispute = NoAge /\ Close(w).status = "closed"
  <1>1. Close(w) = Fresh("closed", w)
    BY CloseIsFresh
  <1> QED
    BY <1>1, NoChannelOK

LEMMA OtherPlayer ==
    ASSUME NEW pl
    PROVE  Other(pl) \in Player
  BY ShipsAssumption DEF Other

\* A new proof, with or without a dispute, is stored.
LEMMA StoreOK ==
    ASSUME NEW S, NEW on, MidOK(S, on), on.status = "open",
           NEW p, Known(S, on.reinit, p), NEW d \in {NoAge, 0},
           d # NoAge => WhoseTurn(UnverifiedProofEndState(p)) # NoTurn,
           NEW new, new = [on EXCEPT !.dispute = d, !.proof = p]
    PROVE  MidOK(S, CloseIfWon(new))
  <1>1. on \in Unsettled /\ p \in Proof /\ DisputeBlocks \in Nat
    BY ShipsAssumption DEF MidOK, Known
  <1>2. d \in NoAge .. DisputeBlocks
    BY <1>1 DEF NoAge
  <1>3. /\ new \in Unsettled /\ new.proof = p /\ new.dispute = d
        /\ new.reinit = on.reinit /\ new.status = "open" /\ new.reinit \in Reinit
    BY <1>1, <1>2 DEF Unsettled
  <1> DEFINE w == Winner(UnverifiedProofEndState(new.proof))
             q == StateProofFromReinit(new.reinit)
             c == [new EXCEPT !.proof = q]
  <1>4. w \in Player \cup {NoTurn}
    BY <1>1, <1>3, PathFacts, WinnerAssumption
  <1>5. MidOK(S, new)
    BY <1>3 DEF MidOK, StoredOK
  <1>6. CASE w # NoTurn
    <2>1. CloseIfWon(new) = Close(w)
      BY <1>6 DEF CloseIfWon
    <2> HIDE DEF w
    <2> QED  BY <1>4, <2>1, CloseOK
  <1>7. CASE w = NoTurn
    <2>1. CloseIfWon(new) = Save(new)
      BY <1>7 DEF CloseIfWon
    <2>2. CASE UnverifiedProofEndState(new.proof) # ReinitState(new.reinit)
      <3>1. CloseIfWon(new) = new
        BY <2>1, <2>2 DEF Save
      <3> QED  BY <1>5, <3>1
    <2>3. CASE UnverifiedProofEndState(new.proof) = ReinitState(new.reinit)
      <3>1. CloseIfWon(new) = c
        BY <2>1, <2>3 DEF Save
      <3>2. /\ q \in Proof /\ Known(S, new.reinit, q)
            /\ UnverifiedProofEndState(q) = ReinitState(new.reinit)
        BY <1>3, FromReinit, KnownStart
      <3> HIDE DEF q
      <3>3. /\ c \in Unsettled /\ c.proof = q /\ c.dispute = d
            /\ c.reinit = new.reinit /\ c.status = "open"
        BY <1>3, <3>2 DEF Unsettled
      <3> HIDE DEF c
      <3>4. MidOK(S, c)
        BY <1>3, <2>3, <3>2, <3>3 DEF MidOK, StoredOK
      <3> QED  BY <3>1, <3>4
    <2> QED  BY <2>2, <2>3
  <1> QED
    BY <1>6, <1>7

LEMMA DisputeResolutionOK ==
    ASSUME NEW S, NEW on, MidOK(S, on), on.status = "open", NEW tx, TxOK(S, tx)
    PROVE  MidOK(S, HandleDisputeResolution(on, tx))
  <1> DEFINE p == tx.proof
             q == IF ProofCount(p) > ProofCount(on.proof) THEN p ELSE on.proof
  <1>1. on \in Unsettled /\ on.reinit \in Reinit /\ on.proof \in Proof
    BY DEF MidOK, Unsettled
  <1>2. p \in Proof /\ Honest(S, p) /\ Known(S, on.reinit, on.proof)
    BY DEF TxOK, MidOK, StoredOK
  <1>3. ProofCount(p) \in Nat /\ ProofCount(on.proof) \in Nat
    BY <1>1, <1>2, PathFacts
  <1>4. CASE ~HasTwo(on)
    BY <1>4 DEF HandleDisputeResolution
  <1>5. CASE HasTwo(on) /\ tx.kind = "dispute" /\ DisputeIsValid(on, p)
    <2>1. HandleDisputeResolution(on, tx) = CloseIfWon(ProcessDispute(on, p))
      BY <1>5 DEF HandleDisputeResolution
    <2>2. ProcessDispute(on, p) = [on EXCEPT !.dispute = 0, !.proof = q]
      BY DEF ProcessDispute
    <2>3. on.reinit # CreateReinit
      BY <1>1, <1>5, HasTwoFacts
    <2>4. Known(S, on.reinit, p)
      BY <1>2, <1>5, <2>3 DEF Known, DisputeIsValid
    <2>5. Known(S, on.reinit, q)
      BY <1>2, <2>4
    <2>6. WhoseTurn(UnverifiedProofEndState(q)) # NoTurn
      <3>1. CASE ProofCount(p) > ProofCount(on.proof)
        BY <1>5, <3>1 DEF DisputeIsValid
      <3>2. CASE ~(ProofCount(p) > ProofCount(on.proof))
        BY <1>5, <3>2 DEF DisputeIsValid
      <3> QED  BY <3>1, <3>2
    <2> HIDE DEF q, p
    <2>7. MidOK(S, CloseIfWon(ProcessDispute(on, p)))
      BY <2>2, <2>5, <2>6, StoreOK
    <2> QED  BY <2>1, <2>7
  <1>6. CASE HasTwo(on) /\ tx.kind = "resolution" /\ ResolutionIsValid(on, p)
    <2>1. HandleDisputeResolution(on, tx) = CloseIfWon(ProcessResolution(on, p))
      BY <1>6 DEF HandleDisputeResolution
    <2>2. ProcessResolution(on, p) = [on EXCEPT !.dispute = NoAge, !.proof = p]
      BY <1>1 DEF ProcessResolution, Unsettled
    <2>3. on.reinit # CreateReinit
      BY <1>1, <1>6, HasTwoFacts
    <2>4. Known(S, on.reinit, p)
      BY <1>2, <1>6, <2>3 DEF Known, ResolutionIsValid
    <2> HIDE DEF p
    <2>5. MidOK(S, CloseIfWon(ProcessResolution(on, p)))
      BY <2>2, <2>4, StoreOK
    <2> QED  BY <2>1, <2>5
  <1>7. CASE /\ ~(tx.kind = "dispute" /\ DisputeIsValid(on, p))
             /\ ~(tx.kind = "resolution" /\ ResolutionIsValid(on, p))
    BY <1>7 DEF HandleDisputeResolution
  <1> QED
    BY <1>4, <1>5, <1>6, <1>7

LEMMA JoinOK ==
    ASSUME NEW S, NEW on, MidOK(S, on), NEW tx, TxOK(S, tx), tx.kind = "join"
    PROVE  MidOK(S, HandleJoinChannel(on, tx))
  <1>1. CASE HasTwo(on) \/ tx.by = Creator
    BY <1>1 DEF HandleJoinChannel
  <1>2. CASE ~HasTwo(on) /\ tx.by # Creator
    <2> DEFINE r == tx.reinit
               p == StateProofFromReinit(r)
               c == [on EXCEPT !.reinit = r, !.proof = p]
    <2>1. HandleJoinChannel(on, tx) = c
      BY <1>2 DEF HandleJoinChannel
    <2>2. r \in Reinit
      BY DEF TxOK
    <2>3. p \in Proof /\ Known(S, r, p)
      BY <2>2, FromReinit, KnownStart
    <2>4. on \in Unsettled /\ on.reinit \in Reinit
      BY DEF MidOK, Unsettled
    <2>5. on.dispute = NoAge
      <3>1. on.reinit = CreateReinit
        BY <1>2, <2>4, HasTwoFacts
      <3>2. UnverifiedProofEndState(on.proof) = ReinitState(CreateReinit)
        BY <3>1, <2>4, FromReinit DEF MidOK, StoredOK, Known
      <3>3. WhoseTurn(UnverifiedProofEndState(on.proof)) = NoTurn
        BY <3>2, ShipsAssumption
      <3> QED  BY <3>3 DEF MidOK, StoredOK
    <2> HIDE DEF r, p
    <2>6. c \in Unsettled /\ c.reinit = r /\ c.proof = p /\ c.dispute = NoAge
      BY <2>2, <2>3, <2>4, <2>5 DEF Unsettled
    <2> HIDE DEF c
    <2>7. MidOK(S, c)
      BY <2>3, <2>6 DEF MidOK, StoredOK
    <2> QED  BY <2>1, <2>7
  <1> QED
    BY <1>1, <1>2

LEMMA HandleMoveOK ==
    ASSUME NEW S, NEW on, MidOK(S, on), NEW tx, TxOK(S, tx)
    PROVE  MidOK(S, HandleMove(on, tx))
  <1>1. CASE on.status # "open" /\ ~(tx.kind = "create" /\ on.status = "none")
    BY <1>1 DEF HandleMove
  <1>2. CASE on.status = "none" /\ tx.kind = "create"
    <2>1. HandleMove(on, tx) = [NoChannel EXCEPT !.status = "open"]
      BY <1>2 DEF HandleMove, HandleCreateChannel
    <2>2. HandleMove(on, tx) = Fresh("open", NoTurn)
      BY <2>1 DEF NoChannel, Fresh
    <2> QED  BY <2>2, NoChannelOK
  <1>3. CASE on.status = "open" /\ tx.kind = "join"
    <2>1. HandleMove(on, tx) = HandleJoinChannel(on, tx)
      BY <1>3 DEF HandleMove
    <2> QED  BY <1>3, <2>1, JoinOK
  <1>4. CASE on.status = "open" /\ tx.kind = "abort"
    <2>1. HandleMove(on, tx) = on \/ HandleMove(on, tx) = Close(NoTurn)
      BY <1>4 DEF HandleMove, HandleAbortChannel
    <2> QED  BY <2>1, CloseOK
  <1>5. CASE on.status = "open" /\ tx.kind = "loss"
    <2>1. HandleMove(on, tx) = on \/ HandleMove(on, tx) = Close(Other(tx.by))
      BY <1>5 DEF HandleMove, HandleDeclareLoss
    <2> QED  BY <2>1, CloseOK, OtherPlayer
  <1>6. CASE on.status = "open" /\ tx.kind \in {"dispute", "resolution"}
    <2>1. HandleMove(on, tx) = HandleDisputeResolution(on, tx)
      BY <1>6 DEF HandleMove
    <2> QED  BY <1>6, <2>1, DisputeResolutionOK
  <1>7. CASE /\ on.status = "open"
             /\ tx.kind \notin {"join", "abort", "loss", "dispute", "resolution"}
    <2>1. HandleMove(on, tx) = on
      BY <1>7 DEF HandleMove
    <2> QED  BY <2>1
  <1> QED
    BY <1>1, <1>2, <1>3, <1>4, <1>5, <1>6, <1>7

LEMMA OlderOK ==
    ASSUME NEW S, NEW on, OnOK(S, on)
    PROVE  MidOK(S, Older(on))
  <1> DEFINE d == IF on.dispute = NoAge THEN NoAge ELSE on.dispute + 1
             g == IF on.status = "open" /\ ~HasTwo(on) THEN on.age + 1 ELSE 0
             c == [on EXCEPT !.dispute = d, !.age = g]
  <1>1. Older(on) = c
    BY DEF Older
  <1>2. DisputeBlocks \in Nat \ {0} /\ TimeoutBlocks \in Nat \ {0}
    BY ShipsAssumption
  <1>3. on \in OnChain /\ on.dispute \in NoAge .. (DisputeBlocks - 1) /\ on.age \in 0 .. TimeoutBlocks
    BY DEF OnOK, OnChain
  <1>4. d \in NoAge .. DisputeBlocks /\ (d # NoAge => on.dispute # NoAge)
    BY <1>2, <1>3 DEF NoAge
  <1>5. g \in 0 .. TimeoutBlocks
    BY <1>2, <1>3 DEF OnOK
  <1> HIDE DEF d, g
  <1>6. /\ c \in Unsettled /\ c.dispute = d /\ c.proof = on.proof /\ c.reinit = on.reinit
        /\ c.status = on.status
    BY <1>3, <1>4, <1>5 DEF OnChain, Unsettled
  <1> HIDE DEF c
  <1>7. MidOK(S, c)
    BY <1>4, <1>6 DEF OnOK, MidOK, StoredOK
  <1> QED
    BY <1>1, <1>7

LEMMA EndOfBlockOK ==
    ASSUME NEW S, NEW on, MidOK(S, on)
    PROVE  OnOK(S, TimeOutChannels(ProcessExpiredDisputes(on)))
  <1> DEFINE e == ProcessExpiredDisputes(on)
  <1>1. DisputeBlocks \in Nat \ {0} /\ TimeoutBlocks \in Nat \ {0}
    BY ShipsAssumption
  <1>2. on \in Unsettled /\ on.dispute \in NoAge .. DisputeBlocks
    BY DEF MidOK, Unsettled
  <1>3. MidOK(S, e) /\ (e.dispute = NoAge \/ e.dispute < DisputeBlocks)
    <2>1. CASE on.status = "open" /\ on.dispute >= DisputeBlocks
      <3>1. e = Close(Other(WhoseTurn(UnverifiedProofEndState(on.proof))))
        BY <2>1 DEF ProcessExpiredDisputes
      <3> HIDE DEF e
      <3> QED  BY <3>1, CloseOK, OtherPlayer
    <2>2. CASE ~(on.status = "open" /\ on.dispute >= DisputeBlocks)
      <3>1. e = on
        BY <2>2 DEF ProcessExpiredDisputes
      <3>2. on.dispute # NoAge => on.status = "open"
        BY DEF MidOK, StoredOK
      <3>3. on.dispute = NoAge \/ on.dispute < DisputeBlocks
        BY <1>1, <1>2, <2>2, <3>2 DEF NoAge
      <3> QED  BY <3>1, <3>3
    <2> QED  BY <2>1, <2>2
  <1> HIDE DEF e
  <1> DEFINE t == TimeOutChannels(e)
  <1>4. /\ MidOK(S, t) /\ (t.dispute = NoAge \/ t.dispute < DisputeBlocks)
        /\ t.status = "open" /\ ~HasTwo(t) => ~(t.age >= TimeoutBlocks)
    <2>1. CASE e.status = "open" /\ ~HasTwo(e) /\ e.age >= TimeoutBlocks
      <3>1. t = Close(NoTurn)
        BY <2>1 DEF TimeOutChannels
      <3> HIDE DEF t
      <3> QED  BY <3>1, CloseOK
    <2>2. CASE ~(e.status = "open" /\ ~HasTwo(e) /\ e.age >= TimeoutBlocks)
      <3>1. t = e
        BY <2>2 DEF TimeOutChannels
      <3> QED  BY <1>3, <2>2, <3>1
    <2> QED  BY <2>1, <2>2
  <1> HIDE DEF t
  <1>5. t \in Unsettled /\ t.dispute \in NoAge .. DisputeBlocks /\ t.age \in 0 .. TimeoutBlocks
    BY <1>4 DEF MidOK, Unsettled
  <1>6. t.dispute \in NoAge .. (DisputeBlocks - 1)
    BY <1>1, <1>4, <1>5 DEF NoAge
  <1>7. t \in OnChain
    BY <1>5, <1>6 DEF Unsettled, OnChain
  <1>8. OnOK(S, t)
    BY <1>1, <1>4, <1>5, <1>7 DEF OnOK, MidOK
  <1> QED
    BY <1>8 DEF t, e

LEMMA UpdateStateOK ==
    ASSUME NEW S, NEW on, OnOK(S, on), NEW t1, TxOK(S, t1), NEW t2, TxOK(S, t2)
    PROVE  OnOK(S, UpdateState(on, t1, t2))
  <1> DEFINE a == Older(on)
             b == HandleMove(a, t1)
             c == HandleMove(b, t2)
  <1>1. MidOK(S, a)
    BY OlderOK
  <1> HIDE DEF a
  <1>2. MidOK(S, b)
    BY <1>1, HandleMoveOK
  <1> HIDE DEF b
  <1>3. MidOK(S, c)
    BY <1>2, HandleMoveOK
  <1> HIDE DEF c
  <1>4. OnOK(S, TimeOutChannels(ProcessExpiredDisputes(c)))
    BY <1>3, EndOfBlockOK
  <1> QED
    BY <1>4 DEF UpdateState, a, b, c

----------------------------------------------------------------------------
(* The inductive invariant.                                                *)

Block == [on : OnChain, txs : SUBSET AllTx]

UsedType == [requests : 0..MaxRequests, reorgs : 0..MaxReorgs, faults : 0..MaxFaults,
             timely : Timing]

FeedOK(S, f) ==
    f \in [seen : BOOLEAN, data : SUBSET OnChain] /\ \A on \in f.data : OnOK(S, on)

BlockOK(S, b) == b \in Block /\ OnOK(S, b.on) /\ \A tx \in b.txs : Honest(S, tx.proof)

ChainOK(S, c) == c \in Seq(Block) /\ c # <<>> /\ \A i \in 1 .. Len(c) : BlockOK(S, c[i])

IInv ==
    /\ ManagerOK(mgr) /\ FeedOK(mgr.signed, feed) /\ ChainOK(mgr.signed, chain)
    /\ used \in UsedType

LEMMA OnMonotone ==
    ASSUME NEW S, NEW T, S \subseteq T, NEW on, OnOK(S, on)
    PROVE  OnOK(T, on)
  BY KnownMonotone DEF OnOK, StoredOK

LEMMA FeedMonotone ==
    ASSUME NEW S, NEW T, S \subseteq T, NEW f, FeedOK(S, f)
    PROVE  FeedOK(T, f)
  BY OnMonotone DEF FeedOK

LEMMA ChainMonotone ==
    ASSUME NEW S, NEW T, S \subseteq T, NEW c, ChainOK(S, c)
    PROVE  ChainOK(T, c)
  <1> SUFFICES ASSUME NEW i \in 1 .. Len(c)  PROVE BlockOK(T, c[i])
    BY DEF ChainOK
  <1>1. BlockOK(S, c[i])
    BY DEF ChainOK
  <1> QED
    BY <1>1, OnMonotone, HonestMonotone DEF BlockOK

LEMMA EmptyManagerOK ==
    ASSUME NEW pool \in SUBSET AllTx, NEW S \in SUBSET [reinit : Reinit, data : Board],
           \A tx \in pool : Honest(S, tx.proof), NEW m, m = EmptyManager(InitialPriv, pool, S)
    PROVE  ManagerOK(m) /\ m.signed = S /\ m.pool = pool
  <1> DEFINE e == [r \in Reinit |-> <<>>]
             z == <<>>
  <1>1. e \in [Reinit -> Seq(Proof)] /\ \A r \in Reinit : e[r] = <<>> /\ Len(e[r]) = 0
    <2>1. <<>> \in Seq(Proof) /\ Len(<<>>) = 0
      OBVIOUS
    <2> QED  BY <2>1
  <1>2. z \in ReinitsType /\ DOMAIN z = {}
    <2>1. DOMAIN z = {} /\ z \in [{} -> ReinitData]
      OBVIOUS
    <2> QED  BY <2>1, MakeReinits
  <1>3. NoDispute \in DisputeType /\ ~NoDispute.open
    BY DEF NoDispute, DisputeType
  <1>4. InitialPriv \in Priv /\ "" \in Checks
    BY AutoMoveAssumption DEF Checks
  <1> DEFINE n == [reinits |-> z, reinitId |-> NoReinit, queue |-> e, size |-> 0, fatal |-> "",
                   exists |-> FALSE, dispute |-> NoDispute,
                   pendingPut |-> {}, pendingDispute |-> {}, txidClose |-> {},
                   priv |-> InitialPriv, pool |-> pool, signed |-> S]
  <1>5. m = n
    BY DEF EmptyManager
  <1>6. Cardinality(Places(e, Reinit)) = 0
    <2>1. CreateReinit \in Reinit
      BY ShipsAssumption
    <2> HIDE DEF e
    <2>2. Cardinality(Places(e, Reinit)) = Len(e[CreateReinit])
      BY <1>1, <2>1, PlacesOfFew
    <2> QED  BY <1>1, <2>1, <2>2
  <1> HIDE DEF e, z
  <1>7. /\ n.reinits = z /\ n.queue = e /\ n.size = 0 /\ n.fatal = "" /\ n.exists = FALSE
        /\ n.dispute = NoDispute /\ n.pool = pool /\ n.signed = S
    OBVIOUS
  <1>8. n \in Manager
    <2>1. e \in [Reinit -> Seq(Proof)] /\ z \in ReinitsType /\ NoDispute \in DisputeType
      BY <1>1, <1>2, <1>3
    <2>2. NoReinit \in Reinit \cup {NoReinit} /\ 0 \in Int /\ FALSE \in BOOLEAN
      OBVIOUS
    <2>3. {} \in SUBSET AllTx
      OBVIOUS
    <2> QED  BY <1>4, <2>1, <2>2, <2>3 DEF Manager
  <1> HIDE DEF n
  <1>9. ReinitsOK(n)
    BY <1>2, <1>7 DEF ReinitsOK
  <1>10. QueueOK(n)
    <2>1. \A r \in Reinit : 1 .. Len(e[r]) = {}
      BY <1>1
    <2> QED  BY <1>1, <1>7, <2>1, ShipsAssumption DEF QueueOK
  <1>11. SizeOK(n)
    <2>1. MaxSize \in Nat
      BY QueueAssumption
    <2>2. 0 <= MaxSize
      BY <2>1
    <2> QED  BY <1>6, <1>7, <2>2 DEF SizeOK
  <1>12. PoolOK(n) /\ StateOK(n) /\ FatalOK(n)
    BY <1>3, <1>7 DEF PoolOK, StateOK, FatalOK
  <1>13. ManagerOK(n)
    BY <1>8, <1>9, <1>10, <1>11, <1>12 DEF ManagerOK
  <1> QED
    BY <1>5, <1>7, <1>13

LEMMA NoChannelStored ==
    ASSUME NEW S
    PROVE  OnOK(S, NoChannel)
  <1>1. NoChannel = Fresh("none", NoTurn)
    BY DEF NoChannel, Fresh
  <1>2. /\ MidOK(S, NoChannel) /\ NoChannel.dispute = NoAge /\ NoChannel.age = 0
        /\ NoChannel.status = "none"
    BY <1>1, NoChannelOK
  <1>3. DisputeBlocks \in Nat \ {0}
    BY ShipsAssumption
  <1>4. NoAge \in NoAge .. (DisputeBlocks - 1)
    BY <1>3 DEF NoAge
  <1>5. NoChannel \in OnChain
    BY <1>2, <1>4 DEF MidOK, Unsettled, OnChain
  <1> QED
    BY <1>2, <1>5 DEF OnOK, MidOK

LEMMA TipOK ==
    ASSUME IInv
    PROVE  /\ OnOK(mgr.signed, Tip) /\ Tip \in OnChain
           /\ Len(chain) \in Nat /\ Len(chain) >= 1
           /\ \A i \in 1 .. Len(chain) : chain[i] \in Block
  <1>1. ChainOK(mgr.signed, chain) /\ chain \in Seq(Block) /\ chain # <<>>
    BY DEF IInv, ChainOK
  <1>2. Len(chain) \in Nat /\ Len(chain) # 0 /\ \A i \in 1 .. Len(chain) : chain[i] \in Block
    BY <1>1, LenProperties, ElementOfSeq, EmptySeq
  <1>3. Len(chain) \in 1 .. Len(chain)
    BY <1>2
  <1>4. OnOK(mgr.signed, Tip)
    BY <1>1, <1>3 DEF ChainOK, BlockOK, Tip
  <1> QED
    BY <1>2, <1>4 DEF OnOK

LEMMA PeerProofOK ==
    ASSUME IInv, NEW r \in Reinit, NEW s \in PeerPath
    PROVE  PeerProof(r, s) \in Proof /\ Honest(mgr.signed, PeerProof(r, s))
  <1> DEFINE n == Len(s)
             Sigs(i) == {Peer} \cup IF [reinit |-> r, data |-> s[i].data] \in mgr.signed
                                      THEN {Me} ELSE {}
             f == [i \in 1 .. n |-> [move |-> s[i].move, data |-> s[i].data, sigs |-> Sigs(i)]]
             p == [under |-> r, path |-> f]
  <1>1. used.timely \in Timing
    BY DEF IInv, UsedType
  <1>2. /\ s \in Seq([move : Move \cup {NoMove}, data : Board]) /\ s # <<>>
        /\ Me \in Player /\ Peer \in Player /\ Me # Peer
    <2>1. s \in PeerPaths[used.timely]
      BY DEF PeerPath
    <2>2. s \in Seq([move : Move \cup {NoMove}, data : Board]) \ {<<>>}
      BY <1>1, <2>1, ChannelAssumption
    <2>3. Me \in Player /\ Peer \in Player /\ Me # Peer
      BY ChannelAssumption
    <2> QED  BY <2>2, <2>3
  <1>3. n \in Nat /\ n >= 1 /\ \A i \in 1 .. n : s[i] \in [move : Move \cup {NoMove}, data : Board]
    <2> DEFINE A == [move : Move \cup {NoMove}, data : Board]
    <2>1. s \in Seq(A) /\ s # <<>>
      BY <1>2
    <2> HIDE DEF A
    <2>2. n \in Nat /\ n # 0 /\ \A i \in 1 .. n : s[i] \in A
      BY <2>1, LenProperties, ElementOfSeq, EmptySeq
    <2> HIDE DEF n
    <2> QED  BY <2>2 DEF A
  <1>4. ASSUME NEW i \in 1 .. n
        PROVE  /\ Sigs(i) \in SUBSET Player
               /\ Me \in Sigs(i) => [reinit |-> r, data |-> s[i].data] \in mgr.signed
    BY <1>2
  <1>5. PeerProof(r, s) = p
    BY DEF PeerProof
  <1> HIDE DEF n, Sigs
  <1>6. f \in [1 .. n -> Signed] /\ \A i \in 1 .. n : f[i].sigs = Sigs(i) /\ f[i].data = s[i].data
    BY <1>3, <1>4 DEF Signed
  <1> HIDE DEF f
  <1>7. p \in Proof /\ Len(f) = n
    BY <1>3, <1>6, MakeProof
  <1>8. p.path = f /\ p.under = r
    OBVIOUS
  <1> HIDE DEF p
  <1>9. Honest(mgr.signed, p)
    BY <1>4, <1>6, <1>7, <1>8 DEF Honest
  <1> QED
    BY <1>5, <1>7, <1>9

CreateAborts == {[NoTx EXCEPT !.kind = "create"], [NoTx EXCEPT !.kind = "abort"]}

Joins == {[NoTx EXCEPT !.kind = "join", !.by = Joiner, !.reinit = r]
            : r \in Reinit \ {CreateReinit}}

PeerLosses == {PeerTx("loss", r, NoTx.proof) : r \in Reinit \ {CreateReinit}}

PeerUpdates == {PeerTx(kind, NoReinit, PeerProof(r, s)) :
                  kind \in {"dispute", "resolution"},
                  r \in Reinit \ {CreateReinit}, s \in PeerPath}

LEMMA OtherTxParts ==
    OtherTx = CreateAborts \cup Joins \cup PeerLosses \cup PeerUpdates
  BY DEF OtherTx, CreateAborts, Joins, PeerLosses, PeerUpdates

LEMMA TransactionsOK ==
    ASSUME IInv, NEW tx \in {NoTx} \cup mgr.pool \cup OtherTx
    PROVE  TxOK(mgr.signed, tx)
  <1> DEFINE S == mgr.signed
             p0 == StateProofFromReinit(CreateReinit)
  <1>1. p0 \in Proof /\ Honest(S, p0)
    BY ShipsAssumption, FromReinit
  <1> HIDE DEF p0
  <1>2. NoTx.proof = p0 /\ NoTx.kind = "none"
    BY DEF NoTx, p0
  <1>3. CASE tx = NoTx
    BY <1>1, <1>2, <1>3 DEF TxOK
  <1>4. CASE tx \in mgr.pool
    <2>1. tx \in AllTx /\ Honest(S, tx.proof)
      BY <1>4 DEF IInv, ManagerOK, PoolOK, Manager
    <2>2. tx.proof \in Proof /\ tx.kind # "join"
      BY <2>1 DEF AllTx
    <2> QED  BY <2>1, <2>2 DEF TxOK
  <1>5. CASE tx \in OtherTx
    <2>1. \/ tx = [NoTx EXCEPT !.kind = "create"] \/ tx = [NoTx EXCEPT !.kind = "abort"]
          \/ \E r \in Reinit \ {CreateReinit} :
               tx = [NoTx EXCEPT !.kind = "join", !.by = Joiner, !.reinit = r]
          \/ \E r \in Reinit \ {CreateReinit} : tx = PeerTx("loss", r, NoTx.proof)
          \/ \E kind \in {"dispute", "resolution"}, r \in Reinit \ {CreateReinit}, s \in PeerPath :
               tx = PeerTx(kind, NoReinit, PeerProof(r, s))
      <3>1. tx \in CreateAborts \cup Joins \cup PeerLosses \cup PeerUpdates
        BY <1>5, OtherTxParts
      <3>2. tx \in Joins => \E r \in Reinit \ {CreateReinit} :
                          tx = [NoTx EXCEPT !.kind = "join", !.by = Joiner, !.reinit = r]
        BY DEF Joins
      <3>3. tx \in PeerLosses => \E r \in Reinit \ {CreateReinit} : tx = PeerTx("loss", r, NoTx.proof)
        BY DEF PeerLosses
      <3>4. tx \in PeerUpdates => \E kind \in {"dispute", "resolution"}, r \in Reinit \ {CreateReinit},
                           s \in PeerPath : tx = PeerTx(kind, NoReinit, PeerProof(r, s))
        BY DEF PeerUpdates
      <3>5. tx \in CreateAborts =>
              tx = [NoTx EXCEPT !.kind = "create"] \/ tx = [NoTx EXCEPT !.kind = "abort"]
        BY DEF CreateAborts
      <3> QED  BY <3>1, <3>2, <3>3, <3>4, <3>5
    <2>2. CASE tx = [NoTx EXCEPT !.kind = "create"] \/ tx = [NoTx EXCEPT !.kind = "abort"]
      <3>1. tx.proof = p0 /\ tx.kind # "join"
        BY <2>2 DEF NoTx, p0
      <3> QED  BY <1>1, <3>1 DEF TxOK
    <2>3. ASSUME NEW r \in Reinit \ {CreateReinit},
                 tx = [NoTx EXCEPT !.kind = "join", !.by = Joiner, !.reinit = r]
          PROVE  TxOK(S, tx)
      <3>1. tx.proof = p0 /\ tx.reinit = r
        BY <2>3 DEF NoTx, p0
      <3> QED  BY <1>1, <3>1 DEF TxOK
    <2>4. ASSUME NEW r \in Reinit \ {CreateReinit}, tx = PeerTx("loss", r, NoTx.proof)
          PROVE  TxOK(S, tx)
      <3>1. tx.proof = p0 /\ tx.kind = "loss"
        BY <1>2, <2>4 DEF PeerTx
      <3> QED  BY <1>1, <3>1 DEF TxOK
    <2>5. ASSUME NEW kind \in {"dispute", "resolution"}, NEW r \in Reinit \ {CreateReinit},
                 NEW s \in PeerPath, tx = PeerTx(kind, NoReinit, PeerProof(r, s))
          PROVE  TxOK(S, tx)
      <3>1. tx.proof = PeerProof(r, s) /\ tx.kind = kind
        BY <2>5 DEF PeerTx
      <3>2. PeerProof(r, s) \in Proof /\ Honest(S, PeerProof(r, s))
        BY PeerProofOK
      <3> QED  BY <3>1, <3>2 DEF TxOK
    <2> QED  BY <2>1, <2>2, <2>3, <2>4, <2>5
  <1> QED
    BY <1>3, <1>4, <1>5

----------------------------------------------------------------------------
(* The steps.                                                              *)

LEMMA InitInv == Init => IInv
  <1> SUFFICES ASSUME Init PROVE IInv
    OBVIOUS
  <1>1. ManagerOK(mgr) /\ mgr.signed = {}
    BY EmptyManagerOK DEF Init
  <1>2. FeedOK({}, feed)
    BY DEF Init, FeedOK
  <1>3. ChainOK({}, chain)
    <2> DEFINE b == [on |-> NoChannel, txs |-> {}]
    <2>1. OnOK({}, NoChannel) /\ NoChannel \in OnChain
      BY NoChannelStored DEF OnOK
    <2>2. b \in Block /\ b.on = NoChannel /\ b.txs = {}
      BY <2>1 DEF Block
    <2> HIDE DEF b
    <2>3. BlockOK({}, b)
      BY <2>1, <2>2 DEF BlockOK
    <2>4. chain = <<b>>
      BY DEF Init, b
    <2>5. <<b>> \in Seq(Block) /\ <<b>> # <<>> /\ Len(<<b>>) = 1 /\ <<b>>[1] = b
      BY <2>2
    <2>6. \A i \in 1 .. 1 : i = 1
      OBVIOUS
    <2> QED  BY <2>3, <2>4, <2>5, <2>6 DEF ChainOK
  <1>4. used \in UsedType
    BY ChannelAssumption DEF Init, UsedType
  <1> QED
    BY <1>1, <1>2, <1>3, <1>4 DEF IInv

\* A step of the daemon.
LEMMA DaemonStep ==
    ASSUME IInv, CallOK(mgr, mgr'), FeedOK(mgr.signed, feed'), chain' = chain,
           used' \in UsedType
    PROVE  IInv' /\ Grows(mgr, mgr')
  <1>1. ManagerOK(mgr') /\ Grows(mgr, mgr') /\ mgr.signed \subseteq mgr'.signed
    BY DEF CallOK, Grows
  <1>2. ChainOK(mgr.signed, chain')
    BY DEF IInv
  <1>3. FeedOK(mgr'.signed, feed') /\ ChainOK(mgr'.signed, chain')
    BY <1>1, <1>2, FeedMonotone, ChainMonotone
  <1> QED
    BY <1>1, <1>3 DEF IInv

LEMMA UsedFacts ==
    ASSUME NEW u \in UsedType
    PROVE  /\ u.requests \in 0..MaxRequests /\ u.reorgs \in 0..MaxReorgs
           /\ u.faults \in 0..MaxFaults
           /\ MaxRequests \in Nat /\ MaxReorgs \in Nat /\ MaxFaults \in Nat
  BY ChannelAssumption DEF UsedType

LEMMA SendsKeeps ==
    ASSUME used \in UsedType, NEW fail \in BOOLEAN, Sends(fail)
    PROVE  used' \in UsedType
  <1> DEFINE k == used.faults + 1
  <1>1. CASE ~fail
    BY <1>1 DEF Sends
  <1>2. CASE fail
    <2>1. k \in 0..MaxFaults
      BY <1>2, UsedFacts DEF Sends
    <2>2. used' = [used EXCEPT !.faults = k]
      BY <1>2 DEF Sends
    <2> HIDE DEF k
    <2> QED  BY <2>1, <2>2 DEF UsedType
  <1> QED
    BY <1>1, <1>2

LEMMA RequestedKeeps ==
    ASSUME used \in UsedType, NEW fail \in BOOLEAN, Requested(fail)
    PROVE  used' \in UsedType
  <1> DEFINE k == IF fail THEN used.faults + 1 ELSE used.faults
             q == used.requests + 1
  <1>1. k \in 0..MaxFaults /\ q \in 0..MaxRequests
    BY UsedFacts DEF Requested
  <1>2. used' = [used EXCEPT !.faults = k, !.requests = q]
    BY DEF Requested
  <1> HIDE DEF k, q
  <1> QED
    BY <1>1, <1>2 DEF UsedType

LEMMA GetChannelStep ==
    ASSUME IInv, GetChannel
    PROVE  IInv' /\ Grows(mgr, mgr')
  <1> DEFINE on == IF Tip.status = "open" THEN Tip ELSE NoChannel
  <1>1. OnOK(mgr.signed, on) /\ on \in OnChain
    BY TipOK, NoChannelStored DEF OnOK
  <1>2. feed' = [seen |-> TRUE, data |-> {on}] /\ mgr' = mgr /\ chain' = chain /\ used' = used
    BY DEF GetChannel
  <1> HIDE DEF on
  <1>3. FeedOK(mgr.signed, feed')
    BY <1>1, <1>2 DEF FeedOK
  <1>4. ManagerOK(mgr) /\ mgr \in Manager /\ used \in UsedType
    BY DEF IInv, ManagerOK
  <1>5. CallOK(mgr, mgr')
    BY <1>2, <1>4, GrowsItself DEF CallOK
  <1> QED
    BY <1>2, <1>3, <1>4, <1>5, DaemonStep

LEMMA UpdateOnceStep ==
    ASSUME IInv, NEW rnd \in Rnd, NEW fail \in BOOLEAN, UpdateOnce(rnd, fail)
    PROVE  IInv' /\ Grows(mgr, mgr')
  <1>1. ManagerOK(mgr) /\ FeedOK(mgr.signed, feed) /\ used \in UsedType
    BY DEF IInv
  <1>2. PICK on \in feed.data :
          mgr' = IF on.status = "open"
                   THEN ProcessOnChain(mgr, on.reinit, on.proof, on.dispute # NoAge, rnd, fail)
                   ELSE ProcessOnChainNonExistant(mgr)
    BY DEF UpdateOnce
  <1>3. OnOK(mgr.signed, on) /\ on.reinit \in Reinit
    BY <1>1 DEF FeedOK, OnOK, OnChain
  <1>4. CallOK(mgr, mgr')
    <2>1. CASE on.status # "open"
      BY <1>1, <1>2, <2>1, NonExistantOK
    <2>2. CASE on.status = "open"
      <3> DEFINE r == on.reinit
                 p == on.proof
                 d == on.dispute # NoAge
      <3>1. r \in Reinit /\ Known(mgr.signed, r, p) /\ d \in BOOLEAN
        BY <1>3 DEF OnOK, StoredOK
      <3>2. d => WhoseTurn(UnverifiedProofEndState(p)) # NoTurn
        BY <1>3 DEF OnOK, StoredOK
      <3>3. mgr' = ProcessOnChain(mgr, r, p, d, rnd, fail)
        BY <1>2, <2>2
      <3> HIDE DEF r, p, d
      <3> QED  BY <1>1, <3>1, <3>2, <3>3, ProcessOnChainOK
    <2> QED  BY <2>1, <2>2
  <1>5. FeedOK(mgr.signed, feed')
    <2>1. feed' = [feed EXCEPT !.data = {}]
      BY DEF UpdateOnce
    <2> QED  BY <1>1, <2>1 DEF FeedOK
  <1>6. used' \in UsedType /\ chain' = chain
    BY <1>1, SendsKeeps DEF UpdateOnce
  <1> QED
    BY <1>4, <1>5, <1>6, DaemonStep

LEMMA ReceiveOffChainStep ==
    ASSUME IInv, NEW rnd \in Rnd, NEW fail \in BOOLEAN,
           NEW r \in Reinit \ {CreateReinit}, NEW s \in PeerPath,
           ReceiveOffChain(r, s, rnd, fail)
    PROVE  IInv' /\ Grows(mgr, mgr')
  <1> DEFINE p == PeerProof(r, s)
  <1>1. ManagerOK(mgr) /\ FeedOK(mgr.signed, feed) /\ used \in UsedType
    BY DEF IInv
  <1>2. p \in Proof /\ Honest(mgr.signed, p)
    BY PeerProofOK
  <1>3. mgr' = ProcessOffChain(mgr, r, p, rnd, fail)
    BY DEF ReceiveOffChain
  <1> HIDE DEF p
  <1>4. CallOK(mgr, mgr')
    BY <1>1, <1>2, <1>3, ProcessOffChainOK
  <1>5. used' \in UsedType /\ chain' = chain /\ feed' = feed
    BY <1>1, SendsKeeps DEF ReceiveOffChain
  <1> QED
    BY <1>1, <1>4, <1>5, DaemonStep

LEMMA LocalMoveStep ==
    ASSUME IInv, NEW rnd \in Rnd, NEW fail \in BOOLEAN, NEW mv \in Move,
           LocalMove(mv, rnd, fail)
    PROVE  IInv' /\ Grows(mgr, mgr')
  <1>1. ManagerOK(mgr) /\ FeedOK(mgr.signed, feed) /\ used \in UsedType
    BY DEF IInv
  <1>2. chain' = chain /\ feed' = feed /\ used' \in UsedType
    BY <1>1, SendsKeeps DEF LocalMove
  <1>3. CallOK(mgr, mgr')
    BY <1>1, ProcessLocalMoveOK DEF LocalMove
  <1> QED
    BY <1>1, <1>2, <1>3, DaemonStep

LEMMA RequestAutoMovesStep ==
    ASSUME IInv, NEW rnd \in Rnd, NEW fail \in BOOLEAN, RequestAutoMoves(rnd, fail)
    PROVE  IInv' /\ Grows(mgr, mgr')
  <1>1. ManagerOK(mgr) /\ FeedOK(mgr.signed, feed) /\ used \in UsedType
    BY DEF IInv
  <1>2. chain' = chain /\ feed' = feed /\ used' \in UsedType
    BY <1>1, SendsKeeps DEF RequestAutoMoves
  <1>3. CallOK(mgr, mgr')
    BY <1>1, TriggerAutoMovesOK DEF RequestAutoMoves
  <1> QED
    BY <1>1, <1>2, <1>3, DaemonStep

LEMMA RequestStep ==
    ASSUME IInv, NEW fail \in BOOLEAN, RequestPutState(fail) \/ RequestDispute(fail)
    PROVE  IInv' /\ Grows(mgr, mgr')
  <1>1. ManagerOK(mgr) /\ FeedOK(mgr.signed, feed) /\ used \in UsedType
    BY DEF IInv
  <1>2. chain' = chain /\ feed' = feed /\ used' \in UsedType
    BY <1>1, RequestedKeeps DEF RequestPutState, RequestDispute
  <1>3. CallOK(mgr, mgr')
    BY <1>1, PutStateOnChainOK, FileDisputeOK DEF RequestPutState, RequestDispute
  <1> QED
    BY <1>1, <1>2, <1>3, DaemonStep

LEMMA RestartStep ==
    ASSUME IInv, Restart
    PROVE  IInv'
  <1>1. ManagerOK(mgr) /\ ChainOK(mgr.signed, chain) /\ used \in UsedType
    BY DEF IInv
  <1>2. /\ mgr.pool \in SUBSET AllTx /\ mgr.signed \in SUBSET [reinit : Reinit, data : Board]
        /\ \A tx \in mgr.pool : Honest(mgr.signed, tx.proof)
    BY <1>1 DEF ManagerOK, Manager, PoolOK
  <1>3. mgr' = EmptyManager(InitialPriv, mgr.pool, mgr.signed)
    BY DEF Restart
  <1>4. ManagerOK(mgr') /\ mgr'.signed = mgr.signed
    BY <1>2, <1>3, EmptyManagerOK
  <1>5. FeedOK(mgr'.signed, feed')
    BY DEF Restart, FeedOK
  <1>6. used' \in UsedType
    <2> DEFINE k == used.faults + 1
    <2>1. CASE ~Up
      BY <1>1, <2>1 DEF Restart
    <2>2. CASE Up
      <3>1. k \in 0..MaxFaults
        BY <1>1, <2>2, UsedFacts DEF Restart
      <3>2. used' = [used EXCEPT !.faults = k]
        BY <2>2 DEF Restart
      <3> HIDE DEF k
      <3> QED  BY <1>1, <3>1, <3>2 DEF UsedType
    <2> QED  BY <2>1, <2>2
  <1>7. chain' = chain
    BY DEF Restart
  <1> QED
    BY <1>1, <1>4, <1>5, <1>6, <1>7 DEF IInv

LEMMA FeedSeen ==
    ASSUME NEW S, FeedOK(S, feed), feed' = [feed EXCEPT !.seen = FALSE]
    PROVE  FeedOK(S, feed')
  BY DEF FeedOK

LEMMA MineBlockStep ==
    ASSUME IInv, NEW t1 \in {NoTx} \cup mgr.pool \cup OtherTx,
           NEW t2 \in {NoTx} \cup mgr.pool \cup OtherTx, MineBlock(t1, t2)
    PROVE  IInv' /\ Grows(mgr, mgr')
  <1> DEFINE S == mgr.signed
             pool == mgr.pool \ {t1, t2}
             txs == {t1, t2} \cap mgr.pool
             on == UpdateState(Tip, t1, t2)
             b == [on |-> on, txs |-> txs]
             all == Append(chain, b)
  <1>1. ManagerOK(mgr) /\ FeedOK(S, feed) /\ ChainOK(S, chain) /\ used \in UsedType
    BY DEF IInv
  <1>2. mgr.pool \in SUBSET AllTx /\ \A tx \in mgr.pool : Honest(S, tx.proof)
    BY <1>1 DEF ManagerOK, Manager, PoolOK
  <1>3. CallOK(mgr, mgr') /\ mgr'.signed = S
    <2>1. mgr' = [mgr EXCEPT !.pool = pool]
      BY DEF MineBlock
    <2>2. pool \in SUBSET AllTx /\ \A tx \in pool : Honest(S, tx.proof)
      BY <1>2
    <2> HIDE DEF pool
    <2> QED  BY <1>1, <2>1, <2>2, PoolChange
  <1>4. OnOK(S, on)
    <2>1. TxOK(S, t1) /\ TxOK(S, t2) /\ OnOK(S, Tip)
      BY TransactionsOK, TipOK
    <2> HIDE DEF S
    <2> QED  BY <2>1, UpdateStateOK
  <1>5. txs \in SUBSET AllTx /\ \A tx \in txs : Honest(S, tx.proof)
    BY <1>2
  <1>6. chain' = IF Len(all) > MaxDepth + 1 THEN Tail(all) ELSE all
    BY DEF MineBlock
  <1> HIDE DEF on, txs, S
  <1>7. BlockOK(S, b) /\ b \in Block
    BY <1>4, <1>5 DEF BlockOK, Block, OnOK
  <1> HIDE DEF b
  <1>8. /\ all \in Seq(Block) /\ Len(all) \in Nat /\ Len(all) >= 1
        /\ \A i \in 1 .. Len(all) : BlockOK(S, all[i])
    <2>1. chain \in Seq(Block) /\ Len(chain) \in Nat
      BY <1>1 DEF ChainOK
    <2>2. /\ all \in Seq(Block) /\ Len(all) = Len(chain) + 1 /\ all[Len(chain) + 1] = b
          /\ \A i \in 1 .. Len(chain) : all[i] = chain[i]
      BY <1>7, <2>1, AppendProperties
    <2> HIDE DEF all
    <2>3. ASSUME NEW i \in 1 .. Len(all)  PROVE BlockOK(S, all[i])
      <3>1. CASE i = Len(chain) + 1
        BY <1>7, <2>2, <3>1
      <3>2. CASE i # Len(chain) + 1
        <4>1. i \in 1 .. Len(chain)
          BY <2>1, <2>2, <3>2
        <4> QED  BY <1>1, <2>2, <4>1 DEF ChainOK
      <3> QED  BY <3>1, <3>2
    <2> QED  BY <2>1, <2>2, <2>3
  <1> HIDE DEF all
  <1>9. ChainOK(S, chain')
    <2>1. CASE Len(all) > MaxDepth + 1
      <3>1. chain' = Tail(all) /\ MaxDepth \in Nat
        BY <1>6, <2>1, ChannelAssumption
      <3>2. all # <<>> /\ Len(all) >= 2
        BY <1>8, <2>1, <3>1
      <3>3. /\ chain' \in Seq(Block) /\ Len(chain') = Len(all) - 1
            /\ \A i \in 1 .. Len(chain') : chain'[i] = all[i + 1]
        BY <1>8, <3>1, <3>2, HeadTailProperties
      <3>4. chain' # <<>>
        <4>1. Len(chain') # 0
          BY <1>8, <3>2, <3>3
        <4> QED  BY <4>1
      <3>5. ASSUME NEW i \in 1 .. Len(chain')  PROVE BlockOK(S, chain'[i])
        <4>1. i + 1 \in 1 .. Len(all)
          BY <1>8, <3>3
        <4> QED  BY <1>8, <3>3, <4>1
      <3> QED  BY <3>3, <3>4, <3>5 DEF ChainOK
    <2>2. CASE ~(Len(all) > MaxDepth + 1)
      <3>1. chain' = all
        BY <1>6, <2>2
      <3>2. all # <<>>
        BY <1>8
      <3> QED  BY <1>8, <3>1, <3>2 DEF ChainOK
    <2> QED  BY <2>1, <2>2
  <1>10. FeedOK(S, feed')
    BY <1>1, FeedSeen DEF MineBlock
  <1>11. used' \in UsedType
    BY <1>1 DEF MineBlock
  <1> QED
    BY <1>3, <1>9, <1>10, <1>11 DEF IInv, CallOK, S

LEMMA ReorgStep ==
    ASSUME IInv, Reorg
    PROVE  IInv' /\ Grows(mgr, mgr')
  <1> DEFINE S == mgr.signed
             n == Len(chain)
             pool == mgr.pool \cup chain[n].txs
             k == used.reorgs + 1
  <1>1. ManagerOK(mgr) /\ FeedOK(S, feed) /\ ChainOK(S, chain) /\ used \in UsedType
    BY DEF IInv
  <1>2. mgr.pool \in SUBSET AllTx /\ \A tx \in mgr.pool : Honest(S, tx.proof)
    BY <1>1 DEF ManagerOK, Manager, PoolOK
  <1>3. n \in Nat /\ n > 1 /\ n \in 1 .. n /\ chain \in Seq(Block)
    BY <1>1, TipOK DEF Reorg, ChainOK
  <1>4. chain[n].txs \in SUBSET AllTx /\ \A tx \in chain[n].txs : Honest(S, tx.proof)
    BY <1>1, <1>3 DEF ChainOK, BlockOK, Block
  <1>5. CallOK(mgr, mgr') /\ mgr'.signed = S
    <2>1. mgr' = [mgr EXCEPT !.pool = pool]
      BY DEF Reorg
    <2>2. pool \in SUBSET AllTx /\ \A tx \in pool : Honest(S, tx.proof)
      BY <1>2, <1>4
    <2> HIDE DEF pool
    <2> QED  BY <1>1, <2>1, <2>2, PoolChange
  <1>6. ChainOK(S, chain')
    <2>1. chain' = SubSeq(chain, 1, n - 1)
      BY DEF Reorg
    <2> HIDE DEF n, S
    <2>2. n - 1 \in Nat /\ n - 1 >= 1 /\ n - 1 <= n
      BY <1>3
    <2>3. /\ chain' \in Seq(Block) /\ Len(chain') = n - 1
          /\ \A i \in 1 .. (n - 1) : chain'[i] = chain[i]
      <3>1. \A i \in 1 .. (n - 1) : chain[i] \in Block
        BY <1>3, <2>2, ElementOfSeq DEF n
      <3> QED  BY <1>3, <2>1, <2>2, <3>1, SubSeqProperties DEF n
    <2>4. chain' # <<>>
      <3>1. Len(chain') # 0
        BY <2>2, <2>3
      <3> QED  BY <3>1
    <2>5. ASSUME NEW i \in 1 .. Len(chain')  PROVE BlockOK(S, chain'[i])
      <3>1. i \in 1 .. n /\ i \in 1 .. (n - 1)
        BY <1>3, <2>2, <2>3
      <3> QED  BY <1>1, <2>3, <3>1 DEF ChainOK, n
    <2> QED  BY <2>3, <2>4, <2>5 DEF ChainOK
  <1>7. FeedOK(S, feed')
    BY <1>1, FeedSeen DEF Reorg
  <1>8. used' \in UsedType
    <2>1. k \in 0..MaxReorgs
      BY <1>1, UsedFacts DEF Reorg
    <2>2. used' = [used EXCEPT !.reorgs = k]
      BY DEF Reorg
    <2> HIDE DEF k
    <2> QED  BY <1>1, <2>1, <2>2 DEF UsedType
  <1> HIDE DEF n
  <1> QED
    BY <1>5, <1>6, <1>7, <1>8 DEF IInv, CallOK

LEMMA StepInv ==
    ASSUME IInv, [Next]_vars
    PROVE  IInv' /\ (Restart \/ Grows(mgr, mgr'))
  <1>1. CASE UNCHANGED vars
    <2>1. mgr' = mgr /\ feed' = feed /\ chain' = chain /\ used' = used /\ mgr \in Manager
      BY <1>1 DEF vars, IInv, ManagerOK
    <2> QED  BY <2>1, GrowsItself DEF IInv
  <1>2. CASE GetChannel
    BY <1>2, GetChannelStep
  <1>3. ASSUME NEW rnd \in Rnd, NEW fail \in BOOLEAN, UpdateOnce(rnd, fail)
        PROVE  IInv' /\ Grows(mgr, mgr')
    BY <1>3, UpdateOnceStep
  <1>4. ASSUME NEW rnd \in Rnd, NEW fail \in BOOLEAN, NEW r \in Reinit \ {CreateReinit},
               NEW s \in PeerPath, ReceiveOffChain(r, s, rnd, fail)
        PROVE  IInv' /\ Grows(mgr, mgr')
    BY <1>4, ReceiveOffChainStep
  <1>5. ASSUME NEW rnd \in Rnd, NEW fail \in BOOLEAN, NEW mv \in Move, LocalMove(mv, rnd, fail)
        PROVE  IInv' /\ Grows(mgr, mgr')
    BY <1>5, LocalMoveStep
  <1>6. ASSUME NEW rnd \in Rnd, NEW fail \in BOOLEAN, RequestAutoMoves(rnd, fail)
        PROVE  IInv' /\ Grows(mgr, mgr')
    BY <1>6, RequestAutoMovesStep
  <1>7. ASSUME NEW fail \in BOOLEAN, RequestPutState(fail) \/ RequestDispute(fail)
        PROVE  IInv' /\ Grows(mgr, mgr')
    BY <1>7, RequestStep
  <1>8. CASE Restart
    BY <1>8, RestartStep
  <1>9. ASSUME NEW t1 \in {NoTx} \cup mgr.pool \cup OtherTx, MineBlock(t1, NoTx)
        PROVE  IInv' /\ Grows(mgr, mgr')
    BY <1>9, MineBlockStep
  <1>10. ASSUME NEW t1 \in mgr.pool, NEW t2 \in mgr.pool \cup OtherTx,
                MineBlock(t1, t2) \/ MineBlock(t2, t1)
         PROVE  IInv' /\ Grows(mgr, mgr')
    BY <1>10, MineBlockStep
  <1>11. CASE Reorg
    BY <1>11, ReorgStep
  <1> QED
    BY <1>1, <1>2, <1>3, <1>4, <1>5, <1>6, <1>7, <1>8, <1>9, <1>10, <1>11 DEF Next

----------------------------------------------------------------------------
(* The theorems.                                                           *)

LEMMA InvTypeOK == IInv => TypeOK
  <1> SUFFICES ASSUME IInv PROVE TypeOK
    OBVIOUS
  <1>1. mgr \in Manager /\ StateOK(mgr)
    BY DEF IInv, ManagerOK
  <1>2. /\ mgr.reinitId \in Reinit \cup {NoReinit} /\ mgr.queue \in [Reinit -> Seq(Proof)]
        /\ mgr.size \in Int /\ mgr.fatal \in Checks /\ mgr.exists \in BOOLEAN
        /\ mgr.dispute \in DisputeType
        /\ mgr.pendingPut \in SUBSET AllTx /\ mgr.pendingDispute \in SUBSET AllTx
        /\ mgr.txidClose \in SUBSET AllTx /\ mgr.pool \in SUBSET AllTx
        /\ mgr.priv \in Priv /\ mgr.signed \in SUBSET [reinit : Reinit, data : Board]
    BY <1>1 DEF Manager
  <1>3. DOMAIN mgr.reinits \in SUBSET Reinit /\ \A r \in DOMAIN mgr.reinits : mgr.reinits[r] \in ReinitData
    BY <1>1, ManagerFacts
  <1>4. mgr.exists => mgr.reinitId \in DOMAIN mgr.reinits
    BY <1>1 DEF StateOK
  <1>5. feed.seen \in BOOLEAN /\ feed.data \in SUBSET OnChain
    BY DEF IInv, FeedOK
  <1>6. chain \in Seq([on : OnChain, txs : SUBSET AllTx]) \ {<<>>}
    BY DEF IInv, ChainOK, Block
  <1>7. used \in [requests : 0..MaxRequests, reorgs : 0..MaxReorgs, faults : 0..MaxFaults,
                  timely : Timing]
    BY DEF IInv, UsedType
  <1> QED
    BY <1>2, <1>3, <1>4, <1>5, <1>6, <1>7 DEF TypeOK, DisputeType

LEMMA KnownAgreed ==
    ASSUME NEW r \in Reinit, NEW p, Known(mgr.signed, r, p)
    PROVE  Agreed(r, p)
  <1>1. CASE r = CreateReinit
    <2>1. p = StateProofFromReinit(r) /\ Len(p.path) = 1 /\ p.path[1].data = ReinitState(r)
      BY <1>1, FromReinit DEF Known
    <2>2. 1 \in 1 .. 1 /\ \A j \in (1 + 1) .. 1 : FALSE
      OBVIOUS
    <2> HIDE <2>1
    <2>3. Backed(r, p.path[1].data)
      BY <2>1 DEF Backed
    <2> QED  BY <2>1, <2>2, <2>3 DEF Agreed
  <1>2. CASE r # CreateReinit
    <2>1. Participants(r) = {Me, Peer}
      BY <1>2, ShipsAssumption, ChannelAssumption
    <2>2. AgreedIn(mgr.signed, r, p)
      BY <2>1, VerifiedAgreed DEF Known
    <2> QED  BY <2>2 DEF AgreedIn, Agreed, Backed
  <1> QED
    BY <1>1, <1>2

LEMMA InvAgreed == IInv => OnlyAgreedStates
  <1> SUFFICES ASSUME IInv PROVE OnlyAgreedStates
    OBVIOUS
  <1>1. ManagerOK(mgr) /\ ChainOK(mgr.signed, chain) /\ mgr \in Manager
    BY DEF IInv, ManagerOK
  <1>2. ASSUME NEW r \in DOMAIN mgr.reinits  PROVE Agreed(r, mgr.reinits[r].proof)
    <2>1. r \in Reinit
      BY <1>1, ManagerFacts
    <2>2. Known(mgr.signed, r, mgr.reinits[r].proof)
      BY <1>1 DEF ManagerOK, ReinitsOK
    <2> QED  BY <2>1, <2>2, KnownAgreed
  <1>3. ASSUME NEW i \in 1 .. Len(chain)  PROVE Agreed(chain[i].on.reinit, chain[i].on.proof)
    <2>1. OnOK(mgr.signed, chain[i].on)
      BY <1>1 DEF ChainOK, BlockOK
    <2> DEFINE on == chain[i].on
    <2>2. on.reinit \in Reinit
      BY <2>1 DEF OnOK, OnChain
    <2>3. Known(mgr.signed, on.reinit, on.proof)
      BY <2>1 DEF OnOK, StoredOK
    <2> QED  BY <2>2, <2>3, KnownAgreed
  <1> QED
    BY <1>2, <1>3 DEF OnlyAgreedStates

LEMMA InvQueue == IInv => QueueIsExact
  <1> SUFFICES ASSUME IInv PROVE QueueIsExact
    OBVIOUS
  <1>1. mgr.queue \in [Reinit -> Seq(Proof)] /\ SizeOK(mgr)
    BY DEF IInv, ManagerOK, Manager
  <1>2. MapThenSumSet(LAMBDA r : Len(mgr.queue[r]), Reinit) = Cardinality(Places(mgr.queue, Reinit))
    <2>1. \A r \in Reinit : Len(mgr.queue[r]) \in Nat
      BY <1>1
    <2>2. IsFiniteSet(Reinit)
      BY QueueAssumption
    <2> QED  BY <2>1, <2>2, SumIsPlaces
  <1> QED
    BY <1>1, <1>2 DEF SizeOK, QueueIsExact

(***************************************************************************)
(* The manager, the feeder and the chain keep their types, a channel that  *)
(* exists has a known state, and no block leaves an overdue dispute open.  *)
(***************************************************************************)
THEOREM ChannelTypeCorrect == Spec => []TypeOK
  <1>1. IInv /\ [Next]_vars => IInv'
    BY StepInv
  <1> QED
    BY <1>1, InitInv, InvTypeOK, PTL DEF Spec

(***************************************************************************)
(* However state proofs are put together, cut short, delayed or repeated   *)
(* by the other player, neither the manager nor the chain takes a state    *)
(* that we did not sign or start from, but for moves of the other player.  *)
(***************************************************************************)
THEOREM StatesAreAgreed == Spec => []OnlyAgreedStates
  <1>1. IInv /\ [Next]_vars => IInv'
    BY StepInv
  <1> QED
    BY <1>1, InitInv, InvAgreed, PTL DEF Spec

(***************************************************************************)
(* StateUpdateQueue's own count is that of the updates it holds, through   *)
(* all evictions and extractions, and never above its limit.               *)
(***************************************************************************)
THEOREM QueueCountExact == Spec => []QueueIsExact
  <1>1. IInv /\ [Next]_vars => IInv'
    BY StepInv
  <1> QED
    BY <1>1, InitInv, InvQueue, PTL DEF Spec

(***************************************************************************)
(* Short of a restart, no step makes the manager forget what it knows of   *)
(* a reinitialisation, or take an older state for it.                      *)
(***************************************************************************)
THEOREM KnowledgeGrows == Spec => NothingForgotten
  <1> DEFINE Kept == \/ Restart
                     \/ \A r \in DOMAIN mgr.reinits :
                          /\ r \in DOMAIN mgr'.reinits
                          /\ ProofCount(mgr'.reinits[r].proof) >= KnownCount(mgr, r)
  <1>1. IInv /\ [Next]_vars => IInv'
    BY StepInv
  <1>2. IInv /\ [Next]_vars => [Kept]_vars
    BY StepInv DEF Grows, KnownCount
  <1> QED
    BY <1>1, <1>2, InitInv, PTL DEF Spec, NothingForgotten

(***************************************************************************)
(* If the game's automoves are moves, the only CHECK of the manager that   *)
(* can fail is CHECK (exists) of ApplyLocalMove.                           *)
(***************************************************************************)
THEOREM ChecksHold ==
    ASSUME AutoMovesValid
    PROVE  Spec => []NoOtherAbort
  <1>1. IInv /\ [Next]_vars => IInv'
    BY StepInv
  <1>2. IInv => NoOtherAbort
    BY DEF IInv, ManagerOK, FatalOK, NoOtherAbort
  <1> QED
    BY <1>1, <1>2, InitInv, PTL DEF Spec

----------------------------------------------------------------------------
(* Following the chain, and answering disputes.                            *)

\* What getchannel returns.
View == IF Tip.status = "open" THEN Tip ELSE NoChannel

Following(m, on) ==
    /\ m.exists <=> on.status = "open"
    /\ m.exists => Synced(m, on.reinit, on.proof, on.dispute # NoAge)

\* The feeder has the tip or has passed it on.
FollowInv ==
    /\ feed.seen /\ feed.data # {} => feed.data = {View}
    /\ Up /\ feed.seen /\ feed.data = {} => Following(mgr, Tip)

LEMMA FollowingStays ==
    ASSUME NEW m, NEW n, ManagerOK(m), ManagerOK(n), Grows(m, n), Quiet(m, n),
           NEW on \in OnChain, Following(m, on)
    PROVE  Following(n, on)
  <1>1. n.exists = m.exists
    BY DEF Quiet
  <1>2. ProofCount(on.proof) \in Nat
    BY PathFacts DEF OnChain
  <1>3. m.exists => Synced(n, on.reinit, on.proof, on.dispute # NoAge)
    <2> DEFINE r == on.reinit
               p == on.proof
               d == on.dispute # NoAge
    <2> SUFFICES ASSUME m.exists PROVE Synced(n, r, p, d)
      OBVIOUS
    <2>1. Synced(m, r, p, d) /\ ProofCount(p) \in Nat
      BY <1>2 DEF Following
    <2> HIDE DEF r, p, d
    <2> QED  BY <2>1, SyncedStays
  <1> QED
    BY <1>1, <1>3 DEF Following

\* A call that is quiet, between two blocks.
LEMMA QuietFollows ==
    ASSUME IInv, FollowInv, Up, CallOK(mgr, mgr'), Quiet(mgr, mgr'),
           feed' = feed, chain' = chain
    PROVE  FollowInv'
  <1>1. ManagerOK(mgr) /\ ManagerOK(mgr') /\ Grows(mgr, mgr')
    BY DEF IInv, CallOK
  <1>2. Tip' = Tip /\ View' = View /\ Tip \in OnChain
    BY TipOK DEF Tip, View
  <1>3. ASSUME feed.seen, feed.data = {}
        PROVE  Following(mgr', Tip)
    <2>1. Following(mgr, Tip)
      BY <1>3 DEF FollowInv
    <2> QED  BY <1>1, <1>2, <2>1, FollowingStays
  <1>4. ASSUME feed.seen, feed.data = {}
        PROVE  Following(mgr, Tip)'
    BY <1>2, <1>3, <1>4
  <1> QED
    BY <1>2, <1>4 DEF FollowInv

LEMMA UpdateOnceFollows ==
    ASSUME IInv, FollowInv, NEW rnd \in Rnd, NEW fail \in BOOLEAN, UpdateOnce(rnd, fail)
    PROVE  FollowInv'
  <1>1. ManagerOK(mgr) /\ FeedOK(mgr.signed, feed) /\ mgr.fatal = ""
    BY DEF IInv, UpdateOnce, Up
  <1>2. PICK on \in feed.data :
          mgr' = IF on.status = "open"
                   THEN ProcessOnChain(mgr, on.reinit, on.proof, on.dispute # NoAge, rnd, fail)
                   ELSE ProcessOnChainNonExistant(mgr)
    BY DEF UpdateOnce
  <1>3. feed'.data = {} /\ feed'.seen = feed.seen /\ Tip' = Tip
    BY <1>1 DEF UpdateOnce, FeedOK, Tip
  <1>4. OnOK(mgr.signed, on) /\ on.reinit \in Reinit
    BY <1>1 DEF FeedOK, OnOK, OnChain
  <1>5. ASSUME feed.seen  PROVE Following(mgr', Tip)
    <2>1. on = View
      BY <1>2, <1>5 DEF FollowInv
    <2>2. CASE on.status = "open"
      <3>1. on = Tip
        BY <2>1, <2>2 DEF View, NoChannel
      <3> DEFINE r == on.reinit
                 p == on.proof
                 d == on.dispute # NoAge
      <3>2. r \in Reinit /\ Known(mgr.signed, r, p) /\ d \in BOOLEAN
        BY <1>4 DEF OnOK, StoredOK
      <3>3. d => WhoseTurn(UnverifiedProofEndState(p)) # NoTurn
        BY <1>4 DEF OnOK, StoredOK
      <3>4. mgr' = ProcessOnChain(mgr, r, p, d, rnd, fail)
        BY <1>2, <2>2
      <3>5. Synced(mgr', r, p, d)
        <4> HIDE DEF r, p, d
        <4> QED  BY <1>1, <3>2, <3>3, <3>4, ProcessOnChainOK
      <3>6. mgr'.exists
        BY <3>5 DEF Synced
      <3> QED  BY <2>2, <3>1, <3>5, <3>6 DEF Following
    <2>3. CASE on.status # "open"
      <3>1. mgr'.exists = FALSE
        BY <1>1, <1>2, <2>3 DEF ProcessOnChainNonExistant, ManagerOK, Manager
      <3>2. Tip.status # "open"
        BY <2>1, <2>3 DEF View
      <3> QED  BY <3>1, <3>2 DEF Following
    <2> QED  BY <2>2, <2>3
  <1>6. ASSUME feed.seen  PROVE Following(mgr, Tip)'
    BY <1>3, <1>5, <1>6
  <1> QED
    BY <1>3, <1>6 DEF FollowInv

LEMMA FollowInit == Init => FollowInv
  BY DEF Init, FollowInv

LEMMA FollowStep ==
    ASSUME IInv, FollowInv, [Next]_vars
    PROVE  FollowInv'
  <1>0. ManagerOK(mgr)
    BY DEF IInv
  <1>1. CASE UNCHANGED vars
    BY <1>1 DEF vars, FollowInv, Up, View, Tip
  <1>2. CASE GetChannel
    <2>1. feed'.data = {View} /\ Tip' = Tip
      BY <1>2 DEF GetChannel, View, Tip
    <2>2. View' = View
      BY <2>1 DEF View
    <2> QED  BY <2>1, <2>2 DEF FollowInv
  <1>3. ASSUME NEW rnd \in Rnd, NEW fail \in BOOLEAN, UpdateOnce(rnd, fail)
        PROVE  FollowInv'
    BY <1>3, UpdateOnceFollows
  <1>4. ASSUME NEW rnd \in Rnd, NEW fail \in BOOLEAN, NEW r \in Reinit \ {CreateReinit},
               NEW s \in PeerPath, ReceiveOffChain(r, s, rnd, fail)
        PROVE  FollowInv'
    <2> DEFINE p == PeerProof(r, s)
    <2>1. p \in Proof /\ Honest(mgr.signed, p)
      BY PeerProofOK
    <2>2. mgr' = ProcessOffChain(mgr, r, p, rnd, fail) /\ Up /\ feed' = feed /\ chain' = chain
      BY <1>4 DEF ReceiveOffChain
    <2> HIDE DEF p
    <2>3. CallOK(mgr, mgr') /\ Quiet(mgr, mgr')
      BY <1>0, <2>1, <2>2, ProcessOffChainOK DEF Reaction
    <2> QED  BY <2>2, <2>3, QuietFollows
  <1>5. ASSUME NEW rnd \in Rnd, NEW fail \in BOOLEAN, NEW mv \in Move, LocalMove(mv, rnd, fail)
        PROVE  FollowInv'
    <2>1. CallOK(mgr, mgr') /\ Quiet(mgr, mgr')
      BY <1>0, <1>5, ProcessLocalMoveOK DEF LocalMove, Reaction
    <2> QED  BY <1>5, <2>1, QuietFollows DEF LocalMove
  <1>6. ASSUME NEW rnd \in Rnd, NEW fail \in BOOLEAN, RequestAutoMoves(rnd, fail)
        PROVE  FollowInv'
    <2>1. CallOK(mgr, mgr') /\ Quiet(mgr, mgr')
      BY <1>0, <1>6, TriggerAutoMovesOK DEF RequestAutoMoves, Reaction
    <2> QED  BY <1>6, <2>1, QuietFollows DEF RequestAutoMoves
  <1>7. ASSUME NEW fail \in BOOLEAN, RequestPutState(fail) \/ RequestDispute(fail)
        PROVE  FollowInv'
    <2>1. CallOK(mgr, mgr') /\ Quiet(mgr, mgr')
      BY <1>0, <1>7, PutStateOnChainOK, FileDisputeOK
         DEF RequestPutState, RequestDispute, Reaction
    <2> QED  BY <1>7, <2>1, QuietFollows DEF RequestPutState, RequestDispute
  <1>8. CASE Restart
    <2>1. feed'.seen = FALSE
      BY <1>8 DEF Restart
    <2> QED  BY <2>1 DEF FollowInv
  <1>9. ASSUME NEW t1, NEW t2, MineBlock(t1, t2)
        PROVE  FollowInv'
    <2>1. feed'.seen = FALSE
      BY <1>9 DEF MineBlock, IInv, FeedOK
    <2> QED  BY <2>1 DEF FollowInv
  <1>10. CASE Reorg
    <2>1. feed'.seen = FALSE
      BY <1>10 DEF Reorg, IInv, FeedOK
    <2> QED  BY <2>1 DEF FollowInv
  <1> QED
    BY <1>1, <1>2, <1>3, <1>4, <1>5, <1>6, <1>7, <1>8, <1>9, <1>10 DEF Next

(***************************************************************************)
(* A manager that has processed the tip is at its reinitialisation, not    *)
(* behind its state, knows of a dispute exactly if there is one, and takes *)
(* only transactions for pending that are: through reorgs, restarts and    *)
(* blocks that come while ChainToChannelFeeder still has an older one.     *)
(***************************************************************************)
THEOREM ManagerFollowsChain == Spec => []FollowsChain
  <1>1. IInv /\ [Next]_vars => IInv'
    BY StepInv
  <1>2. IInv /\ FollowInv /\ [Next]_vars => FollowInv'
    BY FollowStep
  <1>3. FollowInv => FollowsChain
    BY DEF FollowInv, Following, Synced, Pending, FollowsChain
  <1> QED
    BY <1>1, <1>2, <1>3, InitInv, FollowInit, PTL DEF Spec

LEMMA AnsweredStep ==
    ASSUME IInv, Answered(mgr), MaxFaults = 0, [Next]_vars
    PROVE  Answered(mgr)'
  <1>0. ManagerOK(mgr) /\ mgr \in Manager
    BY DEF IInv, ManagerOK
  <1>1. ASSUME NEW fail \in BOOLEAN, fail => used.faults < MaxFaults
        PROVE  ~fail
    <2>1. used.faults \in 0 .. MaxFaults
      BY UsedFacts DEF IInv
    <2> QED  BY <1>1, <2>1
  <1>2. CASE UNCHANGED vars \/ GetChannel
    BY <1>2 DEF vars, GetChannel, Answered, CanResolve, LatestCount, GetLatestState,
                GetStateProof, Current
  <1>3. ASSUME NEW rnd \in Rnd, NEW fail \in BOOLEAN, UpdateOnce(rnd, fail)
        PROVE  Answered(mgr')
    <2>1. mgr.fatal = "" /\ ~fail /\ FeedOK(mgr.signed, feed)
      BY <1>1, <1>3 DEF UpdateOnce, Up, Sends, IInv
    <2>2. PICK on \in feed.data :
            mgr' = IF on.status = "open"
                     THEN ProcessOnChain(mgr, on.reinit, on.proof, on.dispute # NoAge, rnd, fail)
                     ELSE ProcessOnChainNonExistant(mgr)
      BY <1>3 DEF UpdateOnce
    <2>3. OnOK(mgr.signed, on) /\ on.reinit \in Reinit
      BY <2>1 DEF FeedOK, OnOK, OnChain
    <2>4. CASE on.status # "open"
      <3>1. mgr'.exists = FALSE
        BY <1>0, <2>2, <2>4 DEF ProcessOnChainNonExistant, Manager
      <3> QED  BY <3>1 DEF Answered, CanResolve
    <2>5. CASE on.status = "open"
      <3> DEFINE r == on.reinit
                 p == on.proof
                 d == on.dispute # NoAge
      <3>1. r \in Reinit /\ Known(mgr.signed, r, p) /\ d \in BOOLEAN
        BY <2>3 DEF OnOK, StoredOK
      <3>2. d => WhoseTurn(UnverifiedProofEndState(p)) # NoTurn
        BY <2>3 DEF OnOK, StoredOK
      <3>3. mgr' = ProcessOnChain(mgr, r, p, d, rnd, fail)
        BY <2>2, <2>5
      <3> HIDE DEF r, p, d
      <3> QED  BY <1>0, <2>1, <3>1, <3>2, <3>3, ProcessOnChainOK
    <2> QED  BY <2>4, <2>5
  <1>4. ASSUME NEW rnd \in Rnd, NEW fail \in BOOLEAN, NEW r \in Reinit \ {CreateReinit},
               NEW s \in PeerPath, ReceiveOffChain(r, s, rnd, fail)
        PROVE  Answered(mgr')
    <2> DEFINE p == PeerProof(r, s)
    <2>1. p \in Proof /\ Honest(mgr.signed, p)
      BY PeerProofOK
    <2>2. mgr' = ProcessOffChain(mgr, r, p, rnd, fail) /\ ~fail
      BY <1>1, <1>4 DEF ReceiveOffChain, Sends
    <2> HIDE DEF p
    <2> QED  BY <1>0, <2>1, <2>2, ProcessOffChainOK DEF Reaction
  <1>5. ASSUME NEW rnd \in Rnd, NEW fail \in BOOLEAN, NEW mv \in Move, LocalMove(mv, rnd, fail)
        PROVE  Answered(mgr')
    <2>1. mgr' = ProcessLocalMove(mgr, mv, rnd, fail) /\ ~fail
      BY <1>1, <1>5 DEF LocalMove, Sends
    <2> QED  BY <1>0, <2>1, ProcessLocalMoveOK DEF Reaction
  <1>6. ASSUME NEW rnd \in Rnd, NEW fail \in BOOLEAN, RequestAutoMoves(rnd, fail)
        PROVE  Answered(mgr')
    <2>1. mgr' = TriggerAutoMoves(mgr, rnd, fail) /\ ~fail
      BY <1>1, <1>6 DEF RequestAutoMoves, Sends
    <2> QED  BY <1>0, <2>1, TriggerAutoMovesOK DEF Reaction
  <1>7. ASSUME NEW fail \in BOOLEAN, RequestPutState(fail) \/ RequestDispute(fail)
        PROVE  Answered(mgr')
    <2>1. (mgr' = PutStateOnChain(mgr, fail) \/ mgr' = FileDispute(mgr, fail)) /\ ~fail
      BY <1>1, <1>7 DEF RequestPutState, RequestDispute, Requested
    <2> QED  BY <1>0, <2>1, PutStateOnChainOK, FileDisputeOK DEF Reaction
  <1>8. CASE Restart
    <2>1. mgr'.exists = FALSE
      BY <1>8 DEF Restart, EmptyManager
    <2> QED  BY <2>1 DEF Answered, CanResolve
  <1>9. ASSUME NEW pool, mgr' = [mgr EXCEPT !.pool = pool]
        PROVE  Answered(mgr')
    <2>1. /\ mgr'.fatal = mgr.fatal /\ mgr'.exists = mgr.exists /\ mgr'.dispute = mgr.dispute
          /\ mgr'.reinits = mgr.reinits /\ mgr'.reinitId = mgr.reinitId
      BY <1>0, <1>9 DEF Manager
    <2> QED  BY <2>1, SameAnswered
  <1>10. ASSUME NEW t1, NEW t2, MineBlock(t1, t2)
         PROVE  Answered(mgr')
    BY <1>9, <1>10 DEF MineBlock
  <1>11. CASE Reorg
    BY <1>9, <1>11 DEF Reorg
  <1>12. Answered(mgr') \/ Answered(mgr)'
    BY <1>2, <1>3, <1>4, <1>5, <1>6, <1>7, <1>8, <1>10, <1>11 DEF Next
  <1> QED
    BY <1>12 DEF Answered, CanResolve, LatestCount, GetLatestState, GetStateProof, Current

(***************************************************************************)
(* If sending transactions works (no faults), a dispute against us is      *)
(* answered as soon as we know a better state, whichever came first, by    *)
(* every call to the manager: TryResolveDispute is never missed.           *)
(***************************************************************************)
THEOREM DisputesAreAnswered ==
    ASSUME MaxFaults = 0
    PROVE  Spec => []DisputeAnswered
  <1>1. IInv /\ [Next]_vars => IInv'
    BY StepInv
  <1>2. Init => Answered(mgr)
    <2> SUFFICES ASSUME Init PROVE ~mgr.exists
      BY DEF Answered, CanResolve
    <2> QED  BY DEF Init, EmptyManager
  <1>3. IInv /\ Answered(mgr) /\ [Next]_vars => Answered(mgr)'
    BY AnsweredStep
  <1>4. Answered(mgr) => DisputeAnswered
    BY DEF Answered, DisputeAnswered, Up
  <1> QED
    BY <1>1, <1>2, <1>3, <1>4, InitInv, PTL DEF Spec
=============================================================================
