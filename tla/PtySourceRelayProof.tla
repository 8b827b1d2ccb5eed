------------------------- MODULE PtySourceRelayProof -------------------------
(***************************************************************************)
(* What each operator of the relay keeps of the invariant: the calls that   *)
(* a step of PtySource is made of, for any amount of output, any window     *)
(* and retention and any number of connections.                             *)
(***************************************************************************)
EXTENDS PtySourceInvariant, FiniteSetTheorems, SequenceTheorems, TLAPS

-----------------------------------------------------------------------------
(* Numbers and sequences                                                    *)

LEMMA Constants ==
  /\ MaxUnits \in Nat /\ Window \in Nat /\ Retain \in Nat /\ MaxConns \in Nat
  /\ Window > 0 /\ Window <= Retain
  BY PtyAssumption

LEMMA MinOfTwo ==
  ASSUME NEW a \in Nat, NEW b \in Nat
  PROVE  Min({a, b}) = IF a <= b THEN a ELSE b
  BY DEF Min

\* A set of positions has a least element: its initial segments are finite, and well
\* founded under inclusion.
LEMMA LeastExists ==
  ASSUME NEW S \in SUBSET Positions, S # {}
  PROVE  \E m \in S : \A s \in S : m <= s
  <1> DEFINE Below(x) == {y \in S : y <= x}
             T == {Below(x) : x \in S}
  <1>0. MaxUnits \in Nat /\ \A x \in S : x \in Nat /\ x <= MaxUnits
    BY PtyAssumption DEF Positions
  <1>1. T # {} /\ T \subseteq FiniteSubsetsOf(S)
    <2>2. \A x \in S : Below(x) \in SUBSET Nat /\ \A y \in Below(x) : y <= MaxUnits
      BY <1>0
    <2>3. \A x \in S : IsFiniteSet(Below(x))
      BY <1>0, <2>2, FS_BoundedSetOfNaturals
    <2>4. \A x \in S : Below(x) \in FiniteSubsetsOf(S)
      BY <2>3 DEF FiniteSubsetsOf
    <2> HIDE DEF Below
    <2> QED BY <2>4
  <1>2. PICK A \in T : \A B \in T : <<B, A>> \notin StrictSubsetOrdering(S)
    BY <1>1, FS_StrictSubsetOrderingWellFounded, WFMin
  <1>3. PICK m \in S : A = Below(m)
    OBVIOUS
  <1>4. ASSUME NEW s \in S, s < m
        PROVE  FALSE
    <2>1. Below(s) \subseteq Below(m) /\ m \in Below(m) /\ m \notin Below(s)
      BY <1>0, <1>4
    <2>2. Below(s) \in SUBSET S /\ Below(m) \in SUBSET S /\ Below(s) # Below(m)
      BY <2>1
    <2>3. Below(s) \in T
      OBVIOUS
    <2> HIDE DEF Below, T
    <2>4. <<Below(s), Below(m)>> \in StrictSubsetOrdering(S)
      BY <2>1, <2>2 DEF StrictSubsetOrdering
    <2> QED BY <1>2, <1>3, <2>3, <2>4
  <1> QED BY <1>0, <1>4

LEMMA MinOfPositions ==
  ASSUME NEW S \in SUBSET Positions, S # {}
  PROVE  Min(S) \in S /\ \A s \in S : Min(S) <= s
  BY LeastExists DEF Min

LEMMA FramesOfAppend ==
  ASSUME NEW w \in Seq(Frame), NEW f \in Frame
  PROVE  /\ Append(w, f) \in Seq(Frame)
         /\ Len(w) \in Nat /\ Len(Append(w, f)) = Len(w) + 1
         /\ \A i \in 1 .. Len(w) : Append(w, f)[i] = w[i]
         /\ Append(w, f)[Len(w) + 1] = f
  BY AppendProperties, LenProperties

\* What a frame adds to the wire.
LEMMA KindsOfAppend ==
  ASSUME NEW w \in Seq(Frame), NEW f \in Frame, NEW c
  PROVE  LET v == Append(w, f)
             n == Len(w) + 1
         IN  /\ \A i : IsExit(v, i) <=> IsExit(w, i) \/ (i = n /\ f.kind = "exit")
             /\ \A i : IsAnswer(v, i) <=> IsAnswer(w, i) \/ (i = n /\ f.kind \in Answer)
             /\ \A k, i : IsData(v, k, i) <=>
                    IsData(w, k, i) \/ (i = n /\ f.kind = "data" /\ f.token = k)
             /\ \A k, i : IsComplete(v, k, i) <=>
                    IsComplete(w, k, i) \/ (i = n /\ f.kind = "complete" /\ f.token = k)
             /\ \A k, at : Follows(v, c, k, at) <=>
                    \/ Follows(w, c, k, at)
                    \/ f.kind \in {"opened", "recovery"} /\ k = f.token /\ at = f.start
             /\ \A k, e : Recovers(v, c, k, e) <=>
                    \/ Recovers(w, c, k, e)
                    \/ f.kind = "recovery" /\ k = f.token /\ e = f.end
  <1> DEFINE v == Append(w, f)
             n == Len(w) + 1
  <1>1. /\ Len(w) \in Nat /\ Len(v) = n
        /\ \A i \in 1 .. Len(w) : v[i] = w[i]
        /\ v[n] = f
    BY FramesOfAppend
  <1> HIDE DEF v
  <1>2. \A i : i \in 1 .. Len(v) <=> i \in 1 .. Len(w) \/ i = n
    BY <1>1
  <1>3. /\ \A i : IsExit(v, i) <=> IsExit(w, i) \/ (i = n /\ f.kind = "exit")
        /\ \A i : IsAnswer(v, i) <=> IsAnswer(w, i) \/ (i = n /\ f.kind \in Answer)
    BY <1>1, <1>2 DEF IsExit, IsAnswer
  <1>4. \A k, i : IsData(v, k, i) <=>
           IsData(w, k, i) \/ (i = n /\ f.kind = "data" /\ f.token = k)
    BY <1>1, <1>2 DEF IsData
  <1>5. ASSUME NEW k, NEW i
        PROVE  IsComplete(v, k, i) <=>
                 IsComplete(w, k, i) \/ (i = n /\ f.kind = "complete" /\ f.token = k)
    <2>1. CASE i \in 1 .. Len(w)
      BY <1>1, <1>2, <2>1 DEF IsComplete
    <2>2. CASE i = n
      BY <1>1, <1>2, <2>2 DEF IsComplete
    <2> QED BY <1>2, <2>1, <2>2 DEF IsComplete
  <1>6. ASSUME NEW k, NEW at
        PROVE  Follows(v, c, k, at) <=>
                 \/ Follows(w, c, k, at)
                 \/ f.kind \in {"opened", "recovery"} /\ k = f.token /\ at = f.start
    <2> DEFINE Starts(g) == g.kind \in {"opened", "recovery"} /\ k = g.token /\ at = g.start
    <2>1. (\E i \in 1 .. Len(v) : Starts(v[i])) <=> (\E i \in 1 .. Len(w) : Starts(w[i])) \/ Starts(f)
      <3> HIDE DEF Starts
      <3> QED BY <1>1, <1>2
    <2> QED BY <2>1 DEF Follows
  <1>7. ASSUME NEW k, NEW e
        PROVE  Recovers(v, c, k, e) <=>
                 \/ Recovers(w, c, k, e)
                 \/ f.kind = "recovery" /\ k = f.token /\ e = f.end
    <2> DEFINE Ends(g) == g.kind = "recovery" /\ k = g.token /\ e = g.end
    <2>1. (\E i \in 1 .. Len(v) : Ends(v[i])) <=> (\E i \in 1 .. Len(w) : Ends(w[i])) \/ Ends(f)
      <3> HIDE DEF Ends
      <3> QED BY <1>1, <1>2
    <2> QED BY <2>1 DEF Recovers
  <1> QED BY <1>3, <1>4, <1>5, <1>6, <1>7 DEF v

\* Only an answer to an attach says where a client starts, and how far it recovers.
LEMMA FollowsOfAppend ==
  ASSUME NEW w \in Seq(Frame), NEW f \in Frame, NEW c, f.kind \notin Answer
  PROVE  /\ \A k, at : Follows(Append(w, f), c, k, at) <=> Follows(w, c, k, at)
         /\ \A k, e : Recovers(Append(w, f), c, k, e) <=> Recovers(w, c, k, e)
  <1>1. \A k, at : Follows(Append(w, f), c, k, at) <=> Follows(w, c, k, at)
    BY KindsOfAppend DEF Answer
  <1>2. \A k, e : Recovers(Append(w, f), c, k, e) <=> Recovers(w, c, k, e)
    BY KindsOfAppend DEF Answer
  <1> QED BY <1>1, <1>2

LEMMA EndIsNat ==
  ASSUME NEW f \in Frame, f.kind = "data"
  PROVE  f.start \in Nat /\ f.token \in Nat /\ f.units \in Seq(Nat) /\ Len(f.units) \in Nat
         /\ EndOf(f) \in Nat /\ f.start <= EndOf(f)
  <1>1. f \in [kind : {"data"}, token : Nat, start : Nat, units : Seq(Nat)]
    BY DEF Frame
  <1>2. f.start \in Nat /\ f.token \in Nat /\ f.units \in Seq(Nat)
    BY <1>1
  <1>3. Len(f.units) \in Nat
    BY <1>2, LenProperties
  <1> QED BY <1>2, <1>3 DEF EndOf

LEMMA FrameAt ==
  ASSUME NEW w \in Seq(Frame), NEW i \in 1 .. Len(w)
  PROVE  w[i] \in Frame
  BY ElementOfSeq

\* A frame of another kind or delivery does not move the end of the frames of
\* delivery k; a data frame that starts at this end moves it to its own.
LEMMA LeadsOfAppend ==
  ASSUME NEW w \in Seq(Frame), NEW f \in Frame, NEW k, NEW at \in Nat, NEW e \in Nat
  PROVE  LET v == Append(w, f)
             n == Len(w) + 1
         IN  /\ \A i \in 1 .. n : Leads(v, k, at, i, e) <=> Leads(w, k, at, i, e)
             /\ ~(f.kind = "data" /\ f.token = k) =>
                  (Leads(v, k, at, n + 1, e) <=> Leads(w, k, at, n, e))
             /\ f.kind = "data" /\ f.token = k /\ Leads(w, k, at, n, f.start) =>
                  Leads(v, k, at, n + 1, EndOf(f))
  <1> DEFINE v == Append(w, f)
             n == Len(w) + 1
  <1>1. /\ Len(w) \in Nat /\ Len(v) = n
        /\ \A i \in 1 .. Len(w) : v[i] = w[i]
        /\ v[n] = f
    BY FramesOfAppend
  <1>2. \A i : IsData(v, k, i) <=>
           IsData(w, k, i) \/ (i = n /\ f.kind = "data" /\ f.token = k)
    BY KindsOfAppend
  <1>3. \A i : IsData(w, k, i) => i \in 1 .. Len(w) /\ v[i] = w[i] /\ v[i] \in Frame
                                 /\ v[i].kind = "data"
    BY <1>1, FrameAt DEF IsData
  <1>4. \A i : IsData(w, k, i) => EndOf(v[i]) = EndOf(w[i]) /\ EndOf(v[i]) \in Nat
                                 /\ i \in Nat /\ i < n
    BY <1>1, <1>3, EndIsNat
  <1>5. f.kind = "data" => f.start \in Nat /\ EndOf(f) \in Nat /\ f.start <= EndOf(f)
    BY EndIsNat
  <1>6. IsData(v, k, n) => EndOf(v[n]) = EndOf(f)
    BY <1>1
  <1> HIDE DEF v
  <1>7. ASSUME NEW i \in 1 .. n
        PROVE  Leads(v, k, at, i, e) <=> Leads(w, k, at, i, e)
    BY <1>1, <1>2, <1>4 DEF Leads
  <1>8. ASSUME ~(f.kind = "data" /\ f.token = k)
        PROVE  Leads(v, k, at, n + 1, e) <=> Leads(w, k, at, n, e)
    <2>1. \A j : IsData(v, k, j) <=> IsData(w, k, j)
      BY <1>2, <1>8
    <2>2. \A j : IsData(w, k, j) => /\ j < n /\ j < n + 1 /\ EndOf(v[j]) = EndOf(w[j])
                                    /\ j \in 1 .. Len(w) /\ j \in 1 .. Len(v)
      BY <1>1, <1>4 DEF IsData
    <2> QED BY <2>1, <2>2, Zenon DEF Leads
  <1>9. ASSUME f.kind = "data", f.token = k, Leads(w, k, at, n, f.start)
        PROVE  Leads(v, k, at, n + 1, EndOf(f))
    BY <1>1, <1>2, <1>4, <1>5, <1>6, <1>9, SMTT(30) DEF Leads
  <1> QED BY <1>7, <1>8, <1>9 DEF v

LEMMA LeadsBeyond ==
  ASSUME NEW w \in Seq(Frame), NEW f \in Frame, f.kind # "data",
         NEW k, NEW at \in Nat, NEW e \in Nat, Leads(w, k, at, Len(w) + 1, e)
  PROVE  Leads(Append(w, f), k, at, Len(Append(w, f)) + 1, e)
  <1> DEFINE v == Append(w, f)
  <1>1. Len(v) = Len(w) + 1
    BY FramesOfAppend
  <1>2. Leads(v, k, at, Len(w) + 1 + 1, e)
    BY LeadsOfAppend
  <1> QED BY <1>1, <1>2

LEMMA NoExitOfAppend ==
  ASSUME NEW w \in Seq(Frame), NEW f \in Frame, f.kind # "exit"
  PROVE  \A i : IsExit(Append(w, f), i) <=> IsExit(w, i)
  BY KindsOfAppend

LEMMA CompletesOfAppend ==
  ASSUME NEW w \in Seq(Frame), NEW f \in Frame, NEW k
  PROVE  LET v == Append(w, f)
         IN  /\ (\E i \in 1 .. Len(w) : IsComplete(w, k, i)) =>
                  \E i \in 1 .. Len(v) : IsComplete(v, k, i)
             /\ f.kind = "complete" /\ f.token = k =>
                  \E i \in 1 .. Len(v) : IsComplete(v, k, i)
  <1> DEFINE v == Append(w, f)
  <1>1. Len(v) = Len(w) + 1 /\ Len(w) \in Nat
    BY FramesOfAppend
  <1>2. \A i : IsComplete(v, k, i) <=>
           IsComplete(w, k, i) \/ (i = Len(w) + 1 /\ f.kind = "complete" /\ f.token = k)
    BY KindsOfAppend
  <1> HIDE DEF v
  <1>3. (\E i \in 1 .. Len(w) : IsComplete(w, k, i)) => \E i \in 1 .. Len(v) : IsComplete(v, k, i)
    BY <1>1, <1>2
  <1>4. Len(w) + 1 \in 1 .. Len(v)
    BY <1>1
  <1> QED BY <1>2, <1>3, <1>4 DEF v

\* Frames that start where the frames before them lead to follow each other.
LEMMA ChainOfAppend ==
  ASSUME NEW w \in Seq(Frame), NEW f \in Frame, NEW k, NEW at \in Nat,
         Chain(w, k, at),
         f.kind = "data" /\ f.token = k => Leads(w, k, at, Len(w) + 1, f.start)
  PROVE  Chain(Append(w, f), k, at)
  <1> DEFINE v == Append(w, f)
             n == Len(w) + 1
  <1>1. /\ Len(w) \in Nat /\ Len(v) = n
        /\ \A i \in 1 .. Len(w) : v[i] = w[i]
        /\ v[n] = f
    BY FramesOfAppend
  <1>2. \A i : IsData(v, k, i) <=>
           IsData(w, k, i) \/ (i = n /\ f.kind = "data" /\ f.token = k)
    BY KindsOfAppend
  <1>3. \A i : IsData(w, k, i) => i \in Nat /\ i < n /\ v[i] = w[i]
    BY <1>1 DEF IsData
  <1> HIDE DEF v
  <1>4. ASSUME NEW i \in 1 .. n, IsData(v, k, i)
        PROVE  /\ at <= v[i].start
               /\ \/ v[i].start = at
                  \/ \E j \in 1 .. n : IsData(v, k, j) /\ j < i /\ EndOf(v[j]) = v[i].start
    <2>1. CASE IsData(w, k, i)
      BY <1>1, <1>2, <1>3, <2>1 DEF Chain
    <2>2. CASE i = n /\ f.kind = "data" /\ f.token = k
      BY <1>1, <1>2, <1>3, <2>2 DEF Leads
    <2> QED BY <1>2, <1>4, <2>1, <2>2
  <1>5. ASSUME NEW i \in 1 .. n, NEW j \in 1 .. n, IsData(v, k, i), IsData(v, k, j), i < j
        PROVE  EndOf(v[i]) <= v[j].start
    <2>1. i \in 1 .. Len(w) /\ IsData(w, k, i) /\ v[i] = w[i]
      BY <1>1, <1>2, <1>3, <1>5
    <2>2. CASE IsData(w, k, j)
      BY <1>1, <1>3, <1>5, <2>1, <2>2 DEF Chain
    <2>3. CASE j = n /\ f.kind = "data" /\ f.token = k
      BY <1>1, <1>3, <1>5, <2>1, <2>3 DEF Leads
    <2> QED BY <1>2, <1>5, <2>2, <2>3
  <1>6. Chain(v, k, at)
    BY <1>1, <1>4, <1>5 DEF Chain
  <1> QED BY <1>6 DEF v

\* A frame written to the connection keeps what is said of its frames: data goes on where
\* the frames before it lead, a notice of completion and a source exit come when they
\* lead to the end.
LEMMA WireOfAppend ==
  ASSUME NEW w \in Seq(Frame), NEW f \in Frame, NEW tokens \in Nat,
         NEW c \in ClientType, NEW p \in Program,
         WireOK(w, tokens, c, p), f.kind \notin Answer,
         f.kind \in {"data", "complete"} => f.token <= tokens,
         f.kind = "data" =>
           /\ Len(f.units) > 0 /\ EndOf(f) <= p.written
           /\ \A n \in 1 .. Len(f.units) : f.units[n] = f.start + n
           /\ \A at \in Nat : Follows(w, c, f.token, at) =>
                Leads(w, f.token, at, Len(w) + 1, f.start),
         f.kind = "complete" =>
           \A e, at \in Nat : Recovers(w, c, f.token, e) /\ Follows(w, c, f.token, at) =>
             Leads(w, f.token, at, Len(w) + 1, e),
         f.kind = "exit" /\ f.by = "source" =>
           /\ \A k, at \in Nat : Follows(w, c, k, at) => Leads(w, k, at, Len(w) + 1, p.written)
           /\ \A k, e \in Nat : Recovers(w, c, k, e) =>
                e = p.written \/ \E j \in 1 .. Len(w) : IsComplete(w, k, j)
  PROVE  WireOK(Append(w, f), tokens, c, p)
  <1> DEFINE v == Append(w, f)
             n == Len(w) + 1
  <1>0. p.written \in Nat
    BY Constants DEF Program, Positions
  <1>1. /\ Len(w) \in Nat /\ Len(v) = n
        /\ \A i \in 1 .. Len(w) : v[i] = w[i]
        /\ v[n] = f /\ n \in Nat
    BY FramesOfAppend
  <1>2. \A i : IsExit(v, i) <=> IsExit(w, i) \/ (i = n /\ f.kind = "exit")
    BY KindsOfAppend
  <1>3. \A i : IsAnswer(v, i) <=> IsAnswer(w, i)
    BY KindsOfAppend
  <1>4. \A k, i : IsComplete(v, k, i) <=>
           IsComplete(w, k, i) \/ (i = n /\ f.kind = "complete" /\ f.token = k)
    BY KindsOfAppend
  <1>5. \A k, at : Follows(v, c, k, at) <=> Follows(w, c, k, at)
    BY KindsOfAppend DEF Answer
  <1>6. \A k, e : Recovers(v, c, k, e) <=> Recovers(w, c, k, e)
    BY KindsOfAppend DEF Answer
  <1>7. ASSUME NEW k, NEW at \in Nat, NEW e \in Nat
        PROVE  \A i \in 1 .. n : Leads(v, k, at, i, e) <=> Leads(w, k, at, i, e)
    BY LeadsOfAppend
  <1> HIDE DEF v
  <1>8. AnswerOK(v, tokens, c, p)
    <2> SUFFICES ASSUME NEW i \in 1 .. Len(v), IsAnswer(v, i)
                 PROVE  /\ c.mode = "asking"
                        /\ \A j \in 1 .. Len(v) : /\ IsAnswer(v, j) => i = j
                                                  /\ j < i => ~IsExit(v, j)
                        /\ v[i].kind = "opened" => Len(c.shown) <= v[i].start /\ v[i].start <= p.written
                        /\ v[i].kind = "recovery" => v[i].start = Len(c.shown) /\ v[i].end > 0
                        /\ v[i].kind # "restore" =>
                             /\ v[i].token = tokens /\ c.token < v[i].token
                             /\ \A j \in 1 .. Len(v) : j < i =>
                                  ~IsData(v, tokens, j) /\ ~IsComplete(v, tokens, j)
      BY DEF AnswerOK
    <2>1. IsAnswer(w, i) /\ i \in 1 .. Len(w) /\ v[i] = w[i]
      BY <1>1, <1>3 DEF IsAnswer
    <2>2. \A j \in 1 .. Len(v) : IsAnswer(w, j) => j \in 1 .. Len(w)
      BY DEF IsAnswer
    <2>3. \A j \in 1 .. Len(v) : j < i => j \in 1 .. Len(w) /\ j # n
      BY <1>1, <2>1
    <2>4. AnswerOK(w, tokens, c, p)
      BY DEF WireOK
    <2>5. \A j \in 1 .. Len(v) : j < i =>
            /\ IsData(v, tokens, j) => IsData(w, tokens, j)
            /\ IsComplete(v, tokens, j) => IsComplete(w, tokens, j)
      BY <1>4, <2>3, KindsOfAppend DEF v
    <2>6. /\ c.mode = "asking"
          /\ \A j \in 1 .. Len(v) : /\ IsAnswer(v, j) => i = j
                                    /\ j < i => ~IsExit(v, j)
      BY <1>2, <1>3, <2>1, <2>2, <2>3, <2>4 DEF AnswerOK
    <2>7. ASSUME v[i].kind # "restore"
          PROVE  /\ v[i].token = tokens /\ c.token < v[i].token
                 /\ \A j \in 1 .. Len(v) : j < i =>
                       ~IsData(v, tokens, j) /\ ~IsComplete(v, tokens, j)
      <3>1. w[i].kind # "restore"
        BY <2>1, <2>7
      <3>2. /\ w[i].token = tokens /\ c.token < w[i].token
            /\ \A j \in 1 .. Len(w) : j < i => ~IsData(w, tokens, j) /\ ~IsComplete(w, tokens, j)
        BY <2>1, <2>4, <3>1 DEF AnswerOK
      <3>3. v[i].token = tokens /\ c.token < v[i].token
        BY <2>1, <3>2
      <3>4. \A j \in 1 .. Len(v) : j < i => ~IsData(v, tokens, j) /\ ~IsComplete(v, tokens, j)
        BY <2>3, <2>5, <3>2
      <3> QED BY <3>3, <3>4
    <2> QED BY <2>1, <2>4, <2>6, <2>7 DEF AnswerOK
  <1>9. DataOK(v, p) /\ OpenedOK(v, tokens)
    <2>1. DataOK(v, p)
      BY <1>1, SMTT(30) DEF WireOK, DataOK
    <2>2. OpenedOK(v, tokens)
      BY <1>1 DEF WireOK, OpenedOK
    <2> QED BY <2>1, <2>2
  <1>10. ChainOK(v, tokens, c)
    <2> SUFFICES ASSUME NEW k \in Nat, NEW at \in Nat, Follows(w, c, k, at)
                 PROVE  k = tokens /\ k # 0 /\ Chain(v, k, at)
      BY <1>5 DEF ChainOK
    <2>1. k = tokens /\ k # 0 /\ Chain(w, k, at)
      BY DEF WireOK, ChainOK
    <2>2. f.kind = "data" /\ f.token = k => Leads(w, k, at, Len(w) + 1, f.start)
      OBVIOUS
    <2> QED BY <2>1, <2>2, ChainOfAppend DEF v
  <1>11. CompleteOK(v, c)
    <2> SUFFICES ASSUME NEW k \in Nat, NEW e \in Nat, NEW at \in Nat,
                        Recovers(w, c, k, e), Follows(w, c, k, at),
                        NEW i \in 1 .. Len(v), IsComplete(v, k, i)
                 PROVE  Leads(v, k, at, i, e)
      BY <1>5, <1>6 DEF CompleteOK
    <2>1. CASE IsComplete(w, k, i)
      <3>1. i \in 1 .. n /\ i \in 1 .. Len(w) /\ CompleteOK(w, c)
        BY <1>1, <2>1 DEF IsComplete, WireOK
      <3>2. Leads(w, k, at, i, e)
        BY <2>1, <3>1 DEF CompleteOK
      <3> QED BY <1>7, <3>1, <3>2
    <2>2. CASE i = n /\ f.kind = "complete" /\ f.token = k
      BY <1>1, <1>7, <2>2
    <2> QED BY <1>4, <2>1, <2>2
  <1>12. SourceOK(v, c, p)
    <2> SUFFICES ASSUME NEW x \in 1 .. n, IsExit(v, x), v[x].by = "source"
                 PROVE  /\ \A k, at \in Nat : Follows(v, c, k, at) => Leads(v, k, at, x, p.written)
                        /\ \A k, e \in Nat : Recovers(v, c, k, e) =>
                             e = p.written \/ \E j \in 1 .. n : IsComplete(v, k, j) /\ j < x
      BY <1>1 DEF SourceOK
    <2>1. /\ \A k, at \in Nat : Follows(w, c, k, at) => Leads(w, k, at, x, p.written)
          /\ \A k, e \in Nat : Recovers(w, c, k, e) =>
               e = p.written \/ \E j \in 1 .. Len(w) : IsComplete(w, k, j) /\ j < x
      <3>1. CASE IsExit(w, x)
        BY <1>1, <3>1 DEF WireOK, SourceOK, IsExit
      <3>2. CASE x = n /\ f.kind = "exit"
        BY <1>1, <3>2
      <3> QED BY <1>2, <3>1, <3>2
    <2>2. ASSUME NEW k \in Nat, NEW at \in Nat, Follows(v, c, k, at)
          PROVE  Leads(v, k, at, x, p.written)
      BY <1>0, <1>5, <1>7, <2>1, <2>2
    <2>3. ASSUME NEW k \in Nat, NEW e \in Nat, Recovers(v, c, k, e), e # p.written
          PROVE  \E j \in 1 .. n : IsComplete(v, k, j) /\ j < x
      <3>1. PICK j \in 1 .. Len(w) : IsComplete(w, k, j) /\ j < x
        BY <1>6, <2>1, <2>3
      <3> QED BY <1>1, <1>4, <3>1
    <2> QED BY <2>2, <2>3
  <1> QED BY <1>8, <1>9, <1>10, <1>11, <1>12 DEF WireOK, v

-----------------------------------------------------------------------------
(* What one call of the relay does *)

LEMMA RecordTypes ==
  ASSUME NEW d \in RecordType
  PROVE  /\ d.token \in Nat /\ d.conn \in Nat /\ d.received \in Nat /\ d.sent \in Nat
         /\ d.credited \in Nat /\ d.pending \in Nat /\ d.attempted \in Nat
         /\ d.reserved \in Nat /\ d.recoveryEnd \in Nat /\ Len(d.held) \in Nat
         /\ d.received \in Positions /\ d.sent \in Positions /\ d.credited \in Positions
         /\ d.ends \subseteq Positions /\ d.boundaries \subseteq Positions
         /\ d.held \in Seq(1 .. MaxUnits)
  BY Constants, LenProperties DEF RecordType, Positions

\* A field takes a value of its type.
LEMMA RelayUpdates ==
  ASSUME NEW r \in RelayType
  PROVE  /\ \A x \in RecordType : [r EXCEPT !.record = x] \in RelayType
         /\ \A x \in Seq(Chunks) : [r EXCEPT !.queue = x] \in RelayType
         /\ \A x \in BOOLEAN : [r EXCEPT !.timer = x] \in RelayType
         /\ \A x \in {"none", "pending", "done"} : [r EXCEPT !.exit = x] \in RelayType
         /\ \A x \in BOOLEAN : [r EXCEPT !.projected = x] \in RelayType
         /\ \A x \in 0 .. MaxConns : [r EXCEPT !.conn = x] \in RelayType
         /\ \A x \in Seq(Frame) : [r EXCEPT !.wire = x] \in RelayType
         /\ \A x \in BOOLEAN : [r EXCEPT !.reply = x] \in RelayType
         /\ \A x \in Nat : [r EXCEPT !.tokens = x] \in RelayType
         /\ \A x \in 0 .. MaxConns : [r EXCEPT !.conns = x] \in RelayType
         /\ \A x \in Nat : [r EXCEPT !.subscriber = x] \in RelayType
  BY DEF RelayType

LEMMA RecordUpdates ==
  ASSUME NEW d \in RecordType
  PROVE  /\ \A x \in {"active", "sealed", "closed"} : [d EXCEPT !.state = x] \in RecordType
         /\ \A x \in Positions : [d EXCEPT !.received = x] \in RecordType
         /\ \A x \in Positions : [d EXCEPT !.sent = x] \in RecordType
         /\ \A x \in Positions : [d EXCEPT !.credited = x] \in RecordType
         /\ \A x \in Seq(1 .. MaxUnits) : [d EXCEPT !.held = x] \in RecordType
         /\ \A x \in SUBSET Positions : [d EXCEPT !.ends = x] \in RecordType
         /\ \A x \in SUBSET Positions : [d EXCEPT !.boundaries = x] \in RecordType
         /\ \A x \in Positions : [d EXCEPT !.pending = x] \in RecordType
         /\ \A x \in Positions : [d EXCEPT !.attempted = x] \in RecordType
         /\ \A x \in Positions : [d EXCEPT !.reserved = x] \in RecordType
         /\ \A x \in BOOLEAN : [d EXCEPT !.activating = x] \in RecordType
         /\ \A x \in Positions : [d EXCEPT !.recoveryEnd = x] \in RecordType
         /\ \A x \in BOOLEAN : [d EXCEPT !.completing = x] \in RecordType
         /\ \A x \in {"idle", "pending", "published"} : [d EXCEPT !.exit = x] \in RecordType
         /\ \A x \in BOOLEAN : [d EXCEPT !.legacyExit = x] \in RecordType
         /\ \A x \in BOOLEAN : [d EXCEPT !.restore = x] \in RecordType
         /\ \A x \in BOOLEAN : [d EXCEPT !.asked = x] \in RecordType
         /\ \A x \in 0 .. 2 * MaxConns : [d EXCEPT !.token = x] \in RecordType
         /\ \A x \in 0 .. MaxConns : [d EXCEPT !.conn = x] \in RecordType
  BY ZenonT(30) DEF RecordType

LEMMA DeliveryUpdates ==
  ASSUME NEW r \in RelayType
  PROVE  /\ \A x \in {"active", "sealed", "closed"} : [r EXCEPT !.record.state = x] \in RelayType
         /\ \A x \in Positions : [r EXCEPT !.record.received = x] \in RelayType
         /\ \A x \in Seq(1 .. MaxUnits) : [r EXCEPT !.record.held = x] \in RelayType
         /\ \A x \in SUBSET Positions : [r EXCEPT !.record.ends = x] \in RelayType
         /\ \A x \in Positions : [r EXCEPT !.record.pending = x] \in RelayType
         /\ \A x \in Positions : [r EXCEPT !.record.attempted = x] \in RelayType
         /\ \A x \in Positions : [r EXCEPT !.record.reserved = x] \in RelayType
         /\ \A x \in BOOLEAN : [r EXCEPT !.record.activating = x] \in RelayType
         /\ \A x \in Positions : [r EXCEPT !.record.recoveryEnd = x] \in RelayType
         /\ \A x \in BOOLEAN : [r EXCEPT !.record.completing = x] \in RelayType
         /\ \A x \in {"idle", "pending", "published"} : [r EXCEPT !.record.exit = x] \in RelayType
         /\ \A x \in BOOLEAN : [r EXCEPT !.record.legacyExit = x] \in RelayType
         /\ \A x \in BOOLEAN : [r EXCEPT !.record.restore = x] \in RelayType
  <1>0. r.record \in RecordType
    BY DEF RelayType
  <1>1. \A x \in {"active", "sealed", "closed"} : [r EXCEPT !.record.state = x] \in RelayType
    <2>1. \A x : [r EXCEPT !.record.state = x] = [r EXCEPT !.record = [r.record EXCEPT !.state = x]]
      BY <1>0 DEF RelayType, RecordType
    <2> QED BY <1>0, <2>1, RelayUpdates, RecordUpdates, Zenon
  <1>2. \A x \in Positions : [r EXCEPT !.record.received = x] \in RelayType
    <2>1. \A x : [r EXCEPT !.record.received = x] = [r EXCEPT !.record = [r.record EXCEPT !.received = x]]
      BY <1>0 DEF RelayType, RecordType
    <2> QED BY <1>0, <2>1, RelayUpdates, RecordUpdates, Zenon
  <1>3. \A x \in Seq(1 .. MaxUnits) : [r EXCEPT !.record.held = x] \in RelayType
    <2>1. \A x : [r EXCEPT !.record.held = x] = [r EXCEPT !.record = [r.record EXCEPT !.held = x]]
      BY <1>0 DEF RelayType, RecordType
    <2> QED BY <1>0, <2>1, RelayUpdates, RecordUpdates, Zenon
  <1>4. \A x \in SUBSET Positions : [r EXCEPT !.record.ends = x] \in RelayType
    <2>1. \A x : [r EXCEPT !.record.ends = x] = [r EXCEPT !.record = [r.record EXCEPT !.ends = x]]
      BY <1>0 DEF RelayType, RecordType
    <2> QED BY <1>0, <2>1, RelayUpdates, RecordUpdates, Zenon
  <1>5. \A x \in Positions : [r EXCEPT !.record.pending = x] \in RelayType
    <2>1. \A x : [r EXCEPT !.record.pending = x] = [r EXCEPT !.record = [r.record EXCEPT !.pending = x]]
      BY <1>0 DEF RelayType, RecordType
    <2> QED BY <1>0, <2>1, RelayUpdates, RecordUpdates, Zenon
  <1>6. \A x \in Positions : [r EXCEPT !.record.attempted = x] \in RelayType
    <2>1. \A x : [r EXCEPT !.record.attempted = x] = [r EXCEPT !.record = [r.record EXCEPT !.attempted = x]]
      BY <1>0 DEF RelayType, RecordType
    <2> QED BY <1>0, <2>1, RelayUpdates, RecordUpdates, Zenon
  <1>7. \A x \in Positions : [r EXCEPT !.record.reserved = x] \in RelayType
    <2>1. \A x : [r EXCEPT !.record.reserved = x] = [r EXCEPT !.record = [r.record EXCEPT !.reserved = x]]
      BY <1>0 DEF RelayType, RecordType
    <2> QED BY <1>0, <2>1, RelayUpdates, RecordUpdates, Zenon
  <1>8. \A x \in BOOLEAN : [r EXCEPT !.record.activating = x] \in RelayType
    <2>1. \A x : [r EXCEPT !.record.activating = x] = [r EXCEPT !.record = [r.record EXCEPT !.activating = x]]
      BY <1>0 DEF RelayType, RecordType
    <2> QED BY <1>0, <2>1, RelayUpdates, RecordUpdates, Zenon
  <1>9. \A x \in Positions : [r EXCEPT !.record.recoveryEnd = x] \in RelayType
    <2>1. \A x : [r EXCEPT !.record.recoveryEnd = x] = [r EXCEPT !.record = [r.record EXCEPT !.recoveryEnd = x]]
      BY <1>0 DEF RelayType, RecordType
    <2> QED BY <1>0, <2>1, RelayUpdates, RecordUpdates, Zenon
  <1>10. \A x \in BOOLEAN : [r EXCEPT !.record.completing = x] \in RelayType
    <2>1. \A x : [r EXCEPT !.record.completing = x] = [r EXCEPT !.record = [r.record EXCEPT !.completing = x]]
      BY <1>0 DEF RelayType, RecordType
    <2> QED BY <1>0, <2>1, RelayUpdates, RecordUpdates, Zenon
  <1>11. \A x \in {"idle", "pending", "published"} : [r EXCEPT !.record.exit = x] \in RelayType
    <2>1. \A x : [r EXCEPT !.record.exit = x] = [r EXCEPT !.record = [r.record EXCEPT !.exit = x]]
      BY <1>0 DEF RelayType, RecordType
    <2> QED BY <1>0, <2>1, RelayUpdates, RecordUpdates, Zenon
  <1>12. \A x \in BOOLEAN : [r EXCEPT !.record.legacyExit = x] \in RelayType
    <2>1. \A x : [r EXCEPT !.record.legacyExit = x] = [r EXCEPT !.record = [r.record EXCEPT !.legacyExit = x]]
      BY <1>0 DEF RelayType, RecordType
    <2> QED BY <1>0, <2>1, RelayUpdates, RecordUpdates, Zenon
  <1>13. \A x \in BOOLEAN : [r EXCEPT !.record.restore = x] \in RelayType
    <2>1. \A x : [r EXCEPT !.record.restore = x] = [r EXCEPT !.record = [r.record EXCEPT !.restore = x]]
      BY <1>0 DEF RelayType, RecordType
    <2> QED BY <1>0, <2>1, RelayUpdates, RecordUpdates, Zenon
  <1> QED BY <1>1, <1>2, <1>3, <1>4, <1>5, <1>6, <1>7, <1>8, <1>9, <1>10, <1>11, <1>12, <1>13

LEMMA RelayTypes ==
  ASSUME NEW r, NEW c, NEW p, Typed(r, c, p)
  PROVE  /\ r \in RelayType /\ r.record \in RecordType /\ r.wire \in Seq(Frame)
         /\ r.tokens \in Nat /\ r.conn \in Nat /\ r.conns \in Nat /\ r.subscriber \in Nat
         /\ c \in ClientType /\ p \in Program /\ p.written \in Nat
  BY Constants DEF Typed, RelayType, Program, Positions

LEMMA RoomTypes ==
  ASSUME NEW room \in Rooms
  PROVE  room.size \in {1, 2} /\ room.fits \in {"all", "small", "none"}
  BY DEF Rooms

\* The next frame ends after the last one, inside the window and what was received.
LEMMA FrameEndIs ==
  ASSUME NEW r, NEW p, NEW room \in Rooms, r.record \in RecordType, RecordOK(r.record, p)
  PROVE  LET d   == r.record
             end == FrameEnd(r, room)
         IN  \/ end = 0
             \/ /\ end \in Positions /\ d.sent < end /\ end <= d.received
                /\ end <= d.credited + Window /\ d.state # "closed"
  <1> DEFINE d    == r.record
             S    == {s \in d.ends : s > d.sent}
             left == Window - (d.sent - d.credited)
             most == IF Reaches(r) THEN room.size ELSE 1
             take == IF d.reserved = 0 THEN Min({left, most}) ELSE d.reserved - d.sent
             end  == FrameEnd(r, room)
  <1>1. end = IF \/ d.state = "closed" \/ d.sent >= d.received \/ left <= 0
                 \/ take = 0 \/ take > Min({left, most})
              THEN 0 ELSE Min({Min(S), d.sent + take})
    BY DEF FrameEnd
  <1>2. /\ d.sent \in Nat /\ d.received \in Nat /\ d.credited \in Nat /\ d.reserved \in Nat
        /\ d.ends \subseteq Positions /\ most \in {1, 2}
        /\ d.credited <= d.sent /\ d.sent <= d.credited + Window /\ Window \in Nat
        /\ d.reserved # 0 => d.sent < d.reserved
        /\ d.state # "closed" /\ d.received > d.credited => d.received \in d.ends
    BY RecordTypes, RoomTypes, Constants DEF RecordOK
  <1> HIDE DEF d, most, end
  <1>3. SUFFICES ASSUME end # 0
        PROVE  /\ end \in Positions /\ d.sent < end /\ end <= d.received
               /\ end <= d.credited + Window /\ d.state # "closed"
    BY DEF d, end
  <1>4. /\ d.state # "closed" /\ d.sent < d.received /\ left > 0 /\ left \in Nat
        /\ take # 0 /\ ~(take > Min({left, most})) /\ end = Min({Min(S), d.sent + take})
    BY <1>1, <1>2, <1>3
  <1>5. S \in SUBSET Positions /\ d.received \in S
    BY <1>2, <1>4
  <1>6. Min(S) \in S /\ Min(S) <= d.received
    BY <1>5, MinOfPositions
  <1>7. Min({left, most}) \in Nat /\ Min({left, most}) <= left
    BY <1>2, <1>4, MinOfTwo
  <1>8. take \in Nat
    BY <1>2, <1>7
  <1>9. Min(S) \in Nat /\ Min(S) > d.sent /\ Min(S) <= MaxUnits
    BY <1>5, <1>6, Constants DEF Positions
  <1> HIDE DEF S, take
  <1>10. take > 0 /\ take <= left
    BY <1>4, <1>7, <1>8
  <1>11. end = IF Min(S) <= d.sent + take THEN Min(S) ELSE d.sent + take
    BY <1>2, <1>4, <1>8, <1>9, MinOfTwo
  <1>12. end \in Nat /\ end <= Min(S) /\ end <= d.sent + take /\ end > d.sent
    BY <1>2, <1>8, <1>9, <1>10, <1>11
  <1>13. end <= d.received /\ end <= MaxUnits
    BY <1>2, <1>6, <1>9, <1>12, Constants
  <1>14. d.sent + take <= d.credited + Window
    BY <1>2, <1>8, <1>10
  <1>15. end <= d.credited + Window
    BY <1>2, <1>8, <1>12, <1>14
  <1> QED BY <1>4, <1>12, <1>13, <1>15, Constants DEF Positions

LEMMA WaitingFrame ==
  ASSUME NEW r, NEW c, NEW p, NEW room \in Rooms, room.fits = "all",
         r.record \in RecordType, RecordOK(r.record, p), ConnOK(r, c), Waits(r)
  PROVE  FrameEnd(r, room) # 0
  <1> DEFINE d    == r.record
             S    == {s \in d.ends : s > d.sent}
             left == Window - (d.sent - d.credited)
             most == room.size
             take == Min({left, most})
             end  == FrameEnd(r, room)
  <1>1. /\ d.sent \in Nat /\ d.received \in Nat /\ d.credited \in Nat
        /\ d.ends \subseteq Positions /\ most \in {1, 2} /\ d.credited <= d.sent
        /\ Window \in Nat /\ d.state # "closed" /\ d.sent < d.received /\ left > 0
        /\ d.received > d.credited => d.received \in d.ends
    <2>1. /\ d.sent \in Nat /\ d.received \in Nat /\ d.credited \in Nat
          /\ d.ends \subseteq Positions /\ most \in {1, 2} /\ Window \in Nat
      BY RecordTypes, RoomTypes, Constants
    <2>2. d.state # "closed" /\ d.sent < d.received /\ d.sent - d.credited < Window
      BY DEF Waits
    <2>3. d.credited <= d.sent /\ (d.received > d.credited => d.received \in d.ends)
      BY <2>2 DEF RecordOK
    <2>4. left > 0
      BY <2>1, <2>2
    <2> QED BY <2>1, <2>2, <2>3, <2>4
  <1>2. d.reserved = 0 /\ Reaches(r)
    BY DEF Waits, ConnOK
  <1>3. end = IF \/ d.state = "closed" \/ d.sent >= d.received \/ left <= 0
                 \/ take = 0 \/ take > take
              THEN 0 ELSE Min({Min(S), d.sent + take})
    BY <1>2 DEF FrameEnd
  <1> HIDE DEF d, end, most
  <1>4. left \in Nat /\ take \in Nat /\ take > 0
    BY <1>1, MinOfTwo
  <1>5. S \in SUBSET Positions /\ d.received \in S
    BY <1>1
  <1>6. Min(S) \in Nat /\ Min(S) > d.sent
    BY <1>5, MinOfPositions, Constants DEF Positions
  <1> HIDE DEF S, take
  <1>7. end = Min({Min(S), d.sent + take})
    BY <1>1, <1>3, <1>4
  <1>8. end # 0
    BY <1>1, <1>4, <1>6, <1>7, MinOfTwo
  <1> QED BY <1>8 DEF end

\* What the call of an operator keeps: the queue and the end of the delivery, no exit is
\* sent over a queue, and no frame waits that did not wait before, unless it was refused.
Carries(r, q, room) ==
  LET d == r.record
      e == q.record
  IN  /\ q.queue = r.queue
      /\ e.token # 0 => /\ d.token = e.token /\ e.received = d.received
                        /\ e.state # "closed" => d.state # "closed"
      /\ e.exit # "idle" => d.exit # "idle" \/ r.queue = <<>>
      /\ room.fits = "all" /\ Waits(q) => Waits(r)

LEMMA CarriesOn ==
  ASSUME NEW r, NEW q, NEW s, NEW room, Carries(r, q, room), Carries(q, s, room)
  PROVE  Carries(r, s, room)
  BY DEF Carries

LEMMA CarriesQueue ==
  ASSUME NEW r, NEW q, NEW p, NEW room, Carries(r, q, room), QueueOK(r, p)
  PROVE  QueueOK(q, p)
  BY DEF Carries, QueueOK, QueueIsOutputAfter

\* The record of q is about the delivery of r, and agrees with the frames of r.
SameDelivery(r, q, c) ==
  LET d == r.record
      e == q.record
  IN  /\ e.token = d.token /\ e.conn = d.conn
      /\ e.pending # 0 \/ e.completing \/ e.exit = "pending" => Reaches(r)
      /\ e.reserved # 0 /\ e.state # "closed" /\ Reaches(r) => e.pending = e.reserved
      /\ \A at \in Nat : Follows(r.wire, c, e.token, at) =>
           e.credited <= at /\ e.reserved <= at /\ SentTo(e) = SentTo(d)
      /\ RecoverOK(r.wire, e, c)
      /\ KeepOK(e, c)

\* A change of the record that the frames and the client do not notice.
LEMMA RecordChange ==
  ASSUME NEW r, NEW q, NEW c, NEW p, Good(r, c, p), q \in RelayType,
         q.wire = r.wire, q.tokens = r.tokens, q.conn = r.conn, q.conns = r.conns,
         RecordOK(q.record, p), ExitOK(q, c, p),
         q.record = NoRecord \/ SameDelivery(r, q, c)
  PROVE  Good(q, c, p)
  <1> USE DEF SameDelivery
  <1>1. CASE q.record = NoRecord
    <2>1. ~ \E at \in Nat : Follows(r.wire, c, 0, at)
      BY <1>1 DEF Good, WireOK, ChainOK
    <2>2. \A e \in Nat : Recovers(r.wire, c, 0, e) => \E at \in Nat : Follows(r.wire, c, 0, at)
      <3>1. \A i \in 1 .. Len(r.wire) : r.wire[i].kind = "recovery" => r.wire[i].start \in Nat
        <4>1. r.wire \in Seq(Frame)
          BY RelayTypes DEF Good
        <4>2. \A i \in 1 .. Len(r.wire) : r.wire[i] \in Frame
          BY <4>1, FrameAt
        <4>3. \A f \in Frame : f.kind = "recovery" => f.start \in Nat
          BY DEF Frame
        <4> QED BY <4>2, <4>3
      <3>2. c.next \in Nat
        BY DEF Good, Typed, ClientType
      <3> QED BY <3>1, <3>2 DEF Follows, Recovers
    <2>3. FollowOK(q, c) /\ RecoverOK(q.wire, q.record, c) /\ KeepOK(q.record, c)
      BY <1>1, <2>1, <2>2 DEF FollowOK, RecoverOK, KeepOK, NoRecord
    <2>4. ConnOK(q, c)
      <3>1. r.conns \in Nat
        BY RelayTypes DEF Good
      <3> QED BY <1>1, <3>1 DEF Good, ConnOK, NoRecord
    <2> QED BY <2>3, <2>4 DEF Good, Typed, TokensOK
  <1>2. CASE ~(q.record = NoRecord)
    <2>1. FollowOK(q, c)
      BY <1>2 DEF Good, FollowOK
    <2>2. ConnOK(q, c)
      BY <1>2 DEF Good, ConnOK, Reaches
    <2> QED BY <1>2, <2>1, <2>2 DEF Good, Typed, TokensOK
  <1> QED BY <1>1, <1>2

\* The record of q is about the delivery of r, and agrees with the frames of q.
SentDelivery(r, q, c) ==
  LET d == r.record
      e == q.record
  IN  /\ e.token = d.token /\ e.conn = d.conn
      /\ e.pending # 0 \/ e.completing \/ e.exit = "pending" => Reaches(r)
      /\ e.reserved # 0 /\ e.state # "closed" /\ Reaches(r) => e.pending = e.reserved
      /\ \A at \in Nat : Follows(r.wire, c, e.token, at) =>
           /\ e.credited <= at /\ e.reserved <= at
           /\ Leads(q.wire, e.token, at, Len(q.wire) + 1, SentTo(e))
      /\ RecoverOK(q.wire, e, c)
      /\ KeepOK(e, c)

\* A change of the record with the frame it writes.
LEMMA FrameSent ==
  ASSUME NEW r, NEW q, NEW c, NEW p, NEW f \in Frame, Good(r, c, p), q \in RelayType,
         q.wire = Append(r.wire, f), q.tokens = r.tokens, q.conn = r.conn, q.conns = r.conns,
         r.conn # 0, f.kind \notin Answer, WireOK(q.wire, q.tokens, c, p),
         RecordOK(q.record, p), ExitOK(q, c, p),
         q.record = NoRecord \/ SentDelivery(r, q, c)
  PROVE  Good(q, c, p)
  <1> USE DEF SentDelivery
  <1>0. r.wire \in Seq(Frame) /\ q.wire \in Seq(Frame) /\ c.next \in Nat /\ r.conns \in Nat
    BY RelayTypes DEF Good, Typed, RelayType, ClientType
  <1>1. TokensOK(q, c)
    <2>1. \A i \in 1 .. Len(q.wire) : q.wire[i].kind \notin Answer => q.wire[i].kind \notin {"recovery", "restore"}
      BY DEF Answer
    <2>2. \A i \in 1 .. Len(q.wire) : q.wire[i].kind \in Answer =>
             i \in 1 .. Len(r.wire) /\ r.wire[i] = q.wire[i]
      BY <1>0, FramesOfAppend
    <2> QED BY <2>1, <2>2 DEF Good, TokensOK
  <1>2. \A k, at : Follows(q.wire, c, k, at) <=> Follows(r.wire, c, k, at)
    <2>1. \A k, at : Follows(Append(r.wire, f), c, k, at) <=> Follows(r.wire, c, k, at)
      BY <1>0, FollowsOfAppend
    <2> QED BY <2>1
  <1>3. CASE q.record = NoRecord
    <2>1. ~ \E at \in Nat : Follows(q.wire, c, 0, at)
      BY DEF WireOK, ChainOK
    <2>2. \A e \in Nat : Recovers(q.wire, c, 0, e) => \E at \in Nat : Follows(q.wire, c, 0, at)
      <3>1. \A i \in 1 .. Len(q.wire) : q.wire[i] \in Frame
        BY <1>0, FrameAt
      <3>2. \A g \in Frame : g.kind = "recovery" => g.start \in Nat
        BY DEF Frame
      <3> QED BY <1>0, <3>1, <3>2 DEF Follows, Recovers
    <2>3. FollowOK(q, c) /\ RecoverOK(q.wire, q.record, c) /\ KeepOK(q.record, c)
      BY <1>3, <2>1, <2>2 DEF FollowOK, RecoverOK, KeepOK, NoRecord
    <2>4. ConnOK(q, c)
      BY <1>0, <1>3 DEF Good, ConnOK, NoRecord
    <2> QED BY <1>1, <2>3, <2>4 DEF Good, Typed
  <1>4. CASE ~(q.record = NoRecord)
    <2>1. FollowOK(q, c)
      BY <1>2, <1>4 DEF Good, FollowOK
    <2>2. ConnOK(q, c)
      BY <1>4 DEF Good, ConnOK, Reaches
    <2> QED BY <1>1, <1>4, <2>1, <2>2 DEF Good, Typed
  <1> QED BY <1>3, <1>4

LEMMA NoRecordTypes ==
  /\ NoRecord \in RecordType
  /\ \A p \in Program : RecordOK(NoRecord, p)
  /\ NoRecord.token = 0 /\ NoRecord.conn = 0 /\ NoRecord.state = "closed"
  /\ NoRecord.exit = "idle" /\ ~NoRecord.legacyExit
  <1>1. NoRecord \in RecordType
    <2>1. <<>> \in Seq(1 .. MaxUnits)
      BY EmptySeq
    <2> QED BY <2>1, Constants DEF NoRecord, RecordType, Positions
  <1>2. \A p \in Program : RecordOK(NoRecord, p)
    BY Constants, EmptySeq DEF NoRecord, RecordOK, Program, Positions
  <1> QED BY <1>1, <1>2 DEF NoRecord

LEMMA NoneWaits ==
  ASSUME NEW r, r.record = NoRecord
  PROVE  ~Waits(r)
  BY DEF Waits, NoRecord

\* Dropping the record.
LEMMA DropKeeps ==
  ASSUME NEW r, NEW c, NEW p, Good(r, c, p), r.record.exit = "idle" \/ r.exit = "done"
  PROVE  Good([r EXCEPT !.record = NoRecord], c, p)
  <1> DEFINE q == [r EXCEPT !.record = NoRecord]
  <1>1. /\ q \in RelayType /\ q.record = NoRecord /\ q.wire = r.wire /\ q.tokens = r.tokens
        /\ q.conn = r.conn /\ q.conns = r.conns /\ q.exit = r.exit
        /\ q.projected = r.projected /\ q.subscriber = r.subscriber
    BY RelayTypes, NoRecordTypes DEF Good, Typed, RelayType
  <1> HIDE DEF q
  <1>2. RecordOK(q.record, p)
    BY <1>1, RelayTypes, NoRecordTypes DEF Good
  <1>3. ExitOK(q, c, p)
    BY <1>1, NoRecordTypes DEF Good, ExitOK
  <1> QED BY <1>1, <1>2, <1>3, RecordChange DEF q

LEMMA Written ==
  ASSUME NEW s \in RelayType, NEW f \in Frame
  PROVE  LET q == Write(s, f)
         IN  /\ q \in RelayType /\ q.record = s.record /\ q.queue = s.queue
             /\ q.timer = s.timer /\ q.exit = s.exit /\ q.projected = s.projected
             /\ q.conn = s.conn /\ q.reply = s.reply /\ q.tokens = s.tokens
             /\ q.conns = s.conns /\ q.subscriber = s.subscriber
             /\ q.wire = IF s.conn = 0 THEN s.wire ELSE Append(s.wire, f)
  <1>1. s.wire \in Seq(Frame)
    BY DEF RelayType
  <1>2. Append(s.wire, f) \in Seq(Frame)
    BY <1>1, FramesOfAppend
  <1>3. [s EXCEPT !.wire = Append(s.wire, f)] \in RelayType
    BY <1>2, RelayUpdates
  <1>4. Write(s, f) \in RelayType
    BY <1>3 DEF Write
  <1> QED BY <1>4 DEF Write, RelayType

\* The owner hears of the exit: the record is gone, the exit is done, and its frame is
\* the only one of the connection.
LEMMA ExitSent ==
  ASSUME NEW r, NEW c, NEW p, Good(r, c, p), r.exit = "pending", r.record.exit = "idle",
         NEW s \in RelayType, s.record = NoRecord, s.wire = r.wire, s.tokens = r.tokens,
         s.conn = r.conn, s.conns = r.conns, s.exit = "done", s.projected = FALSE,
         s.subscriber <= 1, NEW f \in Frame, f.kind = "exit", f.by = "broadcast"
  PROVE  Good(Write(s, f), c, p)
  <1> DEFINE q == Write(s, f)
  <1>1. r \in RelayType /\ r.wire \in Seq(Frame) /\ c \in ClientType /\ p \in Program
        /\ r.tokens \in Nat
    BY RelayTypes DEF Good
  <1>2. /\ q \in RelayType /\ q.record = NoRecord /\ q.tokens = r.tokens /\ q.conn = r.conn
        /\ q.conns = r.conns /\ q.exit = "done" /\ q.projected = FALSE /\ q.subscriber <= 1
        /\ q.wire = IF r.conn = 0 THEN r.wire ELSE Append(r.wire, f)
    BY Written
  <1> HIDE DEF q
  <1>3. RecordOK(q.record, p)
    BY <1>1, <1>2, NoRecordTypes
  <1>4. CASE r.conn = 0
    <2>1. ExitOK(q, c, p)
      BY <1>2, <1>4, NoRecordTypes DEF Good, ExitOK
    <2> QED BY <1>2, <1>3, <1>4, <2>1, RecordChange DEF q
  <1>5. CASE r.conn # 0
    <2>1. WireOK(q.wire, q.tokens, c, p)
      <3>1. WireOK(r.wire, r.tokens, c, p) /\ f.kind \notin Answer
        BY DEF Good, Answer
      <3>2. WireOK(Append(r.wire, f), r.tokens, c, p)
        BY <1>1, <3>1, WireOfAppend
      <3> QED BY <1>2, <1>5, <3>2
    <2>2. c.exits = 0 /\ \A i \in 1 .. Len(r.wire) : ~IsExit(r.wire, i)
      <3>1. c.exits \in Nat /\ c.exits <= 1
        BY <1>1 DEF Good, ClientType, ExitOK
      <3> QED BY <1>5, <3>1 DEF Good, ExitOK
    <2>3. \A i \in 1 .. Len(q.wire) : IsExit(q.wire, i) => i = Len(r.wire) + 1
      <3>1. \A i : IsExit(Append(r.wire, f), i) <=>
                   IsExit(r.wire, i) \/ (i = Len(r.wire) + 1 /\ f.kind = "exit")
        BY <1>1, KindsOfAppend
      <3>2. \A i : IsExit(r.wire, i) => i \in 1 .. Len(r.wire)
        BY DEF IsExit
      <3> QED BY <1>2, <1>5, <2>2, <3>1, <3>2
    <2>4. ExitOK(q, c, p)
      BY <1>2, <2>2, <2>3, NoRecordTypes DEF Good, ExitOK
    <2>5. Good(q, c, p)
      BY <1>2, <1>3, <1>5, <2>1, <2>4, FrameSent DEF Answer
    <2> QED BY <2>5 DEF q
  <1> QED BY <1>4, <1>5

BroadcastExit == [kind |-> "exit", by |-> "broadcast"]

LEMMA BroadcastExitIs ==
  BroadcastExit \in Frame /\ BroadcastExit.kind = "exit" /\ BroadcastExit.by = "broadcast"
  BY DEF BroadcastExit, Frame

LEMMA BroadcastKeeps ==
  ASSUME NEW r, NEW c, NEW p, NEW room \in Rooms, Good(r, c, p),
         r.exit = "pending", r.record.exit = "idle", ~r.projected
  PROVE  Good(Broadcast(r, room), c, p) /\ Carries(r, Broadcast(r, room), room)
  <1> DEFINE s == [r EXCEPT !.record = NoRecord, !.exit = "done", !.projected = FALSE,
                            !.subscriber = r.subscriber + 1]
             q == Write(s, BroadcastExit)
  <1>1. CASE room.fits = "none"
    BY <1>1 DEF Broadcast, Carries
  <1>2. CASE room.fits # "none"
    <2>1. Broadcast(r, room) = q
      BY <1>2 DEF Broadcast, BroadcastExit
    <2>2. r \in RelayType /\ r.subscriber + 1 \in Nat /\ r.subscriber + 1 <= 1
      BY RelayTypes DEF Good, ExitOK
    <2>3. s \in RelayType
      BY <2>2, RelayUpdates, NoRecordTypes, Zenon
    <2>4. /\ s.record = NoRecord /\ s.queue = r.queue /\ s.wire = r.wire
          /\ s.tokens = r.tokens /\ s.conn = r.conn /\ s.conns = r.conns
          /\ s.exit = "done" /\ s.projected = FALSE /\ s.subscriber = r.subscriber + 1
      BY <2>2 DEF RelayType
    <2> HIDE DEF s
    <2>5. Good(q, c, p)
      BY <2>2, <2>3, <2>4, ExitSent, BroadcastExitIs
    <2>6. q.record = NoRecord /\ q.queue = r.queue
      BY <2>3, <2>4, Written, BroadcastExitIs
    <2> HIDE DEF q
    <2>7. Carries(r, q, room)
      BY <2>6, NoneWaits, NoRecordTypes DEF Carries
    <2> QED BY <2>1, <2>5, <2>7 DEF q, s
  <1> QED BY <1>1, <1>2

LEMMA ToOwnerKeeps ==
  ASSUME NEW r, NEW c, NEW p, NEW room \in Rooms, Good(r, c, p),
         r.exit = "pending", r.record.exit = "idle"
  PROVE  Good(ToOwner(r, room), c, p) /\ Carries(r, ToOwner(r, room), room)
  <1> DEFINE s == [r EXCEPT !.record = NoRecord, !.exit = "done", !.projected = FALSE]
             q == Write(s, BroadcastExit)
  <1>1. CASE r.conn # 0 /\ room.fits = "none"
    BY <1>1 DEF ToOwner, Carries
  <1>2. CASE ~(r.conn # 0 /\ room.fits = "none")
    <2>1. ToOwner(r, room) = q
      BY <1>2 DEF ToOwner, BroadcastExit
    <2>2. r \in RelayType /\ r.subscriber <= 1
      BY RelayTypes DEF Good, ExitOK
    <2>3. s \in RelayType
      BY <2>2, RelayUpdates, NoRecordTypes, Zenon
    <2>4. /\ s.record = NoRecord /\ s.queue = r.queue /\ s.wire = r.wire
          /\ s.tokens = r.tokens /\ s.conn = r.conn /\ s.conns = r.conns
          /\ s.exit = "done" /\ s.projected = FALSE /\ s.subscriber = r.subscriber
      BY <2>2 DEF RelayType
    <2> HIDE DEF s
    <2>5. Good(q, c, p)
      BY <2>2, <2>3, <2>4, ExitSent, BroadcastExitIs
    <2>6. q.record = NoRecord /\ q.queue = r.queue
      BY <2>3, <2>4, Written, BroadcastExitIs
    <2> HIDE DEF q
    <2>7. Carries(r, q, room)
      BY <2>6, NoneWaits, NoRecordTypes DEF Carries
    <2> QED BY <2>1, <2>5, <2>7 DEF q, s
  <1> QED BY <1>1, <1>2

LEMMA AfterRetireKeeps ==
  ASSUME NEW r, NEW c, NEW p, NEW room \in Rooms, Good(r, c, p),
         r.exit = "pending", r.record.exit = "idle"
  PROVE  Good(AfterRetire(r, room), c, p) /\ Carries(r, AfterRetire(r, room), room)
  BY BroadcastKeeps, ToOwnerKeeps DEF AfterRetire

\* The notice of completion follows the frames of the recovery.
LEMMA CompleteRecoveryKeeps ==
  ASSUME NEW r, NEW c, NEW p, NEW room \in Rooms, Good(r, c, p)
  PROVE  Good(CompleteRecovery(r, room), c, p) /\ Carries(r, CompleteRecovery(r, room), room)
  <1> DEFINE d == r.record
             e == [d EXCEPT !.completing = TRUE]
             s == [r EXCEPT !.record.completing = TRUE]
             f == [kind |-> "complete", token |-> d.token]
             q == Write(s, f)
             w == r.wire
  <1>1. /\ r \in RelayType /\ d \in RecordType /\ w \in Seq(Frame) /\ c \in ClientType
        /\ p \in Program /\ r.tokens \in Nat
    BY RelayTypes DEF Good
  <1>2. CASE CompleteRecovery(r, room) = r
    BY <1>2 DEF Carries
  <1>3. CASE ~(CompleteRecovery(r, room) = r)
    <2>1. /\ CompleteRecovery(r, room) = q
          /\ ~d.activating /\ d.pending = 0 /\ ~d.completing
          /\ d.recoveryEnd # 0 /\ d.sent >= d.recoveryEnd /\ Reaches(r)
      BY <1>3 DEF CompleteRecovery
    <2>2. d.sent = d.received /\ d.recoveryEnd = d.received /\ d.token # 0 /\ SentTo(d) = d.sent
      BY <1>1, <2>1, RecordTypes DEF Good, RecordOK, SentTo, NoRecord
    <2>3. s \in RelayType
      BY <1>1, DeliveryUpdates
    <2>4. /\ s.record = e /\ s.wire = w /\ s.queue = r.queue /\ s.exit = r.exit
          /\ s.projected = r.projected /\ s.conn = r.conn /\ s.tokens = r.tokens
          /\ s.conns = r.conns /\ s.subscriber = r.subscriber
      BY <1>1 DEF RelayType
    <2>5. f \in Frame /\ f.kind = "complete" /\ f.token = d.token
      BY <1>1, RecordTypes DEF Frame
    <2>6. /\ e.token = d.token /\ e.conn = d.conn /\ e.pending = 0 /\ e.completing
          /\ e.reserved = d.reserved /\ e.credited = d.credited /\ e.sent = d.sent
          /\ e.received = d.received /\ e.exit = d.exit /\ e.state = d.state
          /\ e.legacyExit = d.legacyExit /\ e.recoveryEnd = d.recoveryEnd
          /\ e.activating = d.activating /\ e.restore = d.restore
      BY <1>1, <2>1 DEF RecordType
    <2>7. RecordOK(e, p)
      BY <1>1, <2>2 DEF Good, RecordOK, RecordType
    <2>8. /\ q \in RelayType /\ q.record = e /\ q.queue = r.queue /\ q.exit = r.exit
          /\ q.projected = r.projected /\ q.conn = r.conn /\ q.tokens = r.tokens
          /\ q.conns = r.conns /\ q.subscriber = r.subscriber
          /\ q.wire = Append(w, f) /\ r.conn # 0
      BY <2>1, <2>3, <2>4, <2>5, Written, ZenonT(30) DEF Reaches
    <2> HIDE DEF d, e, s, f, q, w
    <2>9. \A at \in Nat : Follows(w, c, d.token, at) =>
            d.credited <= at /\ d.reserved <= at /\ Leads(w, d.token, at, Len(w) + 1, d.sent)
      BY <2>2 DEF Good, FollowOK, d, w
    <2>10. \A k \in Nat : Recovers(w, c, d.token, k) => k = d.sent
      BY <2>1, <2>2 DEF Good, RecoverOK, d, w
    <2>11. WireOK(q.wire, q.tokens, c, p)
      <3>1. WireOK(w, r.tokens, c, p) /\ f.kind \notin Answer
        BY <2>5 DEF Good, Answer, w
      <3>2. d.token <= r.tokens
        BY <1>1, <2>1, RelayTypes DEF Good, ConnOK, d
      <3>3. WireOK(Append(w, f), r.tokens, c, p)
        BY <1>1, <2>5, <2>9, <2>10, <3>1, <3>2, WireOfAppend
      <3> QED BY <2>8, <3>3
    <2>12. \A at \in Nat : Follows(w, c, d.token, at) =>
             Leads(q.wire, d.token, at, Len(q.wire) + 1, d.sent)
      <3>1. d.sent \in Nat
        BY <1>1, RecordTypes
      <3>2. \A at \in Nat : Leads(w, d.token, at, Len(w) + 1, d.sent) =>
                  Leads(Append(w, f), d.token, at, Len(Append(w, f)) + 1, d.sent)
        BY <1>1, <2>5, <3>1, LeadsBeyond
      <3> QED BY <2>8, <2>9, <3>2
    <2>13. RecoverOK(q.wire, q.record, c)
      <3>1. \E i \in 1 .. Len(q.wire) : IsComplete(q.wire, e.token, i)
        <4>1. \E i \in 1 .. Len(Append(w, f)) : IsComplete(Append(w, f), d.token, i)
          BY <1>1, <2>5, CompletesOfAppend
        <4> QED BY <2>6, <2>8, <4>1
      <3>2. \A k, n : Recovers(Append(w, f), c, k, n) <=> Recovers(w, c, k, n)
        BY <1>1, <2>5, FollowsOfAppend DEF Answer
      <3>3. \A n \in Nat : Recovers(q.wire, c, e.token, n) => n = d.sent
        BY <2>6, <2>8, <2>10, <3>2
      <3> QED BY <2>2, <2>6, <2>8, <3>1, <3>3 DEF RecoverOK
    <2>14. ExitOK(q, c, p)
      <3>1. \A i : IsExit(q.wire, i) <=> IsExit(w, i)
        BY <1>1, <2>5, <2>8, NoExitOfAppend
      <3> QED BY <2>6, <2>8, <3>1 DEF Good, ExitOK, IsExit, d, w
    <2>15. KeepOK(e, c)
      BY <2>6 DEF Good, KeepOK, d
    <2>16. SentDelivery(r, q, c)
      <3>1. (d.reserved # 0 => d.state = "closed") /\ SentTo(e) = d.sent
        BY <1>1, <2>1, <2>6 DEF Good, ConnOK, SentTo, d
      <3>2. RecoverOK(q.wire, e, c)
        BY <2>8, <2>13
      <3> QED BY <2>1, <2>6, <2>8, <2>9, <2>12, <2>15, <3>1, <3>2 DEF SentDelivery, d, w
    <2>17. Good(q, c, p)
      BY <2>5, <2>7, <2>8, <2>11, <2>14, <2>16, FrameSent DEF Answer, w
    <2>18. Carries(r, q, room)
      BY <2>1, <2>6, <2>8 DEF Carries, Waits, Reaches, d
    <2> QED BY <2>1, <2>17, <2>18 DEF q
  <1> QED BY <1>2, <1>3

LEMMA RecoversOn ==
  ASSUME NEW w \in Seq(Frame), NEW f \in Frame, NEW c, NEW d, NEW e, RecoverOK(w, d, c),
         f.kind \notin Answer, e.token = d.token, e.recoveryEnd = d.recoveryEnd,
         e.completing => d.completing
  PROVE  RecoverOK(Append(w, f), e, c)
  <1> DEFINE v == Append(w, f)
  <1>1. \A k, n : Recovers(v, c, k, n) <=> Recovers(w, c, k, n)
    BY FollowsOfAppend
  <1>2. (\E i \in 1 .. Len(w) : IsComplete(w, d.token, i)) =>
           \E i \in 1 .. Len(v) : IsComplete(v, d.token, i)
    BY CompletesOfAppend
  <1> HIDE DEF v
  <1>3. RecoverOK(v, e, c)
    BY <1>1, <1>2 DEF RecoverOK
  <1> QED BY <1>3 DEF v

\* A frame that was refused: only its end is remembered, and the flush scheduled.
LEMMA AttemptKeeps ==
  ASSUME NEW r, NEW c, NEW p, Good(r, c, p), NEW end \in Positions, end <= r.record.received,
         r.record.token # 0, NEW room, NEW q \in RelayType,
         q.record = [r.record EXCEPT !.attempted = end], q.wire = r.wire, q.tokens = r.tokens,
         q.conn = r.conn, q.conns = r.conns, q.queue = r.queue, q.exit = r.exit,
         q.projected = r.projected, q.subscriber = r.subscriber
  PROVE  Good(q, c, p) /\ Carries(r, q, room)
  <1> DEFINE d == r.record
             e == [d EXCEPT !.attempted = end]
  <1>1. d \in RecordType
    BY RelayTypes DEF Good
  <1>2. /\ e.token = d.token /\ e.conn = d.conn /\ e.pending = d.pending
        /\ e.completing = d.completing /\ e.reserved = d.reserved /\ e.credited = d.credited
        /\ e.sent = d.sent /\ e.received = d.received /\ e.exit = d.exit /\ e.state = d.state
        /\ e.legacyExit = d.legacyExit /\ e.recoveryEnd = d.recoveryEnd
        /\ e.activating = d.activating /\ e.restore = d.restore
    BY <1>1 DEF RecordType
  <1>3. RecordOK(e, p)
    BY <1>1 DEF Good, RecordOK, RecordType
  <1> HIDE DEF d, e
  <1>4. ExitOK(q, c, p)
    BY <1>2 DEF Good, ExitOK, d, e
  <1>5. SameDelivery(r, q, c)
    BY <1>2 DEF Good, ConnOK, FollowOK, RecoverOK, KeepOK, SameDelivery, SentTo, Reaches, d, e
  <1>6. Good(q, c, p)
    BY <1>3, <1>4, <1>5, RecordChange DEF d, e
  <1>7. Carries(r, q, room)
    BY <1>2 DEF Carries, Waits, Reaches, d, e
  <1> QED BY <1>6, <1>7

\* The frame of a delivery that ends at position end.
NextFrame(d, end) ==
  [kind |-> "data", token |-> d.token, start |-> d.sent,
   units |-> SubSeq(d.held, d.sent - d.credited + 1, end - d.credited)]

InFlight(d, end) == [d EXCEPT !.pending = end, !.attempted = end]

\* The record may send a frame that ends at position end.
CanSend(d, end) ==
  /\ end \in Positions /\ d.token # 0 /\ d.state # "closed" /\ d.sent < end
  /\ end <= d.received /\ end <= d.credited + Window

\* It starts at the end of the last one and carries the units it names.
IsNextFrame(d, end, f) ==
  /\ f \in Frame /\ f.kind = "data" /\ f.token = d.token /\ f.start = d.sent
  /\ Len(f.units) > 0 /\ EndOf(f) = end
  /\ \A n \in 1 .. Len(f.units) : f.units[n] = f.start + n

\* q and r differ in the record, the timer, the reply and the wire at most.
SameBeside(r, q) ==
  /\ q.tokens = r.tokens /\ q.conn = r.conn /\ q.conns = r.conns /\ q.queue = r.queue
  /\ q.exit = r.exit /\ q.projected = r.projected /\ q.subscriber = r.subscriber

LEMMA NextFrameIs ==
  ASSUME NEW r, NEW c, NEW p, NEW end, Good(r, c, p), CanSend(r.record, end)
  PROVE  IsNextFrame(r.record, end, NextFrame(r.record, end))
  <1> DEFINE d == r.record
             m == d.sent - d.credited + 1
             n == end - d.credited
             u == SubSeq(d.held, m, n)
             f == [kind |-> "data", token |-> d.token, start |-> d.sent, units |-> u]
  <1>0. d \in RecordType /\ end \in Nat /\ d.sent < end /\ end <= d.received
    BY RelayTypes, Constants DEF Good, Positions, CanSend
  <1>1. /\ d.sent \in Nat /\ d.credited \in Nat /\ d.received \in Nat
        /\ d.token \in Nat /\ d.held \in Seq(1 .. MaxUnits)
    BY <1>0, RecordTypes
  <1>2. /\ d.credited <= d.sent /\ Len(d.held) = d.received - d.credited
        /\ \A i \in 1 .. Len(d.held) : d.held[i] = d.credited + i
    BY DEF Good, RecordOK, CanSend
  <1> HIDE DEF d
  <1>3. /\ m \in Nat /\ n \in Nat /\ m >= 1 /\ m <= n /\ n <= Len(d.held)
        /\ n - m + 1 = end - d.sent
    <2>1. n <= d.received - d.credited
      BY <1>0, <1>1
    <2>2. d.credited <= d.sent /\ Len(d.held) = d.received - d.credited
      BY <1>2
    <2> QED BY <1>0, <1>1, <2>1, <2>2, SMTT(30)
  <1>4. /\ u \in Seq(1 .. MaxUnits) /\ Len(u) = end - d.sent
        /\ \A i \in 1 .. Len(u) : u[i] = d.held[d.sent - d.credited + i]
    <2>1. m .. n \subseteq 1 .. Len(d.held)
      BY <1>2, <1>3
    <2>2. \A i \in 1 .. Len(d.held) : d.held[i] \in 1 .. MaxUnits
      BY <1>1, ElementOfSeq
    <2>3. \A i \in 1 .. end - d.sent : m + i - 1 = d.sent - d.credited + i
      BY <1>0, <1>1
    <2> HIDE DEF m, n
    <2>4. m \in Int /\ n \in Int /\ m <= n /\ \A i \in m .. n : d.held[i] \in 1 .. MaxUnits
      BY <1>3, <2>1, <2>2
    <2>5. /\ u \in Seq(1 .. MaxUnits) /\ Len(u) = n - m + 1
          /\ \A i \in 1 .. n - m + 1 : u[i] = d.held[m + i - 1]
      BY <2>4, SubSeqProperties
    <2> QED BY <1>3, <2>3, <2>5
  <1> HIDE DEF u
  <1>5. u \in Seq(Nat)
    <2>1. 1 .. MaxUnits \subseteq Nat
      BY Constants
    <2> QED BY <1>4, <2>1, SeqMonotonic
  <1>6. f \in Frame
    BY <1>1, <1>5 DEF Frame
  <1>7. Len(u) > 0 /\ d.sent + Len(u) = end
    BY <1>0, <1>1, <1>4
  <1>8. \A i \in 1 .. Len(u) : u[i] = d.sent + i
    <2>1. \A i \in 1 .. end - d.sent : /\ d.sent - d.credited + i \in 1 .. Len(d.held)
                                       /\ d.credited + (d.sent - d.credited + i) = d.sent + i
      BY <1>0, <1>1, <1>2, SMTT(30)
    <2> QED BY <1>2, <1>4, <2>1
  <1>9. EndOf(f) = end
    BY <1>7 DEF EndOf
  <1> QED BY <1>6, <1>7, <1>8, <1>9 DEF u, d, NextFrame, IsNextFrame

\* The frame goes to the connection of the delivery and is in flight.
LEMMA SendKeeps ==
  ASSUME NEW r, NEW c, NEW p, NEW end, Good(r, c, p), CanSend(r.record, end),
         r.record.pending = 0, Reaches(r), NEW room,
         NEW f, IsNextFrame(r.record, end, f), NEW q \in RelayType, SameBeside(r, q),
         q.record = InFlight(r.record, end), q.wire = Append(r.wire, f)
  PROVE  Good(q, c, p) /\ Carries(r, q, room) /\ ~Waits(q)
  <1> DEFINE d == r.record
             e == InFlight(d, end)
             w == r.wire
  <1> USE DEF SameBeside, CanSend
  <1>0. /\ f \in Frame /\ f.kind = "data" /\ f.token = d.token /\ f.start = d.sent
        /\ Len(f.units) > 0 /\ EndOf(f) = end
        /\ \A n \in 1 .. Len(f.units) : f.units[n] = f.start + n
    BY DEF IsNextFrame
  <1>1. /\ d \in RecordType /\ w \in Seq(Frame) /\ c \in ClientType /\ p \in Program
        /\ r.tokens \in Nat /\ p.written \in Nat /\ end \in Nat /\ r.conn # 0
    BY RelayTypes, Constants DEF Good, Positions, Reaches
  <1>2. /\ e.token = d.token /\ e.conn = d.conn /\ e.pending = end
        /\ e.completing = d.completing /\ e.reserved = d.reserved /\ e.credited = d.credited
        /\ e.sent = d.sent /\ e.received = d.received /\ e.exit = d.exit /\ e.state = d.state
        /\ e.legacyExit = d.legacyExit /\ e.recoveryEnd = d.recoveryEnd
        /\ e.activating = d.activating /\ e.restore = d.restore
    BY <1>1 DEF RecordType, InFlight
  <1>3. RecordOK(e, p)
    BY <1>1 DEF Good, RecordOK, RecordType, InFlight
  <1>4. d.reserved = 0 /\ end # 0 /\ end <= p.written /\ d.received \in Nat /\ d.sent \in Nat
    <2>1. d.received \in Nat /\ d.sent \in Nat
      BY <1>1, RecordTypes
    <2>2. d.received <= p.written
      BY DEF Good, RecordOK
    <2>3. d.reserved = 0
      BY DEF Good, ConnOK
    <2> QED BY <1>1, <2>1, <2>2, <2>3
  <1> HIDE DEF d, e, w
  <1>5. \A at \in Nat : Follows(w, c, d.token, at) =>
          d.credited <= at /\ d.reserved <= at /\ Leads(w, d.token, at, Len(w) + 1, d.sent)
    BY DEF Good, FollowOK, SentTo, d, w
  <1>6. WireOK(q.wire, q.tokens, c, p)
    <2>1. WireOK(w, r.tokens, c, p) /\ f.kind \notin Answer
      BY <1>0 DEF Good, Answer, w
    <2>2. f.token = d.token /\ f.start = d.sent /\ EndOf(f) <= p.written
      BY <1>0, <1>4 DEF d
    <2>3. d.token <= r.tokens
      BY RelayTypes DEF Good, ConnOK, CanSend, d
    <2>4. WireOK(Append(w, f), r.tokens, c, p)
      BY <1>0, <1>1, <1>5, <2>1, <2>2, <2>3, WireOfAppend
    <2> QED BY <2>4 DEF w
  <1>7. \A at \in Nat : Follows(w, c, e.token, at) =>
          Leads(q.wire, e.token, at, Len(q.wire) + 1, SentTo(e))
    <2>1. Len(q.wire) = Len(w) + 1 /\ q.wire = Append(w, f)
      BY <1>0, <1>1, FramesOfAppend DEF w
    <2>2. f.token = d.token /\ f.start = d.sent /\ SentTo(e) = EndOf(f) /\ EndOf(f) \in Nat
      BY <1>0, <1>1, <1>2, <1>4 DEF d, SentTo
    <2>3. \A at \in Nat : Leads(w, d.token, at, Len(w) + 1, f.start) =>
            Leads(Append(w, f), d.token, at, Len(w) + 1 + 1, EndOf(f))
      BY <1>0, <1>1, <2>2, LeadsOfAppend
    <2> QED BY <1>2, <1>5, <2>1, <2>2, <2>3
  <1>8. RecoverOK(q.wire, e, c)
    <2>1. RecoverOK(w, d, c) /\ f.kind \notin Answer
      BY <1>0 DEF Good, Answer, d, w
    <2>2. RecoverOK(Append(w, f), e, c)
      BY <1>0, <1>1, <1>2, <2>1, RecoversOn
    <2> QED BY <2>2 DEF w
  <1>9. ExitOK(q, c, p)
    <2>1. \A i : IsExit(Append(w, f), i) <=> IsExit(w, i)
      BY <1>0, <1>1, NoExitOfAppend
    <2> QED BY <1>2, <2>1 DEF Good, ExitOK, IsExit, d, e, w
  <1>10. KeepOK(e, c)
    BY <1>2 DEF Good, KeepOK, d
  <1>11. SentDelivery(r, q, c)
    <2>1. q.record = e
      BY DEF d, e
    <2> QED BY <1>2, <1>4, <1>5, <1>7, <1>8, <1>10, <2>1 DEF SentDelivery, d, w
  <1>12. Good(q, c, p)
    BY <1>0, <1>1, <1>3, <1>6, <1>9, <1>11, FrameSent DEF Answer, d, e, w
  <1>13. Carries(r, q, room) /\ ~Waits(q)
    BY <1>2, <1>4 DEF Carries, Waits, d, e
  <1> QED BY <1>12, <1>13

\* One more frame is sent or refused; what still waits was refused.
LEMMA PumpKeeps ==
  ASSUME NEW r, NEW c, NEW p, NEW room \in Rooms, Good(r, c, p)
  PROVE  /\ Good(Pump(r, room), c, p)
         /\ Carries(r, Pump(r, room), room)
         /\ room.fits = "all" => ~Waits(Pump(r, room))
  <1> DEFINE d   == r.record
             end == FrameEnd(r, room)
             f   == NextFrame(d, end)
             q   == Pump(r, room)
  <1>1. r \in RelayType /\ d \in RecordType /\ RecordOK(d, p) /\ ConnOK(r, c) /\ p \in Program
    BY RelayTypes DEF Good
  <1>2. CASE d.token = 0 \/ d.activating \/ d.pending # 0 \/ d.restore
    <2>1. q = r
      BY <1>2 DEF Pump
    <2>2. ~Waits(r)
      BY <1>1, <1>2 DEF Waits, RecordOK, NoRecord
    <2> QED BY <2>1, <2>2 DEF Carries
  <1>3. ASSUME d.token # 0, ~d.activating, d.pending = 0, ~d.restore,
               d.recoveryEnd # 0, d.sent >= d.recoveryEnd
        PROVE  Good(q, c, p) /\ Carries(r, q, room) /\ (room.fits = "all" => ~Waits(q))
    <2>1. q = CompleteRecovery(r, room)
      BY <1>3 DEF Pump
    <2>2. Good(q, c, p) /\ Carries(r, q, room)
      BY <2>1, CompleteRecoveryKeeps
    <2>3. ~Waits(r)
      BY <1>1, <1>3, RecordTypes DEF Waits, RecordOK
    <2> QED BY <2>2, <2>3 DEF Carries
  <1>4. ASSUME d.token # 0, ~d.activating, d.pending = 0, ~d.restore,
               ~(d.recoveryEnd # 0 /\ d.sent >= d.recoveryEnd)
        PROVE  Good(q, c, p) /\ Carries(r, q, room) /\ (room.fits = "all" => ~Waits(q))
    <2>1. CASE end = 0
      <3>1. q = r
        BY <1>4, <2>1 DEF Pump
      <3>2. room.fits = "all" => ~Waits(r)
        BY <1>1, <2>1, WaitingFrame
      <3> QED BY <3>1, <3>2 DEF Carries
    <2>2. CASE end # 0
      <3>1. /\ end \in Positions /\ d.sent < end /\ end <= d.received
            /\ end <= d.credited + Window /\ d.state # "closed"
        BY <1>1, <2>2, FrameEndIs
      <3> HIDE DEF end
      <3>2. CASE Reaches(r) /\ room.fits = "all"
        <4> DEFINE s == [r EXCEPT !.record.pending = end, !.record.attempted = end]
        <4>1. q = Write(s, f)
          BY <1>4, <2>2, <3>2 DEF Pump, NextFrame, end
        <4>2. CanSend(d, end) /\ IsNextFrame(d, end, f) /\ f \in Frame
          <5>1. CanSend(d, end)
            BY <1>4, <3>1 DEF CanSend
          <5>2. IsNextFrame(d, end, f)
            BY <5>1, NextFrameIs
          <5> QED BY <5>1, <5>2 DEF IsNextFrame
        <4>3. s \in RelayType
          BY <1>1, <3>1, DeliveryUpdates, Zenon
        <4>4. s.record = InFlight(d, end) /\ s.wire = r.wire /\ SameBeside(r, s)
          BY <1>1 DEF RelayType, RecordType, InFlight, SameBeside
        <4>5. r.conn # 0
          BY <3>2 DEF Reaches
        <4> DEFINE v == Write(s, f)
        <4> HIDE DEF s, f, q
        <4>6. /\ v \in RelayType /\ v.record = s.record /\ v.wire = Append(s.wire, f)
              /\ SameBeside(s, v)
          BY <4>2, <4>3, <4>4, <4>5, Written DEF SameBeside
        <4> HIDE DEF v
        <4>7. v.record = InFlight(d, end) /\ v.wire = Append(r.wire, f) /\ SameBeside(r, v)
          BY <4>4, <4>6 DEF SameBeside
        <4>8. Good(v, c, p) /\ Carries(r, v, room) /\ ~Waits(v)
          BY <1>4, <3>2, <4>2, <4>6, <4>7, SendKeeps
        <4> QED BY <4>1, <4>8 DEF v
      <3>3. ASSUME ~(Reaches(r) /\ room.fits = "all"),
                   NEW s \in RelayType, s.record = [d EXCEPT !.attempted = end],
                   s.wire = r.wire, s.tokens = r.tokens, s.conn = r.conn,
                   s.conns = r.conns, s.queue = r.queue, s.exit = r.exit,
                   s.projected = r.projected, s.subscriber = r.subscriber
            PROVE  Good(s, c, p) /\ Carries(r, s, room) /\ (room.fits = "all" => ~Waits(s))
        <4>1. Good(s, c, p) /\ Carries(r, s, room)
          BY <1>4, <3>1, <3>3, AttemptKeeps
        <4>2. room.fits = "all" => ~Waits(r)
          BY <3>3 DEF Waits
        <4> QED BY <4>1, <4>2 DEF Carries
      <3>4. CASE ~(Reaches(r) /\ room.fits = "all") /\ r.queue # <<>>
        <4> DEFINE s == [r EXCEPT !.record.attempted = end, !.timer = TRUE]
        <4>1. q = s
          BY <1>4, <2>2, <3>4 DEF Pump, end
        <4>2. s \in RelayType
          BY <1>1, <3>1, RelayUpdates, DeliveryUpdates, Zenon
        <4>3. /\ s.record = [d EXCEPT !.attempted = end]
              /\ s.wire = r.wire /\ s.tokens = r.tokens /\ s.conn = r.conn
              /\ s.conns = r.conns /\ s.queue = r.queue /\ s.exit = r.exit
              /\ s.projected = r.projected /\ s.subscriber = r.subscriber
          BY <1>1 DEF RelayType, RecordType
        <4> HIDE DEF s, q
        <4> QED BY <3>3, <3>4, <4>1, <4>2, <4>3
      <3>5. CASE ~(Reaches(r) /\ room.fits = "all") /\ r.queue = <<>> /\ r.exit # "pending"
        <4> DEFINE s == [r EXCEPT !.record.attempted = end]
        <4>1. q = s
          BY <1>4, <2>2, <3>5 DEF Pump, end
        <4>2. s \in RelayType
          BY <1>1, <3>1, RelayUpdates, DeliveryUpdates, Zenon
        <4>3. /\ s.record = [d EXCEPT !.attempted = end]
              /\ s.wire = r.wire /\ s.tokens = r.tokens /\ s.conn = r.conn
              /\ s.conns = r.conns /\ s.queue = r.queue /\ s.exit = r.exit
              /\ s.projected = r.projected /\ s.subscriber = r.subscriber
          BY <1>1 DEF RelayType, RecordType
        <4> HIDE DEF s, q
        <4> QED BY <3>3, <3>5, <4>1, <4>2, <4>3
      <3>6. CASE ~(Reaches(r) /\ room.fits = "all") /\ r.queue = <<>> /\ r.exit = "pending"
        <4> DEFINE s == [r EXCEPT !.record = NoRecord]
        <4>1. q = AfterRetire(s, room)
          BY <1>4, <2>2, <3>6 DEF Pump, end
        <4>2. d.exit = "idle"
          <5>1. d.sent \in Nat /\ d.received \in Nat /\ end \in Nat
            BY <1>1, <3>1, RecordTypes, Constants DEF Positions
          <5>2. d.sent # d.received
            BY <3>1, <5>1
          <5> QED BY <1>1, <5>2 DEF RecordOK
        <4>3. Good(s, c, p)
          BY <4>2, DropKeeps
        <4>4. s.record = NoRecord /\ s.exit = "pending" /\ s.queue = r.queue
          BY <1>1, <3>6 DEF RelayType
        <4> HIDE DEF s, q
        <4>5. Good(q, c, p) /\ Carries(s, q, room)
          BY <4>1, <4>3, <4>4, AfterRetireKeeps, NoRecordTypes
        <4>6. Carries(r, s, room) /\ ~Waits(s)
          BY <4>4, NoneWaits, NoRecordTypes DEF Carries
        <4>7. Carries(r, q, room)
          BY <4>5, <4>6, CarriesOn
        <4> QED BY <4>5, <4>6, <4>7 DEF Carries
      <3> QED BY <3>2, <3>4, <3>5, <3>6
    <2> QED BY <2>1, <2>2
  <1> QED BY <1>2, <1>3, <1>4

\* Pump leaves the state and the exit of the delivery alone, unless it retires it.
LEMMA PumpSame ==
  ASSUME NEW r, NEW c, NEW p, NEW room \in Rooms, Good(r, c, p), Pump(r, room).record.token # 0
  PROVE  LET q == Pump(r, room)
         IN  /\ q.exit = r.exit /\ q.projected = r.projected /\ q.subscriber = r.subscriber
             /\ q.queue = r.queue /\ q.record.token = r.record.token
             /\ q.record.state = r.record.state /\ q.record.exit = r.record.exit
             /\ q.record.legacyExit = r.record.legacyExit
             /\ q.record.received = r.record.received
  <1> DEFINE d   == r.record
             end == FrameEnd(r, room)
             q   == Pump(r, room)
  <1>1. r \in RelayType /\ d \in RecordType
    BY RelayTypes DEF Good
  <1>2. ASSUME NEW s \in RelayType, s.exit = r.exit, s.projected = r.projected,
               s.subscriber = r.subscriber, s.queue = r.queue, s.record.token = d.token,
               s.record.state = d.state, s.record.exit = d.exit,
               s.record.legacyExit = d.legacyExit, s.record.received = d.received,
               NEW f \in Frame, q = Write(s, f)
        PROVE  /\ q.exit = r.exit /\ q.projected = r.projected /\ q.subscriber = r.subscriber
               /\ q.queue = r.queue /\ q.record.token = d.token
               /\ q.record.state = d.state /\ q.record.exit = d.exit
               /\ q.record.legacyExit = d.legacyExit /\ q.record.received = d.received
    <2> DEFINE v == Write(s, f)
    <2>1. /\ v.record = s.record /\ v.queue = s.queue /\ v.exit = s.exit
          /\ v.projected = s.projected /\ v.subscriber = s.subscriber
      BY Written
    <2> HIDE DEF v
    <2>2. q = v
      BY <1>2 DEF v
    <2> HIDE DEF q, d
    <2> QED BY <1>2, <2>1, <2>2
  <1>3. CASE q = r
    BY <1>3
  <1>4. CASE q = CompleteRecovery(r, room) /\ q # r
    <2> DEFINE s == [r EXCEPT !.record.completing = TRUE]
               f == [kind |-> "complete", token |-> d.token]
    <2>1. q = Write(s, f)
      BY <1>4 DEF CompleteRecovery
    <2>2. s \in RelayType
      BY <1>1, DeliveryUpdates
    <2>3. f \in Frame
      BY <1>1, RecordTypes DEF Frame
    <2>4. /\ s.exit = r.exit /\ s.projected = r.projected /\ s.subscriber = r.subscriber
          /\ s.queue = r.queue /\ s.record.token = d.token /\ s.record.state = d.state
          /\ s.record.exit = d.exit /\ s.record.legacyExit = d.legacyExit
          /\ s.record.received = d.received
      BY <1>1 DEF RelayType, RecordType
    <2> HIDE DEF s, f, q, d
    <2>5. q.exit = r.exit /\ q.projected = r.projected /\ q.subscriber = r.subscriber
               /\ q.queue = r.queue /\ q.record.token = d.token
               /\ q.record.state = d.state /\ q.record.exit = d.exit
               /\ q.record.legacyExit = d.legacyExit /\ q.record.received = d.received
      BY <1>2, <2>1, <2>2, <2>3, <2>4
    <2> QED BY <2>5 DEF q, d
  <1>5. CASE end # 0 /\ d.token # 0 /\ q = Write([r EXCEPT !.record.pending = end,
                                     !.record.attempted = end], NextFrame(d, end))
    <2> DEFINE s == [r EXCEPT !.record.pending = end, !.record.attempted = end]
               f == NextFrame(d, end)
    <2>1. /\ end \in Positions /\ d.sent < end /\ end <= d.received
          /\ end <= d.credited + Window /\ d.state # "closed"
      BY <1>1, <1>5, FrameEndIs DEF Good
    <2> HIDE DEF end
    <2>2. s \in RelayType
      BY <1>1, <2>1, DeliveryUpdates, Zenon
    <2>3. CanSend(d, end)
      BY <1>5, <2>1 DEF CanSend
    <2>4. f \in Frame
      <3>1. IsNextFrame(d, end, f)
        BY <2>3, NextFrameIs
      <3> QED BY <3>1 DEF IsNextFrame
    <2>5. /\ s.exit = r.exit /\ s.projected = r.projected /\ s.subscriber = r.subscriber
          /\ s.queue = r.queue /\ s.record.token = d.token /\ s.record.state = d.state
          /\ s.record.exit = d.exit /\ s.record.legacyExit = d.legacyExit
          /\ s.record.received = d.received
      BY <1>1 DEF RelayType, RecordType
    <2>6. q = Write(s, f)
      BY <1>5 DEF end
    <2> HIDE DEF s, f, q, d
    <2>7. q.exit = r.exit /\ q.projected = r.projected /\ q.subscriber = r.subscriber
               /\ q.queue = r.queue /\ q.record.token = d.token
               /\ q.record.state = d.state /\ q.record.exit = d.exit
               /\ q.record.legacyExit = d.legacyExit /\ q.record.received = d.received
      BY <1>2, <2>2, <2>4, <2>5, <2>6
    <2> QED BY <2>7 DEF q, d
  <1>6. CASE \/ q = [r EXCEPT !.record.attempted = end]
             \/ q = [r EXCEPT !.record.attempted = end, !.timer = TRUE]
    <2> HIDE DEF end, q
    <2>1. /\ q.exit = r.exit /\ q.projected = r.projected /\ q.subscriber = r.subscriber
          /\ q.queue = r.queue /\ q.record.token = d.token
          /\ q.record.state = d.state /\ q.record.exit = d.exit
          /\ q.record.legacyExit = d.legacyExit /\ q.record.received = d.received
      <3>1. CASE q = [r EXCEPT !.record.attempted = end]
        BY <1>1, <3>1 DEF RelayType, RecordType
      <3>2. CASE q = [r EXCEPT !.record.attempted = end, !.timer = TRUE]
        BY <1>1, <3>2 DEF RelayType, RecordType
      <3> QED BY <1>6, <3>1, <3>2
    <2> QED BY <2>1 DEF q
  <1>7. CASE q = AfterRetire([r EXCEPT !.record = NoRecord], room)
    <2> DEFINE s == [r EXCEPT !.record = NoRecord]
    <2>1. s \in RelayType /\ s.record = NoRecord
      BY <1>1, RelayUpdates, NoRecordTypes DEF RelayType
    <2> HIDE DEF s
    <2>2. Broadcast(s, room).record = NoRecord /\ ToOwner(s, room).record = NoRecord
      BY <2>1 DEF Broadcast, ToOwner, Write, RelayType
    <2>3. q.record = NoRecord
      BY <1>7, <2>2 DEF AfterRetire, s
    <2> QED BY <2>3, NoRecordTypes
  <1>8. \/ q = r
        \/ q = CompleteRecovery(r, room)
        \/ end # 0 /\ d.token # 0 /\ q = Write([r EXCEPT !.record.pending = end,
                                     !.record.attempted = end], NextFrame(d, end))
        \/ q = [r EXCEPT !.record.attempted = end]
        \/ q = [r EXCEPT !.record.attempted = end, !.timer = TRUE]
        \/ q = AfterRetire([r EXCEPT !.record = NoRecord], room)
    <2> HIDE DEF end
    <2> QED BY DEF Pump, NextFrame, end
  <1> QED BY <1>3, <1>4, <1>5, <1>6, <1>7, <1>8

SourceExit == [kind |-> "exit", by |-> "source"]

LEMMA SourceExitIs ==
  SourceExit \in Frame /\ SourceExit.kind = "exit" /\ SourceExit.by = "source"
  BY DEF SourceExit, Frame

\* With the queue empty the delivery has received all output.
LEMMA AllReceived ==
  ASSUME NEW r, NEW p, QueueOK(r, p), r.queue = <<>>, r.record.token # 0,
         r.record.state # "closed"
  PROVE  r.record.received = p.written
  BY DEF QueueOK, QueueIsOutputAfter

\* Sealing: no more output is taken.
LEMMA SealKeeps ==
  ASSUME NEW r, NEW c, NEW p, NEW room, Good(r, c, p), r.record.token # 0,
         r.record.state # "closed", r.exit # "none"
  PROVE  LET q == [r EXCEPT !.record.state = "sealed"]
         IN  /\ Good(q, c, p) /\ Carries(r, q, room)
             /\ q.record.token = r.record.token /\ q.record.state = "sealed"
             /\ q.record.exit = r.record.exit /\ q.record.received = r.record.received
             /\ q.exit = r.exit /\ q.queue = r.queue
  <1> DEFINE q == [r EXCEPT !.record.state = "sealed"]
             d == r.record
             e == [d EXCEPT !.state = "sealed"]
  <1>1. r \in RelayType /\ d \in RecordType
    BY RelayTypes DEF Good
  <1>2. q \in RelayType
    BY <1>1, DeliveryUpdates
  <1>3. q.record = e /\ q.wire = r.wire /\ SameBeside(r, q)
    BY <1>1 DEF RelayType, SameBeside
  <1>4. /\ e.token = d.token /\ e.conn = d.conn /\ e.pending = d.pending
        /\ e.completing = d.completing /\ e.reserved = d.reserved /\ e.credited = d.credited
        /\ e.sent = d.sent /\ e.received = d.received /\ e.exit = d.exit /\ e.state = "sealed"
        /\ e.legacyExit = d.legacyExit /\ e.recoveryEnd = d.recoveryEnd
        /\ e.activating = d.activating /\ e.restore = d.restore
    BY <1>1 DEF RecordType
  <1>5. RecordOK(e, p)
    BY <1>1 DEF Good, RecordOK, RecordType
  <1> HIDE DEF q, d, e
  <1>6. ExitOK(q, c, p)
    BY <1>3, <1>4 DEF Good, ExitOK, SameBeside, d
  <1>7. SameDelivery(r, q, c)
    BY <1>3, <1>4 DEF Good, ConnOK, FollowOK, RecoverOK, KeepOK, SameDelivery, SentTo, Reaches, d
  <1>8. Good(q, c, p)
    BY <1>2, <1>3, <1>5, <1>6, <1>7, RecordChange DEF SameBeside
  <1>9. Carries(r, q, room)
    BY <1>3, <1>4 DEF Carries, Waits, Reaches, SameBeside, d
  <1> QED BY <1>3, <1>4, <1>8, <1>9 DEF q, d, SameBeside

\* The exit is projected to the subscribers, one time.
LEMMA ProjectKeeps ==
  ASSUME NEW r, NEW c, NEW p, NEW room, Good(r, c, p), r.record.token # 0,
         r.record.state = "sealed", r.exit = "pending", ~r.record.legacyExit
  PROVE  LET q == [r EXCEPT !.record.legacyExit = TRUE, !.projected = TRUE, !.subscriber = @ + 1]
         IN  /\ Good(q, c, p) /\ Carries(r, q, room) /\ Reaches(q) = Reaches(r)
             /\ q.record = [r.record EXCEPT !.legacyExit = TRUE]
             /\ q.exit = r.exit /\ q.queue = r.queue
  <1> DEFINE q == [r EXCEPT !.record.legacyExit = TRUE, !.projected = TRUE,
                            !.subscriber = r.subscriber + 1]
             d == r.record
             e == [d EXCEPT !.legacyExit = TRUE]
  <1>1. r \in RelayType /\ d \in RecordType /\ r.subscriber + 1 \in Nat
    BY RelayTypes DEF Good
  <1>2. q \in RelayType
    BY <1>1, DeliveryUpdates, RelayUpdates, Zenon
  <1>3. /\ q.record = e /\ q.wire = r.wire /\ q.tokens = r.tokens /\ q.conn = r.conn
        /\ q.conns = r.conns /\ q.queue = r.queue /\ q.exit = r.exit
        /\ q.projected = TRUE /\ q.subscriber = r.subscriber + 1
    BY <1>1 DEF RelayType
  <1>4. /\ e.token = d.token /\ e.conn = d.conn /\ e.pending = d.pending
        /\ e.completing = d.completing /\ e.reserved = d.reserved /\ e.credited = d.credited
        /\ e.sent = d.sent /\ e.received = d.received /\ e.exit = d.exit /\ e.state = d.state
        /\ e.legacyExit = TRUE /\ e.recoveryEnd = d.recoveryEnd
        /\ e.activating = d.activating /\ e.restore = d.restore
    BY <1>1 DEF RecordType
  <1>5. RecordOK(e, p)
    BY <1>1 DEF Good, RecordOK, RecordType
  <1>6. r.subscriber = 0
    BY DEF Good, ExitOK
  <1> HIDE DEF q, d, e
  <1>7. ExitOK(q, c, p)
    BY <1>3, <1>4, <1>6 DEF Good, ExitOK, d
  <1>8. SameDelivery(r, q, c)
    BY <1>3, <1>4 DEF Good, ConnOK, FollowOK, RecoverOK, KeepOK, SameDelivery, SentTo, Reaches, d
  <1>9. Good(q, c, p)
    BY <1>2, <1>3, <1>5, <1>7, <1>8, RecordChange
  <1>10. Carries(r, q, room) /\ Reaches(q) = Reaches(r)
    BY <1>3, <1>4 DEF Carries, Waits, Reaches, d
  <1> QED BY <1>3, <1>9, <1>10 DEF q, d, e

\* A client that recovers a delivery follows it.
LEMMA RecovererFollows ==
  ASSUME NEW w \in Seq(Frame), NEW c \in ClientType, NEW k, NEW e, Recovers(w, c, k, e)
  PROVE  \E at \in Nat : Follows(w, c, k, at)
  <1>1. \A i \in 1 .. Len(w) : w[i] \in Frame
    BY FrameAt
  <1>2. \A g \in Frame : g.kind = "recovery" => g.start \in Nat
    BY DEF Frame
  <1>3. c.next \in Nat
    BY DEF ClientType
  <1> QED BY <1>1, <1>2, <1>3 DEF Follows, Recovers

\* The exit frame of the delivery: all output was sent, so every client that follows the
\* delivery has taken it all when this frame comes.
LEMMA SourceExitSent ==
  ASSUME NEW r, NEW c, NEW p, NEW room, Good(r, c, p), r.record.token # 0,
         r.record.state = "sealed", r.record.exit = "idle",
         r.record.sent = p.written, r.record.received = p.written,
         r.exit = "pending", r.queue = <<>>, Reaches(r)
  PROVE  LET q == Write([r EXCEPT !.record.exit = "pending"], SourceExit)
         IN  Good(q, c, p) /\ Carries(r, q, room)
  <1> DEFINE d == r.record
             e == [d EXCEPT !.exit = "pending"]
             s == [r EXCEPT !.record.exit = "pending"]
             w == r.wire
             f == SourceExit
             q == Write(s, f)
  <1>1. /\ r \in RelayType /\ d \in RecordType /\ w \in Seq(Frame) /\ c \in ClientType
        /\ p \in Program /\ r.tokens \in Nat /\ p.written \in Nat /\ r.conn # 0
    BY RelayTypes DEF Good, Reaches
  <1>2. d.pending = 0 /\ d.reserved = 0 /\ ~d.restore
    <2>1. d.pending \in Nat
      BY <1>1, RecordTypes
    <2>2. d.pending = 0 /\ ~d.restore
      BY <1>1, <2>1 DEF Good, RecordOK
    <2> QED BY <2>2 DEF Good, ConnOK
  <1>3. s \in RelayType
    BY <1>1, DeliveryUpdates
  <1>4. s.record = e /\ s.wire = w /\ SameBeside(r, s)
    BY <1>1 DEF RelayType, SameBeside
  <1>5. /\ e.token = d.token /\ e.conn = d.conn /\ e.pending = d.pending
        /\ e.completing = d.completing /\ e.reserved = d.reserved /\ e.credited = d.credited
        /\ e.sent = d.sent /\ e.received = d.received /\ e.exit = "pending" /\ e.state = d.state
        /\ e.legacyExit = d.legacyExit /\ e.recoveryEnd = d.recoveryEnd
        /\ e.activating = d.activating /\ e.restore = d.restore
    BY <1>1 DEF RecordType
  <1>6. RecordOK(e, p)
    BY <1>1, <1>2 DEF Good, RecordOK, RecordType
  <1> HIDE DEF d, e, s, w, f, q
  <1>7. f \in Frame /\ f.kind = "exit" /\ f.by = "source" /\ f.kind \notin Answer
    BY SourceExitIs DEF f, Answer
  <1>8. q \in RelayType /\ q.record = e /\ q.wire = Append(w, f) /\ SameBeside(r, q)
    <2>1. s.conn # 0
      BY <1>1, <1>4 DEF SameBeside
    <2>2. q \in RelayType /\ q.record = s.record /\ q.wire = Append(s.wire, f) /\ SameBeside(s, q)
      BY <1>3, <1>7, <2>1, Written DEF SameBeside, q
    <2> QED BY <1>4, <2>2 DEF SameBeside
  <1>9. /\ c.exits = 0 /\ \A i \in 1 .. Len(w) : ~IsExit(w, i)
    <2>1. c.exits \in Nat /\ c.exits <= 1
      BY <1>1 DEF Good, ClientType, ExitOK
    <2> QED BY <1>1, <2>1 DEF Good, ExitOK, w, d
  <1>10. d.token = r.tokens /\ SentTo(d) = p.written /\ SentTo(e) = p.written
    BY <1>2, <1>5 DEF Good, ConnOK, SentTo, d
  <1>11. \A k, at \in Nat : Follows(w, c, k, at) =>
           /\ k = d.token /\ d.credited <= at /\ Leads(w, k, at, Len(w) + 1, p.written)
    BY <1>10 DEF Good, WireOK, ChainOK, FollowOK, d, w
  <1>12. \A k, n \in Nat : Recovers(w, c, k, n) =>
           n = p.written \/ \E j \in 1 .. Len(w) : IsComplete(w, k, j)
    <2> SUFFICES ASSUME NEW k \in Nat, NEW n \in Nat, Recovers(w, c, k, n)
                 PROVE  n = p.written \/ \E j \in 1 .. Len(w) : IsComplete(w, k, j)
      OBVIOUS
    <2>1. k = d.token
      BY <1>1, <1>11, RecovererFollows
    <2>2. d.recoveryEnd # 0 => d.recoveryEnd = p.written
      BY DEF Good, RecordOK, d
    <2> QED BY <2>1, <2>2 DEF Good, RecoverOK, d, w
  <1>13. WireOK(q.wire, q.tokens, c, p)
    <2>1. WireOK(w, r.tokens, c, p)
      BY DEF Good, w
    <2>2. WireOK(Append(w, f), r.tokens, c, p)
      BY <1>1, <1>7, <1>11, <1>12, <2>1, WireOfAppend
    <2> QED BY <1>8, <2>2 DEF SameBeside
  <1>14. RecoverOK(q.wire, e, c)
    <2>1. RecoverOK(w, d, c)
      BY DEF Good, d, w
    <2>2. RecoverOK(Append(w, f), e, c)
      BY <1>1, <1>5, <1>7, <2>1, RecoversOn
    <2> QED BY <1>8, <2>2
  <1>15. ExitOK(q, c, p)
    <2>1. \A i : IsExit(q.wire, i) => i = Len(w) + 1
      <3>1. \A i : IsExit(q.wire, i) <=> IsExit(w, i) \/ (i = Len(w) + 1 /\ f.kind = "exit")
        BY <1>1, <1>7, <1>8, KindsOfAppend
      <3>2. \A i : IsExit(w, i) => i \in 1 .. Len(w)
        BY DEF IsExit
      <3> QED BY <1>9, <3>1, <3>2
    <2>2. e.token = r.record.token /\ e.exit = "pending" /\ e.state = r.record.state
          /\ e.legacyExit = r.record.legacyExit
      BY <1>5 DEF d
    <2> QED BY <1>8, <1>9, <2>1, <2>2 DEF Good, ExitOK, SameBeside
  <1>16. \A at \in Nat : Follows(w, c, e.token, at) =>
           Leads(q.wire, e.token, at, Len(q.wire) + 1, SentTo(e))
    <2>1. \A at \in Nat : Leads(w, d.token, at, Len(w) + 1, p.written) =>
             Leads(Append(w, f), d.token, at, Len(Append(w, f)) + 1, p.written)
      BY <1>1, <1>7, LeadsBeyond
    <2>2. d.token \in Nat
      BY <1>1, RecordTypes
    <2> QED BY <1>5, <1>8, <1>10, <1>11, <2>1, <2>2
  <1>17. SentDelivery(r, q, c)
    <2>1. KeepOK(e, c)
      BY <1>5 DEF Good, KeepOK, d
    <2>2. q.record = e
      BY <1>8
    <2>3. \A at \in Nat : Follows(w, c, e.token, at) => e.credited <= at /\ e.reserved <= at
      <3>1. d.token \in Nat
        BY <1>1, RecordTypes
      <3> QED BY <1>2, <1>5, <1>11, <3>1
    <2>4. e.reserved = 0 /\ e.token = r.record.token /\ e.conn = r.record.conn /\ e.pending = 0
      BY <1>2, <1>5 DEF d
    <2> QED BY <1>14, <1>16, <2>1, <2>2, <2>3, <2>4 DEF SentDelivery, w
  <1>18. Good(q, c, p)
    BY <1>1, <1>6, <1>7, <1>8, <1>13, <1>15, <1>17, FrameSent DEF SameBeside, w
  <1>19. Carries(r, q, room)
    <2>1. Waits(q) => Waits(r)
      BY <1>5, <1>8 DEF Waits, Reaches, SameBeside, d
    <2> QED BY <1>5, <1>8, <2>1 DEF Carries, SameBeside, d
  <1> QED BY <1>18, <1>19 DEF q, s, f

LEMMA SealAndPublishKeeps ==
  ASSUME NEW r, NEW c, NEW p, NEW room \in Rooms, Good(r, c, p), QueueOK(r, p),
         r.queue = <<>>, r.exit = "pending", r.record.token # 0,
         r.record.state # "closed", r.record.exit = "idle"
  PROVE  /\ Good(SealAndPublishExit(r, room), c, p)
         /\ Carries(r, SealAndPublishExit(r, room), room)
  <1> DEFINE s == [r EXCEPT !.record.state = "sealed"]
             t == Pump(s, room)
             q == IF t.record.legacyExit THEN t
                  ELSE [t EXCEPT !.record.legacyExit = TRUE, !.projected = TRUE,
                                 !.subscriber = @ + 1]
             v == Write([q EXCEPT !.record.exit = "pending"], SourceExit)
  <1>1. SealAndPublishExit(r, room) =
          IF t.record.token = 0 \/ t.record.sent # t.record.received THEN t
          ELSE IF Reaches(q) /\ room.fits # "none" THEN v ELSE q
    BY DEF SealAndPublishExit, SourceExit
  <1>2. /\ Good(s, c, p) /\ Carries(r, s, room)
        /\ s.record.token = r.record.token /\ s.record.state = "sealed"
        /\ s.record.exit = "idle" /\ s.exit = "pending" /\ s.queue = <<>>
    BY SealKeeps
  <1> HIDE DEF s
  <1>3. Good(t, c, p) /\ Carries(s, t, room)
    BY <1>2, PumpKeeps
  <1>4. t.record.token # 0 =>
          /\ t.record.state = "sealed" /\ t.record.exit = "idle" /\ t.exit = "pending"
          /\ t.queue = <<>>
    BY <1>2, PumpSame
  <1> HIDE DEF t
  <1>5. Carries(r, t, room)
    BY <1>2, <1>3, CarriesOn
  <1>6. CASE t.record.token = 0 \/ t.record.sent # t.record.received
    BY <1>1, <1>3, <1>5, <1>6
  <1>7. CASE t.record.token # 0 /\ t.record.sent = t.record.received
    <2>1. t.record.received = p.written
      <3>1. QueueOK(t, p)
        BY <1>5, CarriesQueue
      <3> QED BY <1>4, <1>7, <3>1, AllReceived
    <2>2. /\ Good(q, c, p) /\ Carries(t, q, room)
          /\ q.record.token # 0 /\ q.record.state = "sealed" /\ q.record.exit = "idle"
          /\ q.record.sent = p.written /\ q.record.received = p.written
          /\ q.exit = "pending" /\ q.queue = <<>>
      <3>1. CASE t.record.legacyExit
        <4>1. Carries(t, t, room)
          BY DEF Carries
        <4> QED BY <1>3, <1>4, <1>7, <2>1, <3>1, <4>1
      <3>2. CASE ~t.record.legacyExit
        <4> DEFINE u == [t EXCEPT !.record.legacyExit = TRUE, !.projected = TRUE,
                                  !.subscriber = @ + 1]
        <4>1. /\ Good(u, c, p) /\ Carries(t, u, room)
              /\ u.record = [t.record EXCEPT !.legacyExit = TRUE]
              /\ u.exit = t.exit /\ u.queue = t.queue
          BY <1>3, <1>4, <1>7, <3>2, ProjectKeeps
        <4>2. q = u
          BY <3>2
        <4>3. t.record \in RecordType
          BY <1>3, RelayTypes DEF Good
        <4> HIDE DEF u, q
        <4> QED BY <1>4, <1>7, <2>1, <4>1, <4>2, <4>3 DEF RecordType
      <3> HIDE DEF q
      <3> QED BY <3>1, <3>2
    <2> HIDE DEF q
    <2>3. Carries(r, q, room)
      BY <1>5, <2>2, CarriesOn
    <2>4. CASE Reaches(q) /\ room.fits # "none"
      <3>1. Good(v, c, p) /\ Carries(q, v, room)
        BY <2>2, <2>4, SourceExitSent
      <3> HIDE DEF v
      <3>2. Carries(r, v, room)
        BY <2>3, <3>1, CarriesOn
      <3> QED BY <1>1, <1>7, <2>4, <3>1, <3>2
    <2>5. CASE ~(Reaches(q) /\ room.fits # "none")
      BY <1>1, <1>7, <2>2, <2>3, <2>5
    <2> QED BY <2>4, <2>5
  <1> QED BY <1>6, <1>7

\* Reports of capacity and of credit try to publish the exit.
LEMMA PublishPendingExitKeeps ==
  ASSUME NEW r, NEW c, NEW p, NEW room \in Rooms, Good(r, c, p), QueueOK(r, p)
  PROVE  /\ Good(PublishPendingExit(r, room), c, p)
         /\ Carries(r, PublishPendingExit(r, room), room)
  <1> DEFINE d == r.record
             q == PublishPendingExit(r, room)
  <1>1. CASE q = r
    BY <1>1 DEF Carries
  <1>2. CASE q # r
    <2>1. r.queue = <<>> /\ r.exit = "pending" /\ d.exit # "published"
      BY <1>2 DEF PublishPendingExit, Good, ExitOK
    <2>2. CASE d.token = 0
      <3>1. q = AfterRetire(r, room) /\ d.exit = "idle"
        BY <2>1, <2>2, NoRecordTypes DEF PublishPendingExit, Good, RecordOK
      <3> QED BY <2>1, <3>1, AfterRetireKeeps
    <2>3. CASE d.token # 0 /\ d.restore
      <3>1. q = Broadcast(r, room)
        BY <2>1, <2>3 DEF PublishPendingExit
      <3>2. d.exit = "idle" /\ ~r.projected
        BY <2>1, <2>3 DEF Good, RecordOK, ExitOK
      <3> QED BY <2>1, <3>1, <3>2, BroadcastKeeps
    <2>4. CASE d.token # 0 /\ ~d.restore
      <3>1. d.exit = "idle"
        <4>1. d.exit # "pending"
          BY <1>2, <2>1, <2>4 DEF PublishPendingExit
        <4>2. d \in RecordType
          BY RelayTypes DEF Good
        <4> QED BY <2>1, <4>1, <4>2 DEF RecordType
      <3>2. CASE d.state = "closed"
        <4>1. q = IF d.legacyExit THEN ToOwner(r, room) ELSE Broadcast(r, room)
          BY <2>1, <2>4, <3>1, <3>2 DEF PublishPendingExit
        <4>2. r.projected <=> d.legacyExit
          BY <2>1, <2>4 DEF Good, ExitOK
        <4> QED BY <2>1, <3>1, <4>1, <4>2, BroadcastKeeps, ToOwnerKeeps
      <3>3. CASE d.state # "closed"
        <4>1. q = SealAndPublishExit(r, room)
          BY <2>1, <2>4, <3>1, <3>3 DEF PublishPendingExit
        <4> QED BY <2>1, <2>4, <3>1, <3>3, <4>1, SealAndPublishKeeps
      <3> QED BY <3>2, <3>3
    <2> QED BY <2>2, <2>3, <2>4
  <1> QED BY <1>1, <1>2

LEMMA OnCapacityKeeps ==
  ASSUME NEW r, NEW c, NEW p, NEW room \in Rooms, Good(r, c, p), QueueOK(r, p)
  PROVE  /\ Good(OnCapacity(r, room), c, p)
         /\ Carries(r, OnCapacity(r, room), room)
  <1> DEFINE q == [r EXCEPT !.timer = @ \/ r.queue # <<>>]
  <1>1. r \in RelayType /\ (r.timer \/ r.queue # <<>>) \in BOOLEAN
    BY RelayTypes DEF Good
  <1>2. q \in RelayType
    BY <1>1, RelayUpdates
  <1>3. q.record = r.record /\ q.wire = r.wire /\ SameBeside(r, q)
    BY <1>1 DEF RelayType, SameBeside
  <1> HIDE DEF q
  <1>4. RecordOK(q.record, p) /\ ExitOK(q, c, p)
    BY <1>3 DEF Good, ExitOK, SameBeside
  <1>5. SameDelivery(r, q, c)
    BY <1>3 DEF Good, ConnOK, FollowOK, SameDelivery, Reaches
  <1>6. Good(q, c, p)
    BY <1>2, <1>3, <1>4, <1>5, RecordChange DEF SameBeside
  <1>7. Carries(r, q, room)
    BY <1>3 DEF Carries, Waits, Reaches, SameBeside
  <1>8. QueueOK(q, p)
    BY <1>7, CarriesQueue
  <1> DEFINE v == PublishPendingExit(q, room)
  <1>9. Good(v, c, p) /\ Carries(q, v, room)
    BY <1>6, <1>8, PublishPendingExitKeeps
  <1>10. OnCapacity(r, room) = v
    BY DEF OnCapacity, q
  <1> HIDE DEF v
  <1>11. Carries(r, v, room)
    BY <1>7, <1>9, CarriesOn
  <1> QED BY <1>9, <1>10, <1>11

\* The frames and the record do not notice the queue, the timer and the reply.
LEMMA AsideKeeps ==
  ASSUME NEW r, NEW c, NEW p, Good(r, c, p), NEW q \in RelayType,
         q.record = r.record, q.wire = r.wire, q.tokens = r.tokens, q.conn = r.conn,
         q.conns = r.conns, q.exit = r.exit, q.projected = r.projected,
         q.subscriber = r.subscriber
  PROVE  Good(q, c, p) /\ (Waits(q) => Waits(r))
  <1>1. RecordOK(q.record, p) /\ ExitOK(q, c, p)
    BY DEF Good, ExitOK
  <1>2. SameDelivery(r, q, c)
    BY DEF Good, ConnOK, FollowOK, SameDelivery, Reaches
  <1>3. Good(q, c, p)
    BY <1>1, <1>2, RecordChange
  <1>4. Waits(q) => Waits(r)
    BY DEF Waits, Reaches
  <1> QED BY <1>3, <1>4

LEMMA PruneKeeps ==
  ASSUME NEW r, NEW c, NEW p, NEW room, Good(r, c, p),
         r.record.exit = "idle" \/ r.exit = "done"
  PROVE  Good(Prune(r), c, p) /\ Carries(r, Prune(r), room)
  <1> DEFINE q == [r EXCEPT !.record = NoRecord]
  <1>1. CASE r.record.state = "closed"
    <2>1. Prune(r) = q /\ Good(q, c, p)
      BY <1>1, DropKeeps DEF Prune
    <2>2. q.record = NoRecord /\ q.queue = r.queue
      BY RelayTypes DEF Good, RelayType
    <2> HIDE DEF q
    <2>3. Carries(r, q, room)
      BY <2>2, NoneWaits, NoRecordTypes DEF Carries
    <2> QED BY <2>1, <2>3
  <1>2. CASE r.record.state # "closed"
    BY <1>2 DEF Prune, Carries
  <1> QED BY <1>1, <1>2

LEMMA ClosedNeverWaits ==
  ASSUME NEW r, r.record.state = "closed" \/ r.record.restore \/ r.record.activating
  PROVE  ~Waits(r)
  BY DEF Waits

\* A credit resumes the delivery: a frame that it leaves behind was refused.
LEMMA OnCreditKeeps ==
  ASSUME NEW r, NEW c, NEW p, NEW room \in Rooms, Good(r, c, p), QueueOK(r, p)
  PROVE  /\ Good(OnCredit(r, room), c, p)
         /\ Carries(r, OnCredit(r, room), room)
         /\ room.fits = "all" => ~Waits(OnCredit(r, room))
  <1> DEFINE d == r.record
  <1>1. r \in RelayType /\ d \in RecordType /\ RecordOK(d, p) /\ ExitOK(r, c, p)
    BY RelayTypes DEF Good
  <1>2. CASE d.token = 0 \/ d.restore \/ d.exit = "pending"
    <2>1. OnCredit(r, room) = r
      BY <1>2 DEF OnCredit
    <2>2. ~Waits(r)
      BY <1>1, <1>2, RecordTypes DEF Waits, RecordOK, NoRecord
    <2> QED BY <2>1, <2>2 DEF Carries
  <1>3. CASE ~(d.token = 0 \/ d.restore \/ d.exit = "pending") /\ d.state = "closed"
    <2> DEFINE x == IF d.exit = "idle" /\ d.legacyExit THEN r ELSE Prune(r)
               v == OnCapacity(x, room)
    <2>1. OnCredit(r, room) = v
      BY <1>3 DEF OnCredit
    <2>2. d.exit = "idle" \/ r.exit = "done"
      BY <1>1, <1>3 DEF RecordType, ExitOK
    <2>3. Good(x, c, p) /\ Carries(r, x, room)
      <3>1. Carries(r, r, room)
        BY DEF Carries
      <3> QED BY <2>2, <3>1, PruneKeeps
    <2>4. ~Waits(x)
      <3>1. ~Waits(r)
        BY <1>3, ClosedNeverWaits
      <3>2. Prune(r).record = NoRecord
        BY <1>1, <1>3 DEF Prune, RelayType
      <3> QED BY <3>1, <3>2, NoneWaits
    <2> HIDE DEF x
    <2>5. Good(v, c, p) /\ Carries(x, v, room)
      BY <2>3, CarriesQueue, OnCapacityKeeps
    <2> HIDE DEF v
    <2>6. Carries(r, v, room)
      BY <2>3, <2>5, CarriesOn
    <2>7. room.fits = "all" => ~Waits(v)
      BY <2>4, <2>5 DEF Carries
    <2> QED BY <2>1, <2>5, <2>6, <2>7
  <1>4. CASE ~(d.token = 0 \/ d.restore \/ d.exit = "pending") /\ d.state # "closed"
    <2> DEFINE x == Pump(r, room)
               v == OnCapacity(x, room)
    <2>1. OnCredit(r, room) = v
      BY <1>4 DEF OnCredit
    <2>2. Good(x, c, p) /\ Carries(r, x, room) /\ (room.fits = "all" => ~Waits(x))
      BY PumpKeeps
    <2> HIDE DEF x
    <2>3. Good(v, c, p) /\ Carries(x, v, room)
      BY <2>2, CarriesQueue, OnCapacityKeeps
    <2> HIDE DEF v
    <2>4. Carries(r, v, room)
      BY <2>2, <2>3, CarriesOn
    <2>5. room.fits = "all" => ~Waits(v)
      BY <2>2, <2>3 DEF Carries
    <2> QED BY <2>1, <2>3, <2>4, <2>5
  <1> QED BY <1>2, <1>3, <1>4

\* A delivery is canceled when none of its frames is in flight, or nobody follows it.
LEMMA CancelKeeps ==
  ASSUME NEW r, NEW c, NEW p, NEW room, Good(r, c, p), r.record.token # 0,
         \/ r.record.pending = 0
         \/ \A at \in Nat : ~Follows(r.wire, c, r.record.token, at)
  PROVE  LET q == Cancel(r)
         IN  /\ Good(q, c, p) /\ Carries(r, q, room) /\ SameBeside(r, q)
             /\ q.record.state = "closed" /\ q.record.token = r.record.token
             /\ q.record.exit = r.record.exit /\ q.record.legacyExit = r.record.legacyExit
             /\ q.record.restore = r.record.restore /\ q.wire = r.wire
  <1> DEFINE q == Cancel(r)
             d == r.record
             e == [d EXCEPT !.state = "closed", !.pending = 0, !.held = <<>>, !.ends = {}]
  <1>1. r \in RelayType /\ d \in RecordType
    BY RelayTypes DEF Good
  <1>2. q \in RelayType
    <2>1. 0 \in Positions /\ <<>> \in Seq(1 .. MaxUnits) /\ {} \in SUBSET Positions
      BY Constants, EmptySeq DEF Positions
    <2> QED BY <1>1, <2>1, DeliveryUpdates, Zenon DEF Cancel
  <1>3. q.record = e /\ q.wire = r.wire /\ SameBeside(r, q)
    BY <1>1 DEF RelayType, SameBeside, Cancel
  <1>4. /\ e.token = d.token /\ e.conn = d.conn /\ e.pending = 0
        /\ e.completing = d.completing /\ e.reserved = d.reserved /\ e.credited = d.credited
        /\ e.sent = d.sent /\ e.received = d.received /\ e.exit = d.exit /\ e.state = "closed"
        /\ e.legacyExit = d.legacyExit /\ e.recoveryEnd = d.recoveryEnd
        /\ e.activating = d.activating /\ e.restore = d.restore
    BY <1>1 DEF RecordType
  <1>5. RecordOK(e, p)
    BY <1>1 DEF Good, RecordOK, RecordType
  <1> HIDE DEF q, d, e
  <1>6. ExitOK(q, c, p)
    BY <1>3, <1>4 DEF Good, ExitOK, SameBeside, d
  <1>7. \A at \in Nat : Follows(r.wire, c, e.token, at) =>
          e.credited <= at /\ e.reserved <= at /\ SentTo(e) = SentTo(d)
    BY <1>4 DEF Good, FollowOK, SentTo, d
  <1>8. SameDelivery(r, q, c)
    BY <1>3, <1>4, <1>7 DEF Good, ConnOK, RecoverOK, KeepOK, SameDelivery, Reaches, d
  <1>9. Good(q, c, p)
    BY <1>2, <1>3, <1>5, <1>6, <1>8, RecordChange DEF SameBeside
  <1>10. Carries(r, q, room)
    BY <1>3, <1>4 DEF Carries, Waits, SameBeside, d
  <1> QED BY <1>3, <1>4, <1>9, <1>10 DEF q, d

LEMMA QueueStays ==
  ASSUME NEW r, NEW p, QueueOK(r, p), NEW q, q.queue = r.queue,
         q.record.token # 0 /\ q.record.state # "closed" =>
           /\ r.record.token # 0 /\ r.record.state # "closed"
           /\ q.record.received = r.record.received,
         q.record.exit # "idle" => r.record.exit # "idle" \/ r.queue = <<>>
  PROVE  QueueOK(q, p)
  BY DEF QueueOK, QueueIsOutputAfter

\* What is left of the units kept when the first ones are given up.
LEMMA HeldAfter ==
  ASSUME NEW d \in RecordType, NEW at \in Nat, d.credited <= at, at <= d.received,
         Len(d.held) = d.received - d.credited,
         \A i \in 1 .. Len(d.held) : d.held[i] = d.credited + i
  PROVE  LET h == SubSeq(d.held, at - d.credited + 1, Len(d.held))
         IN  /\ h \in Seq(1 .. MaxUnits) /\ Len(h) = d.received - at
             /\ \A i \in 1 .. Len(h) : h[i] = at + i
  <1> DEFINE m == at - d.credited + 1
             n == Len(d.held)
             h == SubSeq(d.held, m, n)
  <1>1. /\ d.credited \in Nat /\ d.received \in Nat /\ d.held \in Seq(1 .. MaxUnits)
        /\ \A i \in 1 .. Len(d.held) : d.held[i] = d.credited + i
    BY RecordTypes
  <1>2. \A i \in 1 .. Len(d.held) : d.held[i] \in 1 .. MaxUnits
    BY <1>1, ElementOfSeq
  <1>3. n = d.received - d.credited /\ n \in Nat
    BY <1>1, LenProperties
  <1> HIDE DEF n
  <1>4. m \in Int /\ n \in Int /\ m >= 1 /\ n - m + 1 = d.received - at
    BY <1>1, <1>3, SMTT(30)
  <1>5. \A i \in m .. n : d.held[i] \in 1 .. MaxUnits
    BY <1>2, <1>4 DEF n
  <1>6. \A i \in 1 .. d.received - at : m + i - 1 \in 1 .. n /\ d.credited + (m + i - 1) = at + i
    <2>1. \A x, y \in Nat : x <= at =>
            \A i \in 1 .. y - at : /\ at - x + 1 + i - 1 \in 1 .. y - x
                                   /\ x + (at - x + 1 + i - 1) = at + i
      OBVIOUS
    <2> QED BY <1>1, <1>3, <2>1
  <1> HIDE DEF m
  <1>7. /\ h \in Seq(1 .. MaxUnits) /\ Len(h) = IF m <= n THEN n - m + 1 ELSE 0
        /\ \A i \in 1 .. n - m + 1 : h[i] = d.held[m + i - 1]
    BY <1>4, <1>5, SubSeqProperties
  <1>8. Len(h) = d.received - at
    BY <1>1, <1>4, <1>7
  <1>9. \A i \in 1 .. d.received - at : d.held[m + i - 1] = at + i
    BY <1>1, <1>6 DEF n
  <1>10. \A i \in 1 .. Len(h) : h[i] = at + i
    BY <1>4, <1>7, <1>8, <1>9
  <1> QED BY <1>7, <1>8, <1>10 DEF h, m, n

\* A credit gives up units that the client has shown, and moves the window.
LEMMA CreditKeeps ==
  ASSUME NEW r, NEW c, NEW p, Good(r, c, p), r.record.token # 0,
         r.record.state # "closed", NEW end \in Positions,
         r.record.credited <= end, end <= r.record.sent,
         \A at \in Nat : Follows(r.wire, c, r.record.token, at) => end <= at,
         r.record.token = c.checkpoint.token => end <= c.checkpoint.end
  PROVE  LET q == [r EXCEPT !.record = Credit(r.record, end)]
         IN  /\ Good(q, c, p) /\ (QueueOK(r, p) => QueueOK(q, p))
             /\ q.record.token = r.record.token /\ SameBeside(r, q)
  <1> DEFINE q == [r EXCEPT !.record = Credit(r.record, end)]
             d == r.record
             e == Credit(d, end)
             h == SubSeq(d.held, end - d.credited + 1, Len(d.held))
  <1>1. /\ r \in RelayType /\ d \in RecordType /\ RecordOK(d, p) /\ end \in Nat
        /\ d.credited \in Nat /\ d.sent \in Nat /\ d.received \in Nat /\ d.pending \in Nat
    BY RelayTypes, RecordTypes, Constants DEF Good, Positions
  <1>2. /\ h \in Seq(1 .. MaxUnits) /\ Len(h) = d.received - end
        /\ \A i \in 1 .. Len(h) : h[i] = end + i
    <2>1. end <= d.received
      BY <1>1 DEF RecordOK
    <2> QED BY <1>1, <2>1, HeldAfter DEF RecordOK
  <1>3. e = [d EXCEPT !.credited = end, !.boundaries = {b \in d.boundaries : b >= end},
                      !.ends = {s \in d.ends : s > end}, !.held = h]
    BY DEF Credit
  <1> HIDE DEF h, e
  <1>4. e \in RecordType
    <2>1. {b \in d.boundaries : b >= end} \in SUBSET Positions
          /\ {s \in d.ends : s > end} \in SUBSET Positions
      BY <1>1, RecordTypes
    <2> DEFINE S == {b \in d.boundaries : b >= end}
               T == {s \in d.ends : s > end}
    <2> HIDE DEF S, T
    <2>2. [d EXCEPT !.credited = end, !.boundaries = S, !.ends = T, !.held = h] \in RecordType
      BY <1>1, <1>2, <2>1, RecordUpdates, Zenon DEF S, T
    <2> QED BY <1>3, <2>2 DEF S, T
  <1>5. q \in RelayType /\ q.record = e /\ q.wire = r.wire /\ SameBeside(r, q)
    <2>1. q = [r EXCEPT !.record = e]
      BY DEF e
    <2> HIDE DEF q
    <2>2. q \in RelayType
      BY <1>1, <1>4, <2>1, RelayUpdates
    <2>3. q.record = e /\ q.wire = r.wire /\ SameBeside(r, q)
      BY <1>1, <2>1 DEF RelayType, SameBeside
    <2> QED BY <2>2, <2>3
  <1>6. /\ e.token = d.token /\ e.conn = d.conn /\ e.pending = d.pending
        /\ e.completing = d.completing /\ e.reserved = d.reserved /\ e.credited = end
        /\ e.sent = d.sent /\ e.received = d.received /\ e.exit = d.exit /\ e.state = d.state
        /\ e.legacyExit = d.legacyExit /\ e.recoveryEnd = d.recoveryEnd
        /\ e.activating = d.activating /\ e.restore = d.restore /\ e.attempted = d.attempted
        /\ e.held = h /\ e.boundaries = {b \in d.boundaries : b >= end}
        /\ e.ends = {s \in d.ends : s > end}
    BY <1>1, <1>3 DEF RecordType
  <1>7. RecordOK(e, p)
    <2>1. d.sent <= end + Window /\ d.received <= end + Retain
      <3>1. d.sent <= d.credited + Window /\ d.received <= d.credited + Retain
        BY <1>1 DEF RecordOK
      <3>2. Window \in Nat /\ Retain \in Nat
        BY Constants
      <3> HIDE DEF d
      <3>3. d.credited <= end
        BY DEF d
      <3> QED BY <1>1, <3>1, <3>2, <3>3
    <2>2. d.pending # 0 => d.pending <= end + Window
      BY <1>1, Constants, SMTT(30) DEF RecordOK
    <2>3. d.received > end => d.received \in e.ends
      BY <1>1, <1>6 DEF RecordOK
    <2>4. end <= d.sent /\ d.token # 0
      OBVIOUS
    <2> HIDE DEF d
    <2> QED BY <1>1, <1>2, <1>6, <2>1, <2>2, <2>3, <2>4 DEF RecordOK
  <1> HIDE DEF q
  <1>8. ExitOK(q, c, p)
    BY <1>5, <1>6 DEF Good, ExitOK, SameBeside
  <1>9. SameDelivery(r, q, c)
    <2>1. KeepOK(e, c)
      BY <1>6 DEF Good, KeepOK
    <2> QED BY <1>5, <1>6, <2>1
        DEF Good, ConnOK, FollowOK, RecoverOK, SameDelivery, SentTo, Reaches
  <1>10. Good(q, c, p)
    BY <1>5, <1>7, <1>8, <1>9, RecordChange DEF SameBeside
  <1>11. QueueOK(r, p) => QueueOK(q, p)
    <2>1. /\ q.queue = r.queue /\ q.record.token = r.record.token
          /\ q.record.state = r.record.state /\ q.record.received = r.record.received
          /\ q.record.exit = r.record.exit
      BY <1>5, <1>6 DEF SameBeside
    <2> QED BY <2>1, QueueStays
  <1> QED BY <1>5, <1>6, <1>10, <1>11 DEF q, SameBeside

LEMMA MaybeCloseKeeps ==
  ASSUME NEW r, NEW c, NEW p, NEW room, Good(r, c, p)
  PROVE  Good(MaybeClose(r), c, p) /\ Carries(r, MaybeClose(r), room)
  <1>1. CASE MaybeClose(r) = r
    BY <1>1 DEF Carries
  <1>2. CASE MaybeClose(r) = Cancel(r) /\ r.record.exit = "published"
             /\ r.record.credited = r.record.received
    <2>1. r.record \in RecordType /\ RecordOK(r.record, p)
      BY RelayTypes DEF Good
    <2>2. r.record.token # 0 /\ r.record.pending = 0
      BY <1>2, <2>1, RecordTypes, NoRecordTypes DEF RecordOK
    <2> DEFINE q == Cancel(r)
    <2>3. Good(q, c, p) /\ Carries(r, q, room)
      BY <2>2, CancelKeeps
    <2> HIDE DEF q
    <2> QED BY <1>2, <2>3 DEF q
  <1> QED BY <1>1, <1>2 DEF MaybeClose

-----------------------------------------------------------------------------
(* The output *)

LEMMA ChunkIs ==
  ASSUME NEW x \in Chunks
  PROVE  /\ x \in Seq(1 .. MaxUnits) /\ Len(x) \in {1, 2} /\ x[1] \in 1 .. MaxUnits
         /\ \A i \in 1 .. Len(x) : x[i] = x[1] + i - 1
         /\ x[Len(x)] = x[1] + Len(x) - 1 /\ x[Len(x)] \in 1 .. MaxUnits
  <1>1. CASE \E n \in 1 .. MaxUnits : x = <<n>>
    <2>1. PICK n \in 1 .. MaxUnits : x = <<n>>
      BY <1>1
    <2> QED BY <2>1, Constants
  <1>2. CASE \E n \in 1 .. MaxUnits - 1 : x = <<n, n + 1>>
    <2>1. PICK n \in 1 .. MaxUnits - 1 : x = <<n, n + 1>>
      BY <1>2
    <2>2. n \in 1 .. MaxUnits /\ n + 1 \in 1 .. MaxUnits /\ n \in Nat
      BY Constants
    <2>3. \A i \in 1 .. 2 : i = 1 \/ i = 2
      OBVIOUS
    <2> QED BY <2>1, <2>2, <2>3
  <1> QED BY <1>1, <1>2 DEF Chunks

\* The record has room for a chunk that goes on where the delivery ends.
CanTake(d, chunk, p) ==
  /\ d.token # 0 /\ d.state = "active" /\ d.recoveryEnd = 0 /\ ~d.restore
  /\ d.received + Len(chunk) - d.credited <= Retain
  /\ chunk[1] = d.received + 1 /\ chunk[Len(chunk)] <= p.written

\* q is what the publication of n units in r has come to.
Published(r, q, n, c, p, room) ==
  /\ Good(q, c, p) /\ q.queue = r.queue /\ q.record.exit = "idle"
  /\ q.record.token # 0 => /\ r.record.token # 0 /\ r.record.state # "closed"
                           /\ q.record.received = r.record.received + n
  /\ room.fits = "all" => ~Waits(q)

\* The delivery takes a chunk that goes on where it ends, and sends what it can.
LEMMA PublishKeeps ==
  ASSUME NEW r, NEW c, NEW p, NEW room \in Rooms, NEW chunk \in Chunks, Good(r, c, p),
         CanTake(r.record, chunk, p)
  PROVE  Published(r, Publish(r, chunk, room), Len(chunk), c, p, room)
  <1> DEFINE d == r.record
             n == d.received + Len(chunk)
             h == d.held \o chunk
             e == [d EXCEPT !.received = n, !.held = h, !.ends = d.ends \cup {n}]
             s == [r EXCEPT !.record.received = n, !.record.held = h,
                            !.record.ends = d.ends \cup {n}]
             q == Pump(s, room)
  <1>1. /\ r \in RelayType /\ d \in RecordType /\ RecordOK(d, p)
        /\ chunk \in Seq(1 .. MaxUnits) /\ Len(chunk) \in {1, 2} /\ chunk[1] \in 1 .. MaxUnits
        /\ \A i \in 1 .. Len(chunk) : chunk[i] = chunk[1] + i - 1
        /\ chunk[Len(chunk)] = chunk[1] + Len(chunk) - 1 /\ chunk[Len(chunk)] \in 1 .. MaxUnits
    BY RelayTypes, ChunkIs DEF Good
  <1>2. /\ d.received \in Nat /\ d.credited \in Nat /\ d.sent \in Nat
        /\ d.held \in Seq(1 .. MaxUnits) /\ d.ends \subseteq Positions /\ Len(d.held) \in Nat
        /\ d.pending \in Nat /\ d.reserved \in Nat /\ d.attempted \in Nat
    BY <1>1, RecordTypes
  <1> DEFINE l == Len(chunk)
  <1>30. /\ d.token # 0 /\ d.state = "active" /\ d.recoveryEnd = 0 /\ ~d.restore
        /\ d.received + l - d.credited <= Retain /\ chunk[1] = d.received + 1
        /\ chunk[l] <= p.written /\ l \in {1, 2} /\ chunk[l] = chunk[1] + l - 1
        /\ chunk[l] \in 1 .. MaxUnits /\ l \in Nat
    BY <1>1 DEF CanTake
  <1>31. /\ d.sent <= d.received /\ (d.pending # 0 => d.pending <= d.received)
        /\ (d.reserved # 0 => d.reserved <= d.received) /\ d.attempted <= d.received
        /\ Len(d.held) = d.received - d.credited /\ d.credited <= d.received
    <2>1. d.credited <= d.sent /\ d.sent <= d.received
      BY <1>1 DEF RecordOK
    <2>2. d.credited <= d.received
      BY <1>2, <2>1
    <2> QED BY <1>1, <1>30, <2>2 DEF RecordOK
  <1>32. \A i \in 1 .. Len(d.held) : d.held[i] = d.credited + i
    BY <1>1, <1>30 DEF RecordOK
  <1> HIDE DEF d, l
  <1>3. n \in Positions /\ n \in Nat /\ n = chunk[l] /\ n <= p.written
        /\ d.received <= n
    <2>1. n = d.received + l
      BY DEF l
    <2> HIDE DEF n
    <2>2. n = chunk[l]
      BY <1>2, <1>30, <2>1
    <2> QED BY <1>2, <1>30, <2>1, <2>2, Constants, SMTT(30) DEF Positions
  <1>4. h \in Seq(1 .. MaxUnits) /\ Len(h) = n - d.credited
        /\ \A i \in 1 .. Len(h) : h[i] = d.credited + i
    <2>1. /\ h \in Seq(1 .. MaxUnits) /\ Len(h) = Len(d.held) + l
          /\ \A i \in 1 .. Len(h) :
               h[i] = IF i <= Len(d.held) THEN d.held[i] ELSE chunk[i - Len(d.held)]
      BY <1>1, <1>2, ConcatProperties DEF l
    <2> HIDE DEF h
    <2>2. Len(h) = n - d.credited
      <3>1. n = d.received + l /\ Len(h) = Len(d.held) + l /\ Len(d.held) = d.received - d.credited
        BY <1>31, <2>1 DEF l
      <3>2. d.received \in Nat /\ d.credited \in Nat /\ l \in Nat
        BY <1>2, <1>30
      <3>3. \A a, b, m \in Nat : (a - b) + m = (a + m) - b
        OBVIOUS
      <3> HIDE DEF n
      <3> QED BY <3>1, <3>2, <3>3
    <2>4. ASSUME NEW i \in 1 .. Len(h)
          PROVE  h[i] = d.credited + i
      <3> DEFINE a == Len(d.held)
      <3>0. a \in Nat /\ a = d.received - d.credited /\ i \in 1 .. a + l
        BY <1>2, <1>31, <2>1, <2>4
      <3> HIDE DEF a
      <3>1. i \in Nat /\ i >= 1 /\ i <= a + l
        BY <1>30, <3>0
      <3>2. CASE i <= a
        <4>1. i \in 1 .. a
          BY <3>0, <3>1, <3>2
        <4> QED BY <1>32, <2>1, <3>2, <4>1 DEF a
      <3>3. CASE ~(i <= a)
        <4> DEFINE m == i - a
        <4>1. m \in 1 .. l /\ m \in Nat /\ m + a = i
          BY <1>30, <3>0, <3>1, <3>3
        <4>2. h[i] = chunk[m]
          BY <2>1, <3>3 DEF a
        <4> HIDE DEF m
        <4>3. chunk[m] = chunk[1] + m - 1
          BY <1>1, <4>1 DEF l
        <4>4. chunk[m] = d.received + m
          BY <1>2, <1>30, <4>1, <4>3
        <4>5. d.received = a + d.credited
          BY <1>2, <3>0
        <4> QED BY <1>2, <3>0, <4>1, <4>2, <4>4, <4>5, SMTT(30)
      <3> QED BY <3>2, <3>3
    <2> QED BY <2>1, <2>2, <2>4
  <1> HIDE DEF h
  <1>5. d.ends \cup {n} \in SUBSET Positions
    BY <1>2, <1>3
  <1> DEFINE E == d.ends \cup {n}
  <1> HIDE DEF E
  <1>6. s \in RelayType /\ s.record = e /\ s.wire = r.wire /\ SameBeside(r, s)
    <2>1. s \in RelayType
      BY <1>1, <1>3, <1>4, <1>5, DeliveryUpdates, Zenon
    <2>2. s.record = e /\ s.wire = r.wire /\ SameBeside(r, s)
      <3>1. r.record = d
        BY DEF d
      <3> HIDE DEF n
      <3> QED BY <1>1, <3>1 DEF RelayType, RecordType, SameBeside
    <2> QED BY <2>1, <2>2
  <1>7. /\ e.token = d.token /\ e.conn = d.conn /\ e.pending = d.pending
        /\ e.completing = d.completing /\ e.reserved = d.reserved /\ e.credited = d.credited
        /\ e.sent = d.sent /\ e.received = n /\ e.exit = d.exit /\ e.state = d.state
        /\ e.legacyExit = d.legacyExit /\ e.recoveryEnd = d.recoveryEnd
        /\ e.activating = d.activating /\ e.restore = d.restore /\ e.attempted = d.attempted
        /\ e.held = h /\ e.boundaries = d.boundaries /\ e.ends = d.ends \cup {n}
    BY <1>1 DEF RecordType
  <1>8. d.exit = "idle"
    BY <1>1, <1>30 DEF RecordOK
  <1> HIDE DEF n, e, s
  <1>9. RecordOK(e, p)
    <2>1. n <= d.credited + Retain
      <3>1. n = d.received + l
        BY DEF n, l
      <3> QED BY <1>2, <1>30, <3>1, Constants, SMTT(30)
    <2>2. /\ d.sent <= n /\ (d.pending # 0 => d.pending <= n)
          /\ (d.reserved # 0 => d.reserved <= n) /\ d.attempted <= n
      BY <1>2, <1>3, <1>31
    <2>3. \A x \in d.ends \cup {n} : x <= n
      <3>1. \A x \in d.ends : x <= d.received
        BY <1>1 DEF RecordOK
      <3>2. \A x \in d.ends : x \in Nat
        BY <1>2, Constants DEF Positions
      <3> QED BY <1>2, <1>3, <3>1, <3>2
    <2> QED BY <1>1, <1>3, <1>4, <1>7, <1>8, <1>30, <2>1, <2>2, <2>3 DEF RecordOK
  <1>10. ExitOK(s, c, p)
    BY <1>6, <1>7 DEF Good, ExitOK, SameBeside, d
  <1>11. SameDelivery(r, s, c)
    BY <1>6, <1>7 DEF Good, ConnOK, FollowOK, RecoverOK, KeepOK, SameDelivery, SentTo, Reaches, d
  <1>12. Good(s, c, p)
    BY <1>6, <1>9, <1>10, <1>11, RecordChange DEF SameBeside
  <1>13. Good(q, c, p) /\ Carries(s, q, room) /\ (room.fits = "all" => ~Waits(q))
    BY <1>12, PumpKeeps
  <1>14. q.record.token # 0 => q.exit = s.exit /\ q.record.exit = s.record.exit
    BY <1>12, PumpSame
  <1> HIDE DEF q
  <1>15. q.record.exit = "idle"
    <2>1. q.record.token = 0 => q.record = NoRecord
      BY <1>13 DEF Good, RecordOK
    <2> QED BY <1>6, <1>7, <1>8, <1>14, <2>1, NoRecordTypes
  <1>16. Publish(r, chunk, room) = q
    BY <1>30 DEF Publish, q, s, n, h, d
  <1> QED BY <1>6, <1>7, <1>13, <1>14, <1>15, <1>16, <1>30 DEF Carries, SameBeside, Published, n, d, l

\* The first chunk of the queue goes on where the delivery ends, and the rest of the queue
\* goes on after the chunk.
LEMMA QueueTaken ==
  ASSUME NEW r \in RelayType, NEW p \in Program, QueueOK(r, p), r.queue # <<>>
  PROVE  LET chunk == Head(r.queue)
         IN  /\ chunk \in Chunks /\ Tail(r.queue) \in Seq(Chunks)
             /\ r.record.exit = "idle" /\ chunk[Len(chunk)] <= p.written
             /\ r.record.token # 0 /\ r.record.state # "closed" =>
                  chunk[1] = r.record.received + 1
             /\ \A q : /\ q.queue = Tail(r.queue) /\ q.record.exit = "idle"
                       /\ q.record.token # 0 =>
                            /\ r.record.token # 0 /\ r.record.state # "closed"
                            /\ q.record.received = r.record.received + Len(chunk)
                       => QueueOK(q, p)
  <1> DEFINE w == r.queue
             chunk == Head(w)
             t == Tail(w)
  <1>1. w \in Seq(Chunks) /\ w # <<>> /\ r.record \in RecordType
    BY DEF RelayType
  <1>2. PICK at \in Positions :
          /\ QueueIsOutputAfter(r, p, at)
          /\ r.record.token # 0 /\ r.record.state # "closed" => at = r.record.received
          /\ r.record.exit # "idle" => r.queue = <<>>
    BY DEF QueueOK
  <1> HIDE DEF w
  <1>3. /\ Len(w) \in Nat /\ Len(w) > 0 /\ chunk = w[1] /\ chunk \in Chunks
        /\ t \in Seq(Chunks) /\ Len(t) = Len(w) - 1
        /\ \A i \in 1 .. Len(t) : t[i] = w[i + 1]
    BY <1>1, HeadTailProperties, EmptySeq, LenProperties
  <1>4. at \in Nat /\ chunk[1] = at + 1
    <2>1. at \in Nat
      BY Constants DEF Positions
    <2> QED BY <1>2, <1>3, <2>1 DEF QueueIsOutputAfter, w
  <1> DEFINE next == chunk[Len(chunk)]
  <1>5. /\ next \in Positions /\ next \in Nat /\ next = at + Len(chunk)
        /\ next <= p.written
    <2>1. next \in 1 .. MaxUnits /\ next = chunk[1] + Len(chunk) - 1 /\ Len(chunk) \in {1, 2}
      BY <1>3, ChunkIs
    <2>2. next \in Positions /\ next \in Nat
      BY <2>1, Constants DEF Positions
    <2>3. next <= p.written
      BY <1>3 DEF QueueOK, w
    <2> HIDE DEF chunk, next
    <2> QED BY <1>4, <2>1, <2>2, <2>3
  <1>6. \A i \in 1 .. Len(t) : t[i][Len(t[i])] <= p.written
    BY <1>3 DEF QueueOK, w
  <1>7. ASSUME NEW q, q.queue = t
        PROVE  QueueIsOutputAfter(q, p, next)
    <2> DEFINE B(i) == IF i = 1 THEN at ELSE w[i - 1][Len(w[i - 1])]
               C(i) == IF i = 1 THEN next ELSE t[i - 1][Len(t[i - 1])]
    <2>1. (\A i \in 1 .. Len(w) : w[i][1] = B(i) + 1) /\ B(Len(w) + 1) = p.written
      BY <1>2 DEF QueueIsOutputAfter, w
    <2>2. \A i \in 1 .. Len(t) + 1 : C(i) = B(i + 1)
      <3> HIDE DEF t
      <3>1. \A i \in 1 .. Len(t) + 1 : i # 1 => i - 1 \in 1 .. Len(t) /\ (i - 1) + 1 = i
        BY <1>3
      <3>2. \A i \in 1 .. Len(t) + 1 : i # 1 => t[i - 1] = w[i]
        BY <1>3, <3>1
      <3> QED BY <1>3, <3>2
    <2>3. \A i \in 1 .. Len(t) : t[i][1] = C(i) + 1
      <3> HIDE DEF t, B, C
      <3>1. \A i \in 1 .. Len(t) : i + 1 \in 1 .. Len(w) /\ i \in 1 .. Len(t) + 1
        BY <1>3
      <3> QED BY <1>3, <2>1, <2>2, <3>1
    <2>4. C(Len(t) + 1) = p.written
      <3> HIDE DEF t, B, C
      <3>1. Len(t) + 1 \in 1 .. Len(t) + 1 /\ (Len(t) + 1) + 1 = Len(w) + 1
        BY <1>3
      <3> QED BY <2>1, <2>2, <3>1
    <2> QED BY <1>7, <2>3, <2>4 DEF QueueIsOutputAfter
  <1>8. ASSUME NEW q, q.queue = t, q.record.exit = "idle",
               q.record.token # 0 =>
                 /\ r.record.token # 0 /\ r.record.state # "closed"
                 /\ q.record.received = r.record.received + Len(chunk)
        PROVE  QueueOK(q, p)
    <2>1. q.record.token # 0 => q.record.received = next
      BY <1>2, <1>5, <1>8
    <2> HIDE DEF t, next, chunk
    <2> QED BY <1>5, <1>6, <1>7, <1>8, <2>1 DEF QueueOK
  <1>9. r.record.exit = "idle"
    BY <1>2
  <1> HIDE DEF t, next, chunk
  <1>10. r.record.token # 0 /\ r.record.state # "closed" => chunk[1] = r.record.received + 1
    BY <1>2, <1>4
  <1> QED BY <1>3, <1>5, <1>8, <1>9, <1>10 DEF t, next, chunk, w

=============================================================================
