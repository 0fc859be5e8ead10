--------------------------- MODULE ProgramProofs ---------------------------
(***************************************************************************)
(* Proofs about Program, for every finite set of goroutines and every set  *)
(* of generators.                                                          *)
(***************************************************************************)
EXTENDS Program, FiniteSetTheorems, TLAPS

\* The threads inside next of n.
Waiting(n) == pullers[n] \cup takers[n]

\* A thread is inside the next of one generator, in one place, and a generator
\* that is pulled is at work or inside next itself.
Pullers ==
  /\ \A n, m \in Generators : Waiting(n) \cap Waiting(m) /= {} => n = m
  /\ \A n \in Generators : pullers[n] \cap takers[n] = {}
  /\ \A n \in Generators :
       pullers[n] /= {} => life[n] \in {"running", "pulling", "awaiting"}

\* A yield that waits to be resumed has somebody who will; unless it was closed a
\* generator owes a resumption to nobody else.
Takers ==
  \A n \in Generators :
    /\ life[n] = "awaiting" => takers[n] /= {}
    /\ n \notin closing /\ takers[n] /= {} => life[n] = "awaiting"
    /\ n \notin closing => \A t, u \in takers[n] : t = u

\* Only generators park, and only the top level waits and returns.
Roles ==
  /\ \A g \in Goroutines : life[g] \in {"none", "running", "pulling", "ended"}
  /\ life[Main] \in {"running", "pulling", "waiting", "returned", "ended"}

\* What every step preserves, whoever may spawn.
IInv == TypeOK /\ Pullers /\ Takers /\ Roles /\ Counted

\* Once the join is over nobody counted is left.
JoinOver == life[Main] \in {"returned", "ended"} => Alive = {}

-----------------------------------------------------------------------------
(* Who is alive.                                                           *)

\* The goroutines that are not over are finitely many.
LEMMA AliveFinite == IsFiniteSet(Alive)
  BY FiniteAssumption, FS_Subset DEF Alive

\* A running goroutine makes the count positive.
LEMMA RunningCounts ==
  ASSUME Counted, NEW g \in Goroutines, Runs(g)
  PROVE  wg \in Nat /\ wg > 0
<1>1. g \in Alive
  BY DEF Runs, Alive
<1>2. Cardinality(Alive) \in Nat
  BY AliveFinite, FS_CardinalityType
<1>3. Cardinality(Alive) /= 0
  BY <1>1, AliveFinite, FS_EmptySet
<1> QED
  BY <1>2, <1>3 DEF Counted

\* A zero count means that nobody is alive.
LEMMA ZeroMeansNobody ==
  ASSUME Counted, wg = 0
  PROVE  Alive = {}
  BY AliveFinite, FS_EmptySet DEF Counted

\* The set of those alive depends on nothing but whether each goroutine is
\* made and over.
LEMMA SameAlive ==
  ASSUME \A g \in Goroutines :
           life'[g] \in {"none", "ended"} <=> life[g] \in {"none", "ended"}
  PROVE  Alive' = Alive
  BY DEF Alive

-----------------------------------------------------------------------------
(* The invariant.                                                          *)

LEMMA InitIInv == Init => IInv
<1> SUFFICES ASSUME Init PROVE IInv
  OBVIOUS
<1>1. TypeOK
  BY ThreadsAssumption DEF Init, TypeOK, Lives, Threads
<1>2. Pullers /\ Takers /\ Roles
  BY ThreadsAssumption DEF Init, Pullers, Takers, Waiting, Roles, Threads
<1>3. Alive = {}
  BY ThreadsAssumption DEF Init, Alive, Threads
<1>4. Counted
  BY <1>3, FS_EmptySet DEF Init, Counted
<1> QED
  BY <1>1, <1>2, <1>4 DEF IInv

\* A go statement adds one to the count and one to those alive.
LEMMA GoCounted ==
  ASSUME IInv, NEW t \in Threads, NEW g \in Goroutines, evalGoStmt(t, g)
  PROVE  IInv'
<1> USE DEF evalGoStmt, Runs
<1>1. g \in Threads /\ g /= t
  BY DEF Threads
<1>2. TypeOK'
  BY <1>1 DEF IInv, TypeOK, Lives
<1>3. Pullers' /\ Takers' /\ Roles'
  BY <1>1, ThreadsAssumption DEF IInv, TypeOK, Pullers, Takers, Waiting, Roles, Threads
<1>4. Alive' = Alive \cup {g} /\ g \notin Alive
  BY <1>1 DEF IInv, TypeOK, Alive
<1>5. Counted'
  BY <1>4, AliveFinite, FS_AddElement DEF IInv, Counted
<1> QED
  BY <1>2, <1>3, <1>5 DEF IInv

\* A goroutine that ends takes one from both.
LEMMA GoEndCounted ==
  ASSUME IInv, NEW g \in Goroutines, GoEnd(g)
  PROVE  IInv'
<1> USE DEF GoEnd, Runs
<1>1. g \in Threads
  BY DEF Threads
<1>2. TypeOK'
  BY <1>1 DEF IInv, TypeOK, Lives
<1>3. Pullers' /\ Takers' /\ Roles'
  BY <1>1, ThreadsAssumption DEF IInv, TypeOK, Pullers, Takers, Waiting, Roles, Threads
<1>4. Alive' = Alive \ {g} /\ g \in Alive
  BY <1>1 DEF IInv, TypeOK, Alive
<1>5. Cardinality(Alive) \in Nat
  BY AliveFinite, FS_CardinalityType
<1>6. Counted'
  BY <1>4, <1>5, AliveFinite, FS_RemoveElement DEF IInv, Counted
<1> QED
  BY <1>2, <1>3, <1>6 DEF IInv

\* Whoever begins to pull a generator was inside no next.
LEMMA PullKeeps ==
  ASSUME IInv, NEW t \in Threads, NEW n \in Generators, Pull(t, n)
  PROVE  IInv'
<1> USE DEF Pull, Runs
<1>1. n \in Threads /\ n \notin Goroutines /\ n /= Main
  BY ThreadsAssumption DEF Threads
<1>2. \A m \in Generators : t \notin Waiting(m)
  BY DEF IInv, TypeOK, Waiting
<1>3. /\ pullers'[n] = pullers[n] \cup {t}
      /\ \A m \in Generators \ {n} : pullers'[m] = pullers[m]
      /\ takers' = takers /\ closing' = closing
  BY DEF IInv, TypeOK
<1>4. /\ life'[t] = "pulling" /\ life[t] = "running"
      /\ \A u \in Threads \ {t, n} : life'[u] = life[u]
      /\ n /= t => life'[n] = IF life[n] \in {"none", "parked"} THEN "running" ELSE life[n]
      /\ life[n] \in {"none", "running", "pulling", "parked", "awaiting"}
  BY <1>1 DEF IInv, TypeOK
<1>5. TypeOK'
  <2>1. /\ life' \in [Threads -> Lives]
        /\ wg' \in Int
        /\ pullers' \in [Generators -> SUBSET Threads]
        /\ takers' \in [Generators -> SUBSET Threads]
        /\ closing' \subseteq Generators
    BY <1>1 DEF IInv, TypeOK, Lives
  <2>2. ASSUME NEW u \in Threads
        PROVE  life'[u] = "pulling" <=> \E m \in Generators : u \in pullers'[m] \cup takers'[m]
    <3>1. CASE u = t
      BY <1>3, <1>4, <3>1
    <3>2. CASE u /= t
      <4>1. \A m \in Generators : u \in pullers'[m] \cup takers'[m] <=> u \in pullers[m] \cup takers[m]
        BY <1>3, <3>2
      <4>2. life[u] = "pulling" <=> \E m \in Generators : u \in pullers[m] \cup takers[m]
        BY <2>2 DEF IInv, TypeOK
      <4>3. life'[u] = "pulling" <=> life[u] = "pulling"
        BY <1>4, <2>2, <3>2
      <4> QED
        BY <4>1, <4>2, <4>3
    <3> QED
      BY <3>1, <3>2
  <2> QED
    BY <2>1, <2>2 DEF TypeOK
<1>6. Pullers'
  <2>1. \A m, l \in Generators : Waiting(m)' \cap Waiting(l)' /= {} => m = l
    <3>1. \A m \in Generators : Waiting(m)' = Waiting(m) \cup IF m = n THEN {t} ELSE {}
      BY <1>3 DEF Waiting
    <3> QED
      BY <1>2, <3>1 DEF IInv, Pullers
  <2>2. \A m \in Generators : pullers'[m] \cap takers'[m] = {}
    BY <1>2, <1>3 DEF IInv, Pullers, Waiting
  <2>3. life'[n] \in {"running", "pulling", "awaiting"}
    BY <1>1, <1>4
  <2>4. ASSUME NEW m \in Generators \ {n}, pullers'[m] /= {}
        PROVE  life'[m] \in {"running", "pulling", "awaiting"}
    <3>1. m \in Threads /\ life[m] \in {"running", "pulling", "awaiting"}
      BY <1>3, <2>4 DEF IInv, Pullers, Threads
    <3> QED
      BY <1>4, <2>4, <3>1
  <2> QED
    BY <2>1, <2>2, <2>3, <2>4 DEF Pullers
<1>7. Takers'
  <2>1. \A m \in Generators : m \in Threads /\ (life'[m] = "awaiting" <=> life[m] = "awaiting")
    BY <1>1, <1>4 DEF Threads
  <2> QED
    BY <1>3, <2>1 DEF IInv, Takers
<1>8. Roles'
  BY <1>1, <1>4, ThreadsAssumption DEF IInv, Roles, Threads
<1>9. Alive' = Alive
  <2>1. \A g \in Goroutines :
          life'[g] \in {"none", "ended"} <=> life[g] \in {"none", "ended"}
    BY <1>1, <1>4 DEF Threads
  <2> QED
    BY <2>1, SameAlive
<1> QED
  BY <1>5, <1>6, <1>7, <1>8, <1>9 DEF IInv, Counted

\* A value that meets a next moves its thread from those that wait for one to
\* those that will resume the yield.
LEMMA TakeKeeps ==
  ASSUME IInv, NEW n \in Generators, NEW t \in Threads, Take(n, t)
  PROVE  IInv'
<1> USE DEF Take, Runs
<1>1. n \in Threads /\ n \notin Goroutines /\ n /= Main
  BY ThreadsAssumption DEF Threads
<1>2. /\ pullers'[n] = pullers[n] \ {t} /\ takers'[n] = takers[n] \cup {t}
      /\ \A m \in Generators \ {n} : pullers'[m] = pullers[m] /\ takers'[m] = takers[m]
      /\ t \in pullers[n] /\ closing' = closing
  BY DEF IInv, TypeOK
<1>3. /\ life[n] = "running" /\ life'[n] = "awaiting"
      /\ \A u \in Threads \ {n} : life'[u] = life[u]
  BY <1>1 DEF IInv, TypeOK
<1>4. \A m \in Generators : Waiting(m)' = Waiting(m)
  BY <1>2 DEF Waiting
<1>5. TypeOK'
  <2>1. /\ life' \in [Threads -> Lives]
        /\ wg' \in Int
        /\ pullers' \in [Generators -> SUBSET Threads]
        /\ takers' \in [Generators -> SUBSET Threads]
        /\ closing' \subseteq Generators
    BY <1>1 DEF IInv, TypeOK, Lives
  <2>2. ASSUME NEW u \in Threads
        PROVE  life'[u] = "pulling" <=> \E m \in Generators : u \in pullers'[m] \cup takers'[m]
    <3>1. life'[u] = "pulling" <=> life[u] = "pulling"
      BY <1>3
    <3>2. life[u] = "pulling" <=> \E m \in Generators : u \in pullers[m] \cup takers[m]
      BY <2>2 DEF IInv, TypeOK
    <3> QED
      BY <1>4, <3>1, <3>2 DEF Waiting
  <2> QED
    BY <2>1, <2>2 DEF TypeOK
<1>6. Pullers'
  <2>1. \A m, l \in Generators : Waiting(m)' \cap Waiting(l)' /= {} => m = l
    BY <1>4 DEF IInv, Pullers
  <2>2. \A m \in Generators : pullers'[m] \cap takers'[m] = {}
    BY <1>2 DEF IInv, Pullers
  <2>3. ASSUME NEW m \in Generators, pullers'[m] /= {}
        PROVE  life'[m] \in {"running", "pulling", "awaiting"}
    <3>1. CASE m = n
      BY <1>3, <3>1
    <3>2. CASE m /= n
      <4>1. m \in Threads /\ life[m] \in {"running", "pulling", "awaiting"}
        BY <1>2, <2>3, <3>2 DEF IInv, Pullers, Threads
      <4> QED
        BY <1>3, <3>2, <4>1
    <3> QED
      BY <3>1, <3>2
  <2> QED
    BY <2>1, <2>2, <2>3 DEF Pullers
<1>7. Takers'
  <2>1. n \notin closing => takers[n] = {}
    BY <1>3 DEF IInv, Takers
  <2>2. ASSUME NEW m \in Generators
        PROVE  /\ life'[m] = "awaiting" => takers'[m] /= {}
               /\ m \notin closing' /\ takers'[m] /= {} => life'[m] = "awaiting"
               /\ m \notin closing' => \A u, w \in takers'[m] : u = w
    <3>1. CASE m = n
      BY <1>2, <1>3, <2>1, <3>1
    <3>2. CASE m /= n
      <4>1. m \in Threads
        BY DEF Threads
      <4> QED
        BY <1>2, <1>3, <3>2, <4>1 DEF IInv, Takers
    <3> QED
      BY <3>1, <3>2
  <2> QED
    BY <2>2 DEF Takers
<1>8. Roles'
  BY <1>1, <1>3 DEF IInv, Roles, Threads
<1>9. Alive' = Alive
  <2>1. \A g \in Goroutines : life'[g] = life[g]
    BY <1>1, <1>3 DEF Threads
  <2> QED
    BY <2>1, SameAlive
<1> QED
  BY <1>5, <1>6, <1>7, <1>8, <1>9 DEF IInv, Counted

\* Who gets out of next evaluates again: threads of K stop waiting for n, and
\* n itself runs on or is over.
LEMMA ServeKeeps ==
  ASSUME IInv, NEW n \in Generators, life[n] \in {"running", "awaiting"},
         NEW K \in SUBSET Waiting(n),
         life'[n] = "running" \/ (life'[n] = "ended" /\ pullers[n] \subseteq K),
         takers[n] \subseteq K \/ n \in closing,
         life' \in [Threads -> Lives],
         \A u \in Threads \ {n} : life'[u] = IF u \in K THEN "running" ELSE life[u],
         pullers' = [pullers EXCEPT ![n] = @ \ K],
         takers' = [takers EXCEPT ![n] = @ \ K],
         UNCHANGED <<wg, closing>>
  PROVE  IInv'
<1>1. n \in Threads /\ n \notin Goroutines /\ n /= Main
  BY ThreadsAssumption DEF Threads
<1>2. /\ \A u \in K : u \in Threads /\ life[u] = "pulling" /\ u /= n
      /\ \A u \in K, m \in Generators \ {n} : u \notin Waiting(m)
      /\ \A m \in Generators : n \notin Waiting(m)
  <2>1. \A u \in K : u \in Threads /\ u \in Waiting(n)
    BY DEF IInv, TypeOK, Waiting
  <2>2. \A u \in Threads : life[u] = "pulling" <=> \E m \in Generators : u \in Waiting(m)
    BY DEF IInv, TypeOK, Waiting
  <2> QED
    BY <1>1, <2>1, <2>2 DEF IInv, Pullers
<1>3. /\ pullers'[n] = pullers[n] \ K /\ takers'[n] = takers[n] \ K
      /\ \A m \in Generators \ {n} : pullers'[m] = pullers[m] /\ takers'[m] = takers[m]
  BY DEF IInv, TypeOK
<1>4. \A m \in Generators : Waiting(m)' = Waiting(m) \ IF m = n THEN K ELSE {}
  BY <1>3 DEF Waiting
<1>5. TypeOK'
  <2>1. /\ wg' \in Int
        /\ pullers' \in [Generators -> SUBSET Threads]
        /\ takers' \in [Generators -> SUBSET Threads]
        /\ closing' \subseteq Generators
    BY DEF IInv, TypeOK
  <2>2. ASSUME NEW u \in Threads
        PROVE  life'[u] = "pulling" <=> \E m \in Generators : u \in Waiting(m)'
    <3>1. CASE u = n
      BY <1>2, <1>4, <3>1
    <3>2. CASE u \in K
      BY <1>2, <1>4, <3>2
    <3>3. CASE u /= n /\ u \notin K
      <4>1. \A m \in Generators : u \in Waiting(m)' <=> u \in Waiting(m)
        BY <1>4, <3>3
      <4>2. life[u] = "pulling" <=> \E m \in Generators : u \in Waiting(m)
        BY <2>2 DEF IInv, TypeOK, Waiting
      <4> QED
        BY <2>2, <3>3, <4>1, <4>2
    <3> QED
      BY <3>1, <3>2, <3>3
  <2> QED
    BY <2>1, <2>2 DEF TypeOK, Waiting
<1>6. Pullers'
  <2>1. \A m, l \in Generators : Waiting(m)' \cap Waiting(l)' \subseteq Waiting(m) \cap Waiting(l)
    BY <1>4
  <2>2. \A m, l \in Generators : Waiting(m)' \cap Waiting(l)' /= {} => m = l
    BY <2>1 DEF IInv, Pullers
  <2>3. \A m \in Generators : pullers'[m] \cap takers'[m] \subseteq pullers[m] \cap takers[m]
    BY <1>3
  <2>4. ASSUME NEW m \in Generators, pullers'[m] /= {}
        PROVE  life'[m] \in {"running", "pulling", "awaiting"}
    <3>1. CASE m = n
      BY <1>3, <2>4, <3>1
    <3>2. CASE m /= n
      <4>1. m \in Threads /\ life[m] \in {"running", "pulling", "awaiting"}
        BY <1>3, <2>4, <3>2 DEF IInv, Pullers, Threads
      <4> QED
        BY <3>2, <4>1
    <3> QED
      BY <3>1, <3>2
  <2> QED
    BY <2>2, <2>3, <2>4 DEF IInv, Pullers
<1>7. Takers'
  <2>1. ASSUME NEW m \in Generators
        PROVE  /\ life'[m] = "awaiting" => takers'[m] /= {}
               /\ m \notin closing' /\ takers'[m] /= {} => life'[m] = "awaiting"
               /\ m \notin closing' => \A u, w \in takers'[m] : u = w
    <3>1. CASE m = n
      BY <1>3, <3>1 DEF IInv, Takers
    <3>2. CASE m /= n
      <4>1. m \in Threads /\ (life'[m] = "awaiting" <=> life[m] = "awaiting")
        BY <1>2, <3>2 DEF Threads
      <4>2. takers'[m] = takers[m] /\ closing' = closing
        BY <1>3, <3>2
      <4>3. life[m] /= life'[m] => life[m] = "pulling"
        BY <1>2, <3>2, <4>1
      <4> QED
        BY <4>1, <4>2 DEF IInv, Takers
    <3> QED
      BY <3>1, <3>2
  <2> QED
    BY <2>1 DEF Takers
<1>8. \A u \in Threads \ {n} : life'[u] = life[u] \/ (life[u] = "pulling" /\ life'[u] = "running")
  BY <1>2
<1>9. Roles'
  BY <1>1, <1>8 DEF IInv, Roles, Threads
<1>10. Alive' = Alive
  <2>1. \A g \in Goroutines :
          life'[g] \in {"none", "ended"} <=> life[g] \in {"none", "ended"}
    BY <1>1, <1>8 DEF Threads
  <2> QED
    BY <2>1, SameAlive
<1> QED
  BY <1>5, <1>6, <1>7, <1>9, <1>10 DEF IInv, Counted

\* A resumed yield sets the thread that resumed it free, ...
LEMMA ResumeKeeps ==
  ASSUME IInv, NEW n \in Generators, NEW t \in Threads, Resume(n, t)
  PROVE  IInv'
<1>1. /\ life[n] = "awaiting" /\ t \in takers[n] /\ n \in Threads
      /\ life' = [life EXCEPT ![n] = "running", ![t] = "running"]
      /\ takers' = [takers EXCEPT ![n] = @ \ {t}]
      /\ UNCHANGED <<wg, pullers, closing>>
  BY DEF Resume, Threads
<1>2. t \notin pullers[n]
  BY <1>1 DEF IInv, Pullers
<1>3. PICK K \in SUBSET Waiting(n) : K = {t}
  BY <1>1 DEF Waiting
<1>4. takers[n] \subseteq K \/ n \in closing
  BY <1>1, <1>3 DEF IInv, Takers
<1>5. /\ life' \in [Threads -> Lives] /\ life'[n] = "running"
      /\ \A u \in Threads \ {n} : life'[u] = IF u \in K THEN "running" ELSE life[u]
  BY <1>1, <1>3 DEF IInv, TypeOK, Lives
<1>6. /\ pullers' = [pullers EXCEPT ![n] = @ \ K]
      /\ takers' = [takers EXCEPT ![n] = @ \ K]
  BY <1>1, <1>2, <1>3 DEF IInv, TypeOK
<1> QED
  BY <1>1, <1>4, <1>5, <1>6, ServeKeeps

\* ... a generator that ends, all that wait for a value.
LEMMA GeneratorEndKeeps ==
  ASSUME IInv, NEW n \in Generators, GeneratorEnd(n)
  PROVE  IInv'
<1>1. /\ life[n] = "running" /\ n \in Threads
      /\ life' = [t \in Threads |-> IF t = n THEN "ended"
                                    ELSE IF t \in pullers[n] THEN "running" ELSE life[t]]
      /\ pullers' = [pullers EXCEPT ![n] = {}]
      /\ UNCHANGED <<wg, takers, closing>>
  BY DEF GeneratorEnd, Runs, Threads
<1>2. PICK K \in SUBSET Waiting(n) : K = pullers[n]
  BY DEF Waiting
<1>3. /\ life' \in [Threads -> Lives] /\ life'[n] = "ended"
      /\ \A u \in Threads \ {n} : life'[u] = IF u \in K THEN "running" ELSE life[u]
  BY <1>1, <1>2 DEF IInv, TypeOK, Lives
<1>4. takers[n] \subseteq K \/ n \in closing
  BY <1>1 DEF IInv, Takers
<1>5. pullers' = [pullers EXCEPT ![n] = @ \ K]
  BY <1>1, <1>2 DEF IInv, TypeOK
<1>6. takers' = [takers EXCEPT ![n] = @ \ K]
  <2>1. takers[n] \ K = takers[n]
    BY <1>2 DEF IInv, Pullers
  <2> QED
    BY <1>1, <2>1 DEF IInv, TypeOK
<1> QED
  BY <1>1, <1>2, <1>3, <1>4, <1>5, <1>6, ServeKeeps

\* The steps in which one thread, no goroutine of a go statement, goes from one
\* state to another, neither into next nor out of it.
LEMMA OthersKeep ==
  ASSUME IInv,
         \/ \E n \in Generators : Abandon(n) \/ Park(n)
         \/ \E t \in Threads, n \in Generators : CloseGenerator(t, n)
         \/ Wait \/ WaitReturns \/ Exit
  PROVE  IInv'
<1> USE ThreadsAssumption
<1>1. PICK u \in Threads \ Goroutines, s \in Lives :
        /\ life[u] = "pulling" <=> s = "pulling"
        /\ u \in Generators /\ pullers[u] /= {} => s \in {"running", "pulling", "awaiting"}
        /\ s = "awaiting" => life[u] = "awaiting"
        /\ u \in Generators /\ s /= "awaiting" => takers[u] = {} \/ u \in closing'
        /\ u = Main => s \in {"waiting", "returned", "ended"}
        /\ life' = [life EXCEPT ![u] = s]
        /\ closing \subseteq closing' /\ closing' \subseteq Generators
        /\ UNCHANGED <<wg, pullers, takers>>
  <2>1. CASE \E n \in Generators : Park(n)
    <3>1. PICK n \in Generators : Park(n)
      BY <2>1
    <3>2. n \in Threads \ Goroutines /\ n /= Main /\ "parked" \in Lives
      BY DEF Threads, Lives
    <3>3. /\ life[n] = "running" /\ pullers[n] = {} /\ n \notin closing
          /\ life' = [life EXCEPT ![n] = "parked"]
          /\ UNCHANGED <<wg, pullers, takers, closing>>
      BY <3>1 DEF Park, Runs
    <3>4. takers[n] = {}
      BY <3>3 DEF IInv, Takers
    <3> QED
      BY <3>2, <3>3, <3>4 DEF IInv, TypeOK
  <2>2. CASE \E t \in Threads, n \in Generators : CloseGenerator(t, n)
    <3>1. PICK t \in Threads, n \in Generators : CloseGenerator(t, n)
      BY <2>2
    <3>2. PICK s \in Lives : s = IF life[n] = "parked" THEN "running" ELSE life[n]
      BY DEF Threads, Lives, IInv, TypeOK
    <3>3. n \in Threads \ Goroutines /\ n /= Main
      BY DEF Threads
    <3>4. /\ life' = [life EXCEPT ![n] = s]
          /\ closing' = closing \cup {n}
          /\ UNCHANGED <<wg, pullers, takers>>
      BY <3>1, <3>2 DEF CloseGenerator
    <3>5. pullers[n] /= {} => s \in {"running", "pulling", "awaiting"}
      BY <3>2 DEF IInv, Pullers
    <3> QED
      BY <3>2, <3>3, <3>4, <3>5 DEF IInv, TypeOK
  <2>3. CASE Wait \/ WaitReturns \/ Exit
    <3>1. Main \in Threads \ Goroutines /\ Main \notin Generators
      BY DEF Threads
    <3>2. PICK s \in {"waiting", "returned", "ended"} :
            /\ life[Main] /= "pulling"
            /\ life' = [life EXCEPT ![Main] = s]
            /\ UNCHANGED <<wg, pullers, takers, closing>>
      BY <2>3 DEF Wait, WaitReturns, Exit, Runs
    <3> QED
      BY <3>1, <3>2 DEF Lives, IInv, TypeOK
  <2>4. CASE \E n \in Generators : Abandon(n)
    <3>1. PICK n \in Generators : Abandon(n)
      BY <2>4
    <3>2. n \in Threads \ Goroutines /\ n /= Main /\ "running" \in Lives
      BY DEF Threads, Lives
    <3>3. /\ life[n] = "awaiting" /\ n \in closing
          /\ life' = [life EXCEPT ![n] = "running"]
          /\ UNCHANGED <<wg, pullers, takers, closing>>
      BY <3>1 DEF Abandon
    <3> QED
      BY <3>2, <3>3 DEF IInv, TypeOK
  <2> QED
    BY <2>1, <2>2, <2>3, <2>4
<1>2. life'[u] = s /\ \A t \in Threads \ {u} : life'[t] = life[t]
  BY <1>1 DEF IInv, TypeOK
<1>3. TypeOK'
  BY <1>1, <1>2 DEF IInv, TypeOK
<1>4. Pullers'
  <2>1. \A m \in Generators : Waiting(m)' = Waiting(m)
    BY <1>1 DEF Waiting
  <2>2. ASSUME NEW m \in Generators, pullers'[m] /= {}
        PROVE  life'[m] \in {"running", "pulling", "awaiting"}
    <3>1. pullers[m] /= {} /\ m \in Threads
      BY <1>1, <2>2 DEF Threads
    <3> QED
      BY <1>1, <1>2, <3>1 DEF IInv, Pullers
  <2> QED
    BY <1>1, <2>1, <2>2 DEF IInv, Pullers
<1>5. Takers'
  <2>1. ASSUME NEW m \in Generators
        PROVE  /\ life'[m] = "awaiting" => takers'[m] /= {}
               /\ m \notin closing' /\ takers'[m] /= {} => life'[m] = "awaiting"
               /\ m \notin closing' => \A t, w \in takers'[m] : t = w
    <3>1. m \in Threads /\ takers'[m] = takers[m]
      BY <1>1 DEF Threads
    <3>2. CASE m = u
      BY <1>1, <1>2, <3>1, <3>2 DEF IInv, Takers
    <3>3. CASE m /= u
      BY <1>1, <1>2, <3>1, <3>3 DEF IInv, Takers
    <3> QED
      BY <3>2, <3>3
  <2> QED
    BY <2>1 DEF Takers
<1>6. Roles'
  BY <1>1, <1>2 DEF IInv, Roles, Threads
<1>7. Alive' = Alive
  <2>1. \A g \in Goroutines : life'[g] = life[g]
    BY <1>1, <1>2 DEF Threads
  <2> QED
    BY <2>1, SameAlive
<1> QED
  BY <1>1, <1>3, <1>4, <1>5, <1>6, <1>7 DEF IInv, Counted

\* Every step keeps the invariant.
LEMMA NextIInv == IInv /\ [Next]_vars => IInv'
<1> SUFFICES ASSUME IInv, [Next]_vars PROVE IInv'
  OBVIOUS
<1>1. CASE \E t \in Threads, g \in Goroutines : evalGoStmt(t, g)
  BY <1>1, GoCounted
<1>2. CASE \E g \in Goroutines : GoEnd(g)
  BY <1>2, GoEndCounted
<1>3. CASE \E t \in Threads, n \in Generators : Pull(t, n)
  BY <1>3, PullKeeps
<1>4. CASE \E t \in Threads, n \in Generators : Take(n, t) \/ Resume(n, t)
  BY <1>4, TakeKeeps, ResumeKeeps
<1>5. CASE \E n \in Generators : GeneratorEnd(n)
  BY <1>5, GeneratorEndKeeps
<1>6. CASE \/ \E n \in Generators : Abandon(n) \/ Park(n)
           \/ \E t \in Threads, n \in Generators : CloseGenerator(t, n)
           \/ Wait \/ WaitReturns \/ Exit
  BY <1>6, OthersKeep
<1>7. CASE UNCHANGED vars
  BY <1>7 DEF vars, IInv, TypeOK, Pullers, Takers, Waiting, Roles, Counted, Alive
<1> QED
  BY <1>1, <1>2, <1>3, <1>4, <1>5, <1>6, <1>7 DEF Next

\* The invariant holds in every state.
THEOREM Invariant == Spec => []IInv
  BY InitIInv, NextIInv, PTL DEF Spec

\* The state keeps its shape: who is inside next is the puller of some
\* generator, and only they are (Generator.next).
THEOREM TypeCorrect == Spec => []TypeOK
<1>1. IInv => TypeOK
  BY DEF IInv
<1> QED
  BY <1>1, Invariant, PTL

\* The WaitGroup counts exactly the goroutines that are not over (evalGoStmt),
\* for any number of goroutines, spawned by whomever.
THEOREM CountedHolds == Spec => []Counted
<1>1. IInv => Counted
  BY DEF IInv
<1> QED
  BY <1>1, Invariant, PTL

-----------------------------------------------------------------------------
(* Nobody hangs.                                                           *)

\* If a counted thread is inside next, nobody evaluates and no yield is being
\* resumed, it hangs: all threads inside next wait for each other or for a yield
\* that was abandoned.
LEMMA NobodyRunsHung ==
  ASSUME IInv, NEW t \in {Main} \cup Goroutines, life[t] = "pulling",
         \A u \in Threads : life[u] /= "running",
         \A n \in Generators : life[n] = "awaiting" => takers[n] = {}
  PROVE  Hung
<1> DEFINE S == {u \in Threads : life[u] = "pulling"}
<1>1. S \in SUBSET Threads /\ S \cap ({Main} \cup Goroutines) /= {}
  BY DEF Threads
<1>2. ASSUME NEW u \in S
      PROVE  Stranded(u) \/ \E n \in S \cap Generators : u \in pullers[n]
  <2>1. PICK n \in Generators : u \in pullers[n] \cup takers[n]
    BY <1>2 DEF IInv, TypeOK
  <2>2. n \in Threads /\ life[n] /= "awaiting" /\ life[n] /= "running"
    BY DEF IInv, Takers, Threads
  <2>3. CASE u \in pullers[n]
    <3>1. life[n] = "pulling"
      BY <2>2, <2>3 DEF IInv, Pullers
    <3> QED
      BY <2>2, <2>3, <3>1
  <2>4. CASE u \in takers[n]
    BY <2>2, <2>4 DEF IInv, Takers, Stranded
  <2> QED
    BY <2>1, <2>3, <2>4
<1> HIDE DEF S
<1> QED
  BY <1>1, <1>2 DEF Hung

\* Until the process exits somebody evaluates, a yield is being resumed or the
\* top level can go on, unless a thread hangs in one of the two ways of Hung
\* (Generator.next, yieldValue, wg.Wait): for any number of goroutines and
\* generators, whoever pulls and whoever closes which, and when.
THEOREM SomebodyRunsHolds == Spec => []SomebodyRuns
<1>1. IInv => SomebodyRuns
  <2> SUFFICES ASSUME IInv, ~Exited, life[Main] /= "returned",
                      life[Main] = "waiting" => wg /= 0,
                      \A t \in Threads : life[t] /= "running",
                      \A n \in Generators : life[n] = "awaiting" => takers[n] = {}
               PROVE  Hung
    BY DEF SomebodyRuns
  <2>1. Main \in Threads /\ \A g \in Goroutines : g \in Threads
    BY DEF Threads
  <2>2. CASE life[Main] = "pulling"
    BY <2>1, <2>2, NobodyRunsHung
  <2>3. CASE life[Main] = "waiting"
    <3>1. Alive /= {}
      BY <2>3, FS_EmptySet DEF IInv, Counted
    <3>2. PICK g \in Goroutines : life[g] = "pulling"
      BY <2>1, <3>1 DEF Alive, IInv, Roles
    <3> QED
      BY <2>1, <3>2, NobodyRunsHung
  <2> QED
    BY <2>1, <2>2, <2>3 DEF IInv, Roles, Exited
<1> QED
  BY <1>1, Invariant, PTL

-----------------------------------------------------------------------------
(* The join, when no generator executes a go statement.                    *)

\* Whoever executes a go statement is alive and counted, or the top level.
LEMMA SpawnerCounted ==
  ASSUME ~GeneratorsSpawn, IInv,
         NEW t \in Threads, NEW g \in Goroutines, evalGoStmt(t, g)
  PROVE  t = Main \/ (t \in Alive /\ wg > 0)
<1>1. t \in Goroutines \/ t = Main
  BY DEF evalGoStmt, Threads
<1>2. CASE t \in Goroutines
  BY <1>2, RunningCounts DEF evalGoStmt, Runs, Alive, IInv
<1> QED
  BY <1>1, <1>2

\* After the join nobody is made any more.
LEMMA NextJoinOver ==
  ASSUME ~GeneratorsSpawn
  PROVE  IInv /\ JoinOver /\ [Next]_vars => JoinOver'
<1> SUFFICES ASSUME IInv, JoinOver, [Next]_vars,
                    life'[Main] \in {"returned", "ended"}
             PROVE  Alive' = {}
  BY DEF JoinOver
<1> USE ThreadsAssumption
<1>1. Main \in Threads /\ life \in [Threads -> Lives]
  BY DEF Threads, IInv, TypeOK
<1>2. CASE WaitReturns
  <2>1. Alive = {}
    BY <1>2, ZeroMeansNobody DEF WaitReturns, IInv
  <2>2. \A g \in Goroutines : life'[g] = life[g]
    BY <1>1, <1>2 DEF WaitReturns, Threads
  <2> QED
    BY <2>1, <2>2 DEF Alive
<1>3. CASE ~WaitReturns
  <2>1. life[Main] \in {"returned", "ended"}
    <3>1. CASE \E t \in Threads, g \in Goroutines : evalGoStmt(t, g)
      BY <1>1, <3>1 DEF evalGoStmt
    <3>2. CASE \E g \in Goroutines : GoEnd(g)
      BY <1>1, <3>2 DEF GoEnd
    <3>3. CASE \E t \in Threads, n \in Generators : Pull(t, n)
      BY <1>1, <3>3 DEF Pull, Threads
    <3>4. CASE \E t \in Threads, n \in Generators : Take(n, t) \/ Resume(n, t)
      <4>1. \A t \in Threads, n \in Generators : Take(n, t) => life'[Main] = life[Main]
        BY <1>1 DEF Take
      <4>2. \A t \in Threads, n \in Generators : Resume(n, t) /\ t /= Main => life'[Main] = life[Main]
        BY <1>1 DEF Resume
      <4>3. \A n \in Generators : Resume(n, Main) => life'[Main] = "running"
        BY <1>1 DEF Resume
      <4> QED
        BY <3>4, <4>1, <4>2, <4>3
    <3>5. CASE \E n \in Generators : GeneratorEnd(n)
      BY <1>1, <3>5 DEF GeneratorEnd
    <3>6. CASE \/ \E n \in Generators : Abandon(n) \/ Park(n)
               \/ \E t \in Threads, n \in Generators : CloseGenerator(t, n)
      BY <1>1, <3>6 DEF Abandon, Park, CloseGenerator
    <3>7. CASE Wait \/ Exit \/ UNCHANGED vars
      BY <1>1, <3>7 DEF Wait, Exit, vars
    <3> QED
      BY <1>3, <3>1, <3>2, <3>3, <3>4, <3>5, <3>6, <3>7 DEF Next
  <2>2. Alive = {} /\ wg = 0
    BY <2>1, FS_EmptySet DEF JoinOver, IInv, Counted
  <2>3. wg' \in Int /\ wg' = Cardinality(Alive') /\ Alive' \subseteq Goroutines
    BY NextIInv DEF IInv, TypeOK, Counted, Alive
  <2>4. ~ \E t \in Threads, g \in Goroutines : evalGoStmt(t, g)
    <3>1. ~Runs(Main)
      BY <2>1 DEF Runs
    <3> QED
      BY <2>2, <3>1, SpawnerCounted DEF evalGoStmt
  <2>5. ~ \E g \in Goroutines : GoEnd(g)
    BY <2>2 DEF GoEnd, Runs, Alive
  <2>6. wg' = wg
    BY <1>3, <2>4, <2>5 DEF Next, Pull, CloseGenerator, Take, Resume, Abandon, Park, GeneratorEnd, Wait, Exit, vars
  <2>7. IsFiniteSet(Alive')
    BY <2>3, FiniteAssumption, FS_Subset
  <2> QED
    BY <2>2, <2>3, <2>6, <2>7, FS_EmptySet
<1> QED
  BY <1>2, <1>3

\* The program joins every goroutine before it exits (the comment on Eval.wg
\* and EvalProgram), provided no generator's body executes a go statement.
THEOREM JoinedHolds ==
  ASSUME ~GeneratorsSpawn
  PROVE  Spec => []Joined
<1>1. Init => JoinOver
  BY ThreadsAssumption DEF Init, JoinOver, Threads
<1>2. JoinOver => Joined
  BY DEF JoinOver, Joined, Exited
<1> QED
  BY <1>1, <1>2, NextJoinOver, Invariant, PTL DEF Spec

\* wg.Add is never reached with a zero counter while the top level is in
\* wg.Wait (what sync.WaitGroup demands of evalGoStmt), under the same
\* condition.
THEOREM AddCoveredHolds ==
  ASSUME ~GeneratorsSpawn
  PROVE  Spec => AddCovered
<1>1. ASSUME IInv, [Next]_vars
      PROVE  [wg' > wg /\ life[Main] \in {"waiting", "returned"} => wg > 0]_vars
  <2> SUFFICES ASSUME Next, wg' > wg, life[Main] \in {"waiting", "returned"}
               PROVE  wg > 0
    BY <1>1
  <2>1. wg \in Int
    BY <1>1 DEF IInv, TypeOK
  <2>2. PICK t \in Threads, g \in Goroutines : evalGoStmt(t, g)
    BY <2>1 DEF Next, GoEnd, Pull, CloseGenerator, Take, Resume, Abandon, Park, GeneratorEnd, Wait, WaitReturns, Exit
  <2>3. t /= Main
    BY <2>2 DEF evalGoStmt, Runs
  <2> QED
    BY <1>1, <2>2, <2>3, SpawnerCounted
<1> QED
  BY <1>1, Invariant, PTL DEF Spec, AddCovered
=============================================================================
