------------------------- MODULE GeneratorsProofs --------------------------
(***************************************************************************)
(* Proofs about Generators, for every chain and every set of consumers.    *)
(***************************************************************************)
EXTENDS Generators, WellFoundedInduction, TLAPS

\* A body that offers a value, or has it taken, has one.
ItemsReady ==
  \A i \in Gens : pc[i] \in {"offer", "await", "ack"} => item[i] \in Items

\* The flags say where the goroutine of a generator is: it is started once,
\* ch is closed when it is over, and finished only after that.
Flags ==
  \A i \in Gens :
    /\ started[i] <=> pc[i] /= "new"
    /\ runs[i] = IF started[i] THEN 1 ELSE 0
    /\ chClosed[i] <=> pc[i] = "ended"
    /\ finished[i] => chClosed[i]

\* Where a body may be inside a yield from, and what then holds of the
\* generator it delegates to.
Delegation ==
  \A i \in Gens :
    /\ delegating[i] => i + 1 \in Gens /\ started[i + 1]
    /\ pc[i] \in {"recv", "ack", "exit", "fail", "drop"} => delegating[i]
    /\ pc[i] \in {"new", "raised", "finish", "ended"} => ~delegating[i]
    /\ pc[i] \in {"exit", "fail"} => chClosed[i + 1]
    /\ pc[i] = "drop" => done[i]
    /\ i + 1 \in Gens /\ started[i + 1] => delegating[i] \/ done[i + 1]

\* A yield from that has found generator i + 1 at its end knows whether that
\* was an error.
Found(i) ==
  /\ delegating[i] => (finished[i + 1] <=> pc[i] \in {"exit", "fail"})
  /\ pc[i] = "exit" => ~err[i + 1]
  /\ pc[i] = "fail" => err[i + 1]

\* Where the error of generator i + 1 is: nobody has asked for it, or its
\* consumer has it, has passed it on or has caught it, or was closed before
\* it asked.
Errors ==
  /\ \A i \in Gens : i + 1 \in Gens =>
       /\ started[i + 1] /\ ~chClosed[i + 1] => delegating[i] \/ done[i]
       /\ err[i + 1] => started[i + 1]
       /\ Found(i)
       /\ err[i + 1] => \/ delegating[i] \/ pc[i] = "raised"
                        \/ err[i] \/ handled[i]
                        \/ done[i] /\ ~finished[i + 1]
  /\ \A c \in Consumers : told[c] = "exhausted" => chClosed[1] /\ ~err[1]

\* What every step preserves.
IInv == TypeOK /\ ItemsReady /\ Flags /\ Delegation /\ Errors

-----------------------------------------------------------------------------
(* The chain.                                                              *)

\* Who pulls what: a consumer the first generator, a body the next one.
LEMMA Chain ==
  /\ \A i \in Gens : i \in Nat /\ i > 0 /\ Target(i) = i + 1 /\ i + 1 /= i
  /\ \A c \in Consumers : c \notin Gens /\ Target(c) = 1
  /\ 1 \in Gens
  BY DepthAssumption, ConsumersAssumption DEF Gens, Target

\* The first generator has no other before it.
LEMMA FirstOfChain == \A i \in Gens : i + 1 /= 1
  BY DepthAssumption DEF Gens

-----------------------------------------------------------------------------
(* next.                                                                   *)

\* Thread t waits for a generator that has been started before.
LEMMA WaitKeeps ==
  ASSUME IInv, NEW t \in Threads, Target(t) \in Gens, started[Target(t)],
         t \in Gens => pc[t] = "body" /\ delegating[t],
         pc' = [pc EXCEPT ![t] = "recv"],
         loops' \in [Consumers -> 0 .. MaxLoops],
         UNCHANGED <<gvars, bodies, history>>
  PROVE  IInv'
<1> USE Chain DEF gvars, bodies, history
<1>a. t \in Consumers \/ t \in Gens
  BY DEF Threads
<1>b. pc'[t] = "recv" /\ \A u \in Threads \ {t} : pc'[u] = pc[u]
  BY DEF IInv, TypeOK
<1>1. TypeOK'
  <2>1. /\ started' \in [Gens -> BOOLEAN] /\ finished' \in [Gens -> BOOLEAN]
        /\ err' \in [Gens -> BOOLEAN] /\ chClosed' \in [Gens -> BOOLEAN]
        /\ done' \in [Gens -> BOOLEAN] /\ delegating' \in [Gens -> BOOLEAN]
    BY DEF IInv, TypeOK
  <2>2. runs' \in [Gens -> Nat]
    BY DEF IInv, TypeOK
  <2>3. pc' \in [Threads -> ConsumerPCs \cup RunnerPCs]
    BY <1>a DEF IInv, TypeOK, Threads, RunnerPCs, ConsumerPCs
  <2>4. \A j \in Gens : pc'[j] \in RunnerPCs
    BY <1>a, <1>b DEF IInv, TypeOK, Threads, RunnerPCs, ConsumerPCs
  <2>5. \A c \in Consumers : pc'[c] \in ConsumerPCs
    BY <1>a, <1>b DEF IInv, TypeOK, Threads, RunnerPCs, ConsumerPCs
  <2>6. told' \in [Consumers -> {"none", "exhausted", "error"}]
    BY <1>a DEF IInv, TypeOK
  <2> QED
    BY <2>1, <2>2, <2>3, <2>4, <2>5, <2>6 DEF IInv, TypeOK
<1>2. ItemsReady'
  BY <1>a, <1>b DEF IInv, ItemsReady, Threads
<1>3. Flags'
  BY <1>a, <1>b DEF IInv, Flags, Threads
<1>4. Delegation'
  BY <1>a, <1>b DEF IInv, Delegation, Threads
<1>5. Errors'
  BY <1>a, <1>b DEF IInv, Errors, Found, Threads
<1> QED
  BY <1>1, <1>2, <1>3, <1>4, <1>5 DEF IInv

\* Thread t starts the goroutine of a generator and waits for it.
LEMMA StartKeeps ==
  ASSUME IInv, NEW t \in Threads, NEW i \in Gens, i = Target(t), ~started[i],
         t \in Gens => pc[t] = "body",
         pc' = [pc EXCEPT ![t] = "recv", ![i] = "body"],
         started' = [started EXCEPT ![i] = TRUE],
         runs' = [runs EXCEPT ![i] = runs[i] + 1],
         delegating' = IF t \in Gens THEN [delegating EXCEPT ![t] = TRUE] ELSE delegating,
         loops' \in [Consumers -> 0 .. MaxLoops],
         UNCHANGED <<finished, err, chClosed, done, item, made, trace, received, handled, told>>
  PROVE  IInv'
<1> USE Chain
<1>a. (t \in Consumers \/ t \in Gens) /\ i \in Threads /\ t /= i
  BY DEF Threads
<1>b. /\ pc'[t] = "recv" /\ pc'[i] = "body"
      /\ \A u \in Threads \ {t, i} : pc'[u] = pc[u]
  BY <1>a DEF IInv, TypeOK
<1>c. pc[i] = "new" /\ ~chClosed[i] /\ ~delegating[i]
  BY DEF IInv, Flags, Delegation
<1>1. TypeOK'
  <2>1. /\ started' \in [Gens -> BOOLEAN] /\ finished' \in [Gens -> BOOLEAN]
        /\ err' \in [Gens -> BOOLEAN] /\ chClosed' \in [Gens -> BOOLEAN]
        /\ done' \in [Gens -> BOOLEAN] /\ delegating' \in [Gens -> BOOLEAN]
    BY DEF IInv, TypeOK
  <2>2. runs' \in [Gens -> Nat]
    <3>1. runs \in [Gens -> Nat] /\ runs[i] + 1 \in Nat
      BY DEF IInv, TypeOK
    <3> QED
      BY <3>1
  <2>3. pc' \in [Threads -> ConsumerPCs \cup RunnerPCs]
    BY <1>a DEF IInv, TypeOK, Threads, RunnerPCs, ConsumerPCs
  <2>4. \A j \in Gens : pc'[j] \in RunnerPCs
    BY <1>a, <1>b DEF IInv, TypeOK, Threads, RunnerPCs, ConsumerPCs
  <2>5. ASSUME NEW c \in Consumers
        PROVE  pc'[c] \in ConsumerPCs
    <3>1. CASE c = t
      BY <1>b, <3>1 DEF ConsumerPCs
    <3>2. CASE c /= t
      BY <1>b, <3>2 DEF IInv, TypeOK, Threads
    <3> QED
      BY <3>1, <3>2
  <2>6. told' \in [Consumers -> {"none", "exhausted", "error"}]
    BY <1>a DEF IInv, TypeOK
  <2> QED
    BY <2>1, <2>2, <2>3, <2>4, <2>5, <2>6 DEF IInv, TypeOK
<1>2. ItemsReady'
  BY <1>a, <1>b DEF IInv, ItemsReady, Threads
<1>3. Flags'
  <2>1. /\ started'[i] /\ runs'[i] = runs[i] + 1
        /\ \A j \in Gens \ {i} : started'[j] = started[j] /\ runs'[j] = runs[j]
    BY DEF IInv, TypeOK
  <2>2. runs[i] = 0 /\ ~finished[i]
    BY <1>c DEF IInv, Flags
  <2> SUFFICES ASSUME NEW j \in Gens
               PROVE  /\ started'[j] <=> pc'[j] /= "new"
                      /\ runs'[j] = IF started'[j] THEN 1 ELSE 0
                      /\ chClosed[j] <=> pc'[j] = "ended"
                      /\ finished[j] => chClosed[j]
    BY DEF Flags
  <2>3. CASE j = i
    BY <1>b, <1>c, <2>1, <2>2, <2>3
  <2>4. CASE j = t
    BY <1>a, <1>b, <2>1, <2>4 DEF IInv, Flags
  <2>5. CASE j \notin {t, i}
    <3>1. pc'[j] = pc[j] /\ started'[j] = started[j] /\ runs'[j] = runs[j]
      BY <1>b, <2>1, <2>5 DEF Threads
    <3>2. /\ started[j] <=> pc[j] /= "new"
          /\ runs[j] = IF started[j] THEN 1 ELSE 0
          /\ chClosed[j] <=> pc[j] = "ended"
          /\ finished[j] => chClosed[j]
      BY DEF IInv, Flags
    <3> QED
      BY <3>1, <3>2
  <2> QED
    BY <2>3, <2>4, <2>5
<1>d. \A j \in Gens : j + 1 = i => j = t /\ delegating'[j]
  <2>1. CASE t \in Consumers
    BY <2>1, FirstOfChain
  <2>2. CASE t \in Gens
    BY <2>2 DEF IInv, TypeOK, Gens
  <2> QED
    BY <1>a, <2>1, <2>2
<1>4. Delegation'
  <2> SUFFICES ASSUME NEW j \in Gens
               PROVE  /\ delegating'[j] => j + 1 \in Gens /\ started'[j + 1]
                      /\ pc'[j] \in {"recv", "ack", "exit", "fail", "drop"} => delegating'[j]
                      /\ pc'[j] \in {"new", "raised", "finish", "ended"} => ~delegating'[j]
                      /\ pc'[j] \in {"exit", "fail"} => chClosed'[j + 1]
                      /\ pc'[j] = "drop" => done'[j]
                      /\ j + 1 \in Gens /\ started'[j + 1] => delegating'[j] \/ done'[j + 1]
    BY DEF Delegation
  <2>1. CASE j = t
    BY <1>b, <2>1 DEF IInv, TypeOK, Delegation
  <2>2. CASE j = i
    BY <1>a, <1>b, <1>c, <1>d, <2>2 DEF IInv, TypeOK, Delegation, Flags
  <2>3. CASE j \notin {t, i}
    <3>1. pc'[j] = pc[j] /\ delegating'[j] = delegating[j]
      BY <1>b, <2>3 DEF IInv, TypeOK, Threads
    <3>2. j + 1 /= i
      BY <1>d, <2>3
    <3>3. j + 1 \in Gens => started'[j + 1] = started[j + 1]
      BY <3>2 DEF IInv, TypeOK
    <3> QED
      BY <3>1, <3>3 DEF IInv, Delegation
  <2> QED
    BY <2>1, <2>2, <2>3
<1>5. Errors'
  <2>1. ASSUME NEW j \in Gens, j + 1 \in Gens
        PROVE  /\ started'[j + 1] /\ ~chClosed[j + 1] => delegating'[j] \/ done[j]
               /\ err[j + 1] => started'[j + 1]
               /\ delegating'[j] => (finished[j + 1] <=> pc'[j] \in {"exit", "fail"})
               /\ pc'[j] = "exit" => ~err[j + 1]
               /\ pc'[j] = "fail" => err[j + 1]
               /\ err[j + 1] => \/ delegating'[j] \/ pc'[j] = "raised"
                                \/ err[j] \/ handled[j] \/ (done[j] /\ ~finished[j + 1])
    <3>1. CASE j + 1 = i
      <4>1. j = t /\ delegating'[j] /\ ~finished[i] /\ ~err[i] /\ started'[i]
        BY <1>c, <1>d, <2>1, <3>1 DEF IInv, TypeOK, Flags, Errors
      <4> QED
        BY <1>b, <3>1, <4>1
    <3>2. CASE j + 1 /= i
      <4>1. started'[j + 1] = started[j + 1]
        BY <2>1, <3>2 DEF IInv, TypeOK
      <4>2. CASE j = i
        BY <1>b, <1>c, <2>1, <4>1, <4>2 DEF IInv, TypeOK, Errors, Found
      <4>3. CASE j /= i
        <5>1. j /= t
          BY <3>2
        <5>2. pc'[j] = pc[j] /\ delegating'[j] = delegating[j]
          BY <1>b, <4>3, <5>1 DEF IInv, TypeOK, Threads
        <5> QED
          BY <2>1, <4>1, <5>2 DEF IInv, Errors, Found
      <4> QED
        BY <4>2, <4>3
    <3> QED
      BY <3>1, <3>2
  <2> QED
    BY <2>1 DEF IInv, Errors, Found, Delegation
<1> QED
  BY <1>1, <1>2, <1>3, <1>4, <1>5 DEF IInv

\* Thread t finds the generator it pulls at its end.
LEMMA EndKeeps ==
  ASSUME IInv, NEW t \in Threads, NEW i \in Gens, i = Target(t), chClosed[i],
         t \in Gens => pc[t] \in {"body", "recv"} /\ delegating[t],
         EndOf(t, i),
         finished' = [finished EXCEPT ![i] = TRUE],
         loops' \in [Consumers -> 0 .. MaxLoops],
         UNCHANGED <<started, err, chClosed, done, bodies, runs, trace, received, handled>>
  PROVE  IInv'
<1> USE Chain DEF bodies
<1>a. t \in Consumers \/ t \in Gens
  BY DEF Threads
<1> DEFINE to == IF t \in Gens THEN IF err[i] THEN "fail" ELSE "exit" ELSE "idle"
<1>c. pc' = [pc EXCEPT ![t] = to]
  BY DEF EndOf, Goto
<1>b. /\ pc'[t] = to
      /\ \A u \in Threads \ {t} : pc'[u] = pc[u]
  BY <1>c DEF IInv, TypeOK
<1>1. TypeOK'
  <2>1. finished' \in [Gens -> BOOLEAN]
    BY DEF IInv, TypeOK
  <2>4. told' \in [Consumers -> {"none", "exhausted", "error"}]
    <3>1. told' = told \/ told' = [told EXCEPT ![t] = IF err[i] THEN "error" ELSE "exhausted"]
      BY DEF EndOf
    <3> QED
      BY <3>1 DEF IInv, TypeOK
  <2>2. pc' \in [Threads -> ConsumerPCs \cup RunnerPCs]
    <3>1. to \in ConsumerPCs \cup RunnerPCs
      BY DEF RunnerPCs, ConsumerPCs
    <3>2. pc \in [Threads -> ConsumerPCs \cup RunnerPCs]
      BY DEF IInv, TypeOK
    <3> QED
      BY <1>c, <3>1, <3>2
  <2>3. ASSUME NEW u \in Threads
        PROVE  /\ u \in Gens => pc'[u] \in RunnerPCs
               /\ u \in Consumers => pc'[u] \in ConsumerPCs
    <3>1. CASE u = t
      BY <1>b, <3>1 DEF RunnerPCs, ConsumerPCs
    <3>2. CASE u /= t
      BY <1>b, <3>2 DEF IInv, TypeOK
    <3> QED
      BY <3>1, <3>2
  <2> QED
    BY <2>1, <2>2, <2>3, <2>4 DEF IInv, TypeOK, Threads
<1>2. ItemsReady'
  BY <1>a, <1>b DEF IInv, ItemsReady, Threads
<1>3. Flags'
  <2> SUFFICES ASSUME NEW j \in Gens
               PROVE  /\ started[j] <=> pc'[j] /= "new"
                      /\ chClosed[j] <=> pc'[j] = "ended"
                      /\ finished'[j] => chClosed[j]
    BY DEF IInv, Flags
  <2>1. finished'[j] => chClosed[j]
    BY DEF IInv, TypeOK, Flags
  <2>2. (started[j] <=> pc'[j] /= "new") /\ (chClosed[j] <=> pc'[j] = "ended")
    BY <1>b DEF IInv, Flags, Threads
  <2> QED
    BY <2>1, <2>2
<1>4. Delegation'
  <2> SUFFICES ASSUME NEW j \in Gens
               PROVE  /\ pc'[j] \in {"recv", "ack", "exit", "fail", "drop"} => delegating[j]
                      /\ pc'[j] \in {"new", "raised", "finish", "ended"} => ~delegating[j]
                      /\ pc'[j] \in {"exit", "fail"} => chClosed[j + 1]
                      /\ pc'[j] = "drop" => done[j]
    BY DEF IInv, Delegation
  <2>1. CASE j = t
    BY <1>b, <2>1
  <2>2. CASE j /= t
    BY <1>b, <2>2 DEF IInv, Delegation, Threads
  <2> QED
    BY <2>1, <2>2
<1>5. Errors'
  <2>1. ASSUME NEW c \in Consumers, told'[c] = "exhausted"
        PROVE  chClosed[1] /\ ~err[1]
    <3>1. CASE c = t
      BY <2>1, <3>1 DEF EndOf, IInv, TypeOK, Errors
    <3>2. CASE c /= t
      BY <2>1, <3>2 DEF EndOf, IInv, TypeOK, Errors
    <3> QED
      BY <3>1, <3>2
  <2>2. ASSUME NEW j \in Gens, j + 1 \in Gens
        PROVE  /\ delegating[j] => (finished'[j + 1] <=> pc'[j] \in {"exit", "fail"})
               /\ pc'[j] = "exit" => ~err[j + 1]
               /\ pc'[j] = "fail" => err[j + 1]
               /\ err[j + 1] => \/ delegating[j] \/ pc'[j] = "raised"
                                \/ err[j] \/ handled[j] \/ (done[j] /\ ~finished'[j + 1])
    <3>1. CASE j = t
      BY <1>b, <2>2, <3>1 DEF IInv, TypeOK
    <3>2. CASE j /= t
      <4>1. pc'[j] = pc[j] /\ j + 1 /= i
        BY <1>a, <1>b, <3>2, FirstOfChain DEF Threads, Gens
      <4>2. finished'[j + 1] = finished[j + 1]
        BY <2>2, <4>1 DEF IInv, TypeOK
      <4> QED
        BY <2>2, <4>1, <4>2 DEF IInv, Errors, Found
    <3> QED
      BY <3>1, <3>2
  <2> QED
    BY <2>1, <2>2 DEF IInv, Errors, Found, Delegation
<1> QED
  BY <1>1, <1>2, <1>3, <1>4, <1>5 DEF IInv

\* A consumer begins to pull.
LEMMA ConsumerPulls ==
  ASSUME IInv, NEW c \in Consumers, NextBegin(c),
         loops' \in [Consumers -> 0 .. MaxLoops],
         UNCHANGED <<bodies, trace, received, handled>>
  PROVE  IInv'
<1> USE Chain
<1>1. c \in Threads
  BY DEF Threads
<1>2. CASE finished[1]
  <2>1. chClosed[1] /\ [finished EXCEPT ![1] = TRUE] = finished
    BY <1>2 DEF IInv, TypeOK, Flags
  <2> QED
    BY <1>1, <1>2, <2>1, EndKeeps DEF NextBegin, gvars
<1>3. CASE ~finished[1] /\ started[1]
  <2>1. /\ pc' = [pc EXCEPT ![c] = "recv"]
        /\ started' = started /\ runs' = runs
    <3>1. pc' = [pc EXCEPT ![c] = "recv", ![1] = pc[1]] /\ runs' = [runs EXCEPT ![1] = runs[1]]
      BY <1>3 DEF NextBegin, FirstPull
    <3>2. started' = [started EXCEPT ![1] = TRUE]
      BY <1>3 DEF NextBegin
    <3>3. pc' = [pc EXCEPT ![c] = "recv"]
      <4>1. pc \in [Threads -> ConsumerPCs \cup RunnerPCs] /\ 1 \in Threads /\ c /= 1
        BY DEF IInv, TypeOK, Threads
      <4> QED
        BY <3>1, <4>1
    <3>4. started' = started /\ runs' = runs
      BY <1>3, <3>1, <3>2 DEF IInv, TypeOK
    <3> QED
      BY <3>3, <3>4
  <2> QED
    BY <1>1, <1>3, <2>1, WaitKeeps DEF NextBegin, gvars, history
<1>4. CASE ~finished[1] /\ ~started[1]
  BY <1>1, <1>4, StartKeeps DEF NextBegin, FirstPull, bodies
<1> QED
  BY <1>2, <1>3, <1>4

LEMMA LoopBeginKeeps ==
  ASSUME IInv, NEW c \in Consumers, LoopBegin(c)
  PROVE  IInv'
<1>1. loops' \in [Consumers -> 0 .. MaxLoops]
  BY BoundsAssumption DEF LoopBegin, IInv, TypeOK
<1> QED
  BY <1>1, ConsumerPulls DEF LoopBegin

LEMMA LoopNextKeeps ==
  ASSUME IInv, NEW c \in Consumers, LoopNext(c)
  PROVE  IInv'
  BY ConsumerPulls DEF LoopNext, IInv, TypeOK

\* A yield from begins to pull a generator nobody has started, ...
LEMMA YieldFromKeeps ==
  ASSUME IInv, NEW i \in Gens, YieldFrom(i)
  PROVE  IInv'
<1> USE Chain DEF YieldFrom
<1>1. i \in Threads /\ Target(i) = i + 1 /\ ~finished[i + 1]
  BY DEF Threads, IInv, Flags
<1>2. loops' \in [Consumers -> 0 .. MaxLoops]
  BY DEF IInv, TypeOK
<1> QED
  BY <1>1, <1>2, StartKeeps DEF NextBegin, FirstPull

\* ... and pulls it again.
LEMMA YieldFromNextKeeps ==
  ASSUME IInv, NEW i \in Gens, YieldFromNext(i)
  PROVE  IInv'
<1> USE Chain DEF YieldFromNext
<1>1. i \in Threads /\ Target(i) = i + 1 /\ i + 1 \in Gens /\ started[i + 1]
  BY DEF Threads, IInv, Delegation
<1>2. loops' \in [Consumers -> 0 .. MaxLoops]
  BY DEF IInv, TypeOK
<1>3. CASE finished[i + 1]
  <2>1. chClosed[i + 1] /\ [finished EXCEPT ![i + 1] = TRUE] = finished
    BY <1>1, <1>3 DEF IInv, TypeOK, Flags
  <2> QED
    BY <1>1, <1>2, <1>3, <2>1, EndKeeps DEF NextBegin, gvars
<1>4. CASE ~finished[i + 1]
  <2>1. /\ pc' = [pc EXCEPT ![i] = "recv"]
        /\ started' = started /\ runs' = runs
    <3>1. /\ pc' = [pc EXCEPT ![i] = "recv", ![i + 1] = pc[i + 1]]
          /\ runs' = [runs EXCEPT ![i + 1] = runs[i + 1]]
      BY <1>1, <1>4 DEF NextBegin, FirstPull
    <3>2. started' = [started EXCEPT ![i + 1] = TRUE]
      BY <1>1, <1>4 DEF NextBegin
    <3>3. pc \in [Threads -> ConsumerPCs \cup RunnerPCs] /\ i + 1 \in Threads
          /\ started \in [Gens -> BOOLEAN] /\ runs \in [Gens -> Nat]
      BY <1>1 DEF IInv, TypeOK, Threads
    <3>4. [pc EXCEPT ![i] = "recv", ![i + 1] = pc[i + 1]] = [pc EXCEPT ![i] = "recv"]
      BY <1>1, <3>3
    <3>5. [started EXCEPT ![i + 1] = TRUE] = started
          /\ [runs EXCEPT ![i + 1] = runs[i + 1]] = runs
      BY <1>1, <3>3
    <3> QED
      BY <3>1, <3>2, <3>4, <3>5
  <2>2. UNCHANGED <<finished, err, chClosed, done, told>>
    BY <1>1, <1>4 DEF NextBegin
  <2> QED
    BY <1>1, <1>2, <2>1, <2>2, WaitKeeps DEF gvars, history
<1> QED
  BY <1>3, <1>4

\* Who waits for a value finds the end.
LEMMA NextEndKeeps ==
  ASSUME IInv, NEW t \in Threads, NextEnd(t)
  PROVE  IInv'
<1> USE Chain
<1>1. t \in Gens => delegating[t]
  BY DEF NextEnd, IInv, Delegation
<1>2. loops' \in [Consumers -> 0 .. MaxLoops]
  BY DEF NextEnd, IInv, TypeOK
<1> QED
  BY <1>1, <1>2, EndKeeps DEF NextEnd

-----------------------------------------------------------------------------
(* The other steps.                                                        *)

\* A value is handed over.
LEMMA HandoverKeeps ==
  ASSUME IInv, NEW t \in Threads, NEW i \in Gens, Handover(t, i)
  PROVE  IInv'
<1> USE Chain DEF Handover, gvars, bodies, history
<1>a. t \in Threads /\ i \in Threads /\ t /= i
  BY DEF Threads
<1>b. /\ pc'[t] = "ack" /\ pc'[i] = "await"
      /\ \A u \in Threads \ {t, i} : pc'[u] = pc[u]
  BY <1>a DEF IInv, TypeOK
<1>1. TypeOK'
  <2>1. /\ started' \in [Gens -> BOOLEAN] /\ finished' \in [Gens -> BOOLEAN]
        /\ err' \in [Gens -> BOOLEAN] /\ chClosed' \in [Gens -> BOOLEAN]
        /\ done' \in [Gens -> BOOLEAN] /\ delegating' \in [Gens -> BOOLEAN]
        /\ runs' \in [Gens -> Nat] /\ handled' \in [Gens -> BOOLEAN]
    BY DEF IInv, TypeOK
  <2>2. pc' \in [Threads -> ConsumerPCs \cup RunnerPCs]
    BY <1>a, <1>b DEF IInv, TypeOK, Threads, RunnerPCs, ConsumerPCs
  <2>3. \A j \in Gens : pc'[j] \in RunnerPCs
    BY <1>a, <1>b DEF IInv, TypeOK, Threads, RunnerPCs, ConsumerPCs
  <2>4. \A c \in Consumers : pc'[c] \in ConsumerPCs
    BY <1>a, <1>b DEF IInv, TypeOK, Threads, RunnerPCs, ConsumerPCs
  <2>5. /\ item' \in [Gens -> Items \cup {NoItem}]
        /\ made' \in [Gens -> Nat] /\ loops' \in [Consumers -> 0 .. MaxLoops]
        /\ told' \in [Consumers -> {"none", "exhausted", "error"}]
    BY BoundsAssumption DEF IInv, TypeOK, ItemsReady, Items
  <2>6. trace' \in Seq(Items) /\ received' \in Seq(Items)
    <3>1. item[i] \in Items
      BY DEF IInv, ItemsReady
    <3>2. trace' \in Seq(Items)
      BY DEF IInv, TypeOK
    <3>3. received' = received \/ received' = Append(received, item[i])
      OBVIOUS
    <3>4. received \in Seq(Items)
      BY DEF IInv, TypeOK
    <3>5. Append(received, item[i]) \in Seq(Items)
      BY <3>1, <3>4
    <3> QED
      BY <3>2, <3>3, <3>4, <3>5
  <2> QED
    BY <2>1, <2>2, <2>3, <2>4, <2>5, <2>6 DEF TypeOK
<1>2. ItemsReady'
  <2>1. item[i] \in Items
    BY DEF IInv, ItemsReady
  <2>2. \A j \in Gens \ {t} : item'[j] = item[j]
    BY DEF IInv, TypeOK
  <2>3. t \in Gens => item'[t] = item[i]
    BY DEF IInv, TypeOK
  <2> QED
    BY <1>a, <1>b, <2>1, <2>2, <2>3 DEF IInv, ItemsReady, Threads
<1>3. Flags'
  BY <1>a, <1>b DEF IInv, Flags, Threads
<1>4. Delegation'
  BY <1>a, <1>b DEF IInv, Delegation, Threads
<1>5. Errors'
  BY <1>a, <1>b DEF IInv, Errors, Found, Threads
<1> QED
  BY <1>1, <1>2, <1>3, <1>4, <1>5 DEF IInv

\* next returns a value.
LEMMA ResumeKeeps ==
  ASSUME IInv, NEW t \in Threads, NEW i \in Gens, Resume(t, i)
  PROVE  IInv'
<1> USE Chain DEF Resume, gvars, bodies, history
<1>a. t \in Threads /\ i \in Threads /\ t /= i
  BY DEF Threads
<1>b. /\ pc'[t] = (IF t \in Gens THEN "offer" ELSE "loop") /\ pc'[i] = "body"
      /\ \A u \in Threads \ {t, i} : pc'[u] = pc[u]
  BY <1>a DEF IInv, TypeOK
<1>1. TypeOK'
  <2>1. /\ started' \in [Gens -> BOOLEAN] /\ finished' \in [Gens -> BOOLEAN]
        /\ err' \in [Gens -> BOOLEAN] /\ chClosed' \in [Gens -> BOOLEAN]
        /\ done' \in [Gens -> BOOLEAN] /\ delegating' \in [Gens -> BOOLEAN]
        /\ runs' \in [Gens -> Nat] /\ handled' \in [Gens -> BOOLEAN]
    BY DEF IInv, TypeOK
  <2>2. pc' \in [Threads -> ConsumerPCs \cup RunnerPCs]
    BY <1>a, <1>b DEF IInv, TypeOK, Threads, RunnerPCs, ConsumerPCs
  <2>3. \A j \in Gens : pc'[j] \in RunnerPCs
    BY <1>a, <1>b DEF IInv, TypeOK, Threads, RunnerPCs, ConsumerPCs
  <2>4. ASSUME NEW c \in Consumers
        PROVE  pc'[c] \in ConsumerPCs
    <3>1. CASE c = t
      BY <1>b, <3>1 DEF ConsumerPCs
    <3>2. CASE c /= t
      BY <1>b, <3>2 DEF IInv, TypeOK, Threads
    <3> QED
      BY <3>1, <3>2
  <2>5. /\ item' \in [Gens -> Items \cup {NoItem}]
        /\ made' \in [Gens -> Nat] /\ loops' \in [Consumers -> 0 .. MaxLoops]
        /\ told' \in [Consumers -> {"none", "exhausted", "error"}]
    BY BoundsAssumption DEF IInv, TypeOK, ItemsReady, Items
  <2>6. trace' \in Seq(Items) /\ received' \in Seq(Items)
    BY BoundsAssumption DEF IInv, TypeOK, ItemsReady, Items
  <2> QED
    BY <2>1, <2>2, <2>3, <2>4, <2>5, <2>6 DEF TypeOK
<1>c. /\ pc[i] = "await" /\ pc'[i] = "body"
      /\ t \in Gens => pc[t] = "ack" /\ pc'[t] = "offer"
      /\ \A j \in Gens \ {t, i} : pc'[j] = pc[j]
  BY <1>a, <1>b DEF Threads
<1>2. ItemsReady'
  BY <1>c DEF IInv, ItemsReady
<1>3. Flags'
  BY <1>c DEF IInv, Flags
<1>4. Delegation'
  BY <1>c DEF IInv, Delegation
<1>5. Errors'
  BY <1>c DEF IInv, Errors, Found
<1> QED
  BY <1>1, <1>2, <1>3, <1>4, <1>5 DEF IInv

\* A yield offers a value.
LEMMA YieldKeeps ==
  ASSUME IInv, NEW i \in Gens, Yield(i)
  PROVE  IInv'
<1> USE Chain DEF Yield, Goto, gvars, bodies, history
<1>1. TypeOK'
  <2>1. <<i, made[i] + 1>> \in Items /\ made[i] + 1 \in Nat
    BY BoundsAssumption DEF IInv, TypeOK, Items
  <2>2. pc' \in [Threads -> ConsumerPCs \cup RunnerPCs]
    BY DEF IInv, TypeOK, Threads, RunnerPCs
  <2>3. /\ \A j \in Gens : pc'[j] \in RunnerPCs
        /\ \A c \in Consumers : pc'[c] \in ConsumerPCs
    BY DEF IInv, TypeOK, Threads, RunnerPCs
  <2>4. /\ item' \in [Gens -> Items \cup {NoItem}] /\ made' \in [Gens -> Nat]
        /\ trace' \in Seq(Items)
    BY <2>1 DEF IInv, TypeOK
  <2> QED
    BY <2>2, <2>3, <2>4 DEF IInv, TypeOK
<1>b. /\ pc[i] = "body" /\ pc'[i] = "offer"
      /\ \A j \in Gens \ {i} : pc'[j] = pc[j]
      /\ \A j \in Gens \ {i} : item'[j] = item[j]
  BY DEF IInv, TypeOK, Threads
<1>2. ItemsReady'
  <2>1. item'[i] \in Items
    BY BoundsAssumption DEF IInv, TypeOK, Items
  <2> QED
    BY <1>b, <2>1 DEF IInv, ItemsReady
<1>3. Flags'
  BY <1>b DEF IInv, Flags
<1>4. Delegation'
  BY <1>b DEF IInv, Delegation
<1>5. Errors'
  BY <1>b DEF IInv, Errors, Found
<1> QED
  BY <1>1, <1>2, <1>3, <1>4, <1>5 DEF IInv

\* A yield is abandoned.
LEMMA AbandonKeeps ==
  ASSUME IInv, NEW i \in Gens, Abandon(i)
  PROVE  IInv'
<1> USE Chain DEF Abandon, Goto, gvars, bodies, history
<1>1. TypeOK'
  BY DEF IInv, TypeOK, ItemsReady, Threads, Items, RunnerPCs, ConsumerPCs
<1>b. /\ pc[i] \in {"offer", "await"} /\ pc'[i] = (IF delegating[i] THEN "drop" ELSE "body")
      /\ \A j \in Gens \ {i} : pc'[j] = pc[j]
  BY DEF IInv, TypeOK, Threads
<1>2. ItemsReady'
  BY <1>b DEF IInv, ItemsReady
<1>3. Flags'
  BY <1>b DEF IInv, Flags
<1>4. Delegation'
  BY <1>b DEF IInv, Delegation
<1>5. Errors'
  BY <1>b DEF IInv, Errors, Found
<1> QED
  BY <1>1, <1>2, <1>3, <1>4, <1>5 DEF IInv

\* A yield from is left.
LEMMA YieldFromExitKeeps ==
  ASSUME IInv, NEW i \in Gens, YieldFromExit(i)
  PROVE  IInv'
<1> USE Chain DEF YieldFromExit, Goto, close, gvars, bodies, history
<1>1. TypeOK'
  BY DEF IInv, TypeOK, ItemsReady, Threads, Items, RunnerPCs, ConsumerPCs
<1>2. ItemsReady'
  BY <1>1 DEF IInv, TypeOK, ItemsReady, Threads, Items
<1>3. Flags'
  BY <1>1 DEF IInv, TypeOK, Flags, Threads
<1>a. i + 1 \in Gens /\ started[i + 1] /\ i \in Threads
  BY DEF IInv, Delegation, Threads
<1>b. /\ pc[i] \in {"exit", "fail", "drop"}
      /\ pc'[i] = (IF pc[i] = "fail" THEN "raised" ELSE "body") /\ ~delegating'[i] /\ done'[i + 1]
      /\ \A j \in Gens \ {i} : pc'[j] = pc[j] /\ delegating'[j] = delegating[j]
      /\ \A j \in Gens : done[j] => done'[j]
  BY <1>a DEF IInv, TypeOK, Threads
<1>4. Delegation'
  BY <1>a, <1>b DEF IInv, Delegation
<1>c. \/ pc[i] = "exit" /\ chClosed[i + 1] /\ ~err[i + 1]
      \/ pc[i] = "fail" /\ chClosed[i + 1] /\ pc'[i] = "raised"
      \/ pc[i] = "drop" /\ done[i] /\ ~finished[i + 1]
  BY <1>a, <1>b DEF IInv, Delegation, Errors, Found
<1>5. Errors'
  <2>1. ASSUME NEW j \in Gens, j + 1 \in Gens
        PROVE  /\ started[j + 1] /\ ~chClosed[j + 1] => delegating'[j] \/ done'[j]
               /\ Found(j)'
               /\ err[j + 1] => \/ delegating'[j] \/ pc'[j] = "raised"
                                \/ err[j] \/ handled[j] \/ (done'[j] /\ ~finished[j + 1])
    <3>1. CASE j = i
      BY <1>a, <1>b, <1>c, <3>1 DEF Found
    <3>2. CASE j /= i
      BY <1>b, <2>1, <3>2 DEF IInv, Errors, Found
    <3> QED
      BY <3>1, <3>2
  <2> QED
    BY <2>1 DEF IInv, Errors
<1> QED
  BY <1>1, <1>2, <1>3, <1>4, <1>5 DEF IInv

\* A body catches the error of a yield from.
LEMMA CatchKeeps ==
  ASSUME IInv, NEW i \in Gens, Catch(i)
  PROVE  IInv'
<1> USE Chain DEF Catch, Goto, gvars, bodies
<1>1. TypeOK'
  BY DEF IInv, TypeOK, ItemsReady, Threads, Items, RunnerPCs, ConsumerPCs
<1>b. /\ pc[i] = "raised" /\ pc'[i] = "body" /\ handled'[i]
      /\ \A j \in Gens \ {i} : pc'[j] = pc[j] /\ handled'[j] = handled[j]
  BY DEF IInv, TypeOK, Threads
<1>2. ItemsReady'
  BY <1>b DEF IInv, ItemsReady
<1>3. Flags'
  BY <1>b DEF IInv, Flags
<1>4. Delegation'
  BY <1>b DEF IInv, Delegation
<1>5. Errors'
  BY <1>b DEF IInv, Delegation, Errors, Found
<1> QED
  BY <1>1, <1>2, <1>3, <1>4, <1>5 DEF IInv

\* A body returns, ...
LEMMA ReturnKeeps ==
  ASSUME IInv, NEW i \in Gens, Return(i)
  PROVE  IInv'
<1> USE Chain DEF Return, Goto, gvars, bodies, history
<1>1. TypeOK'
  BY DEF IInv, TypeOK, ItemsReady, Threads, Items, RunnerPCs, ConsumerPCs
<1>b. /\ pc[i] = "body" /\ pc'[i] = "finish"
      /\ \A j \in Gens \ {i} : pc'[j] = pc[j]
  BY DEF IInv, TypeOK, Threads
<1>2. ItemsReady'
  BY <1>b DEF IInv, ItemsReady
<1>3. Flags'
  BY <1>b DEF IInv, Flags
<1>4. Delegation'
  BY <1>b DEF IInv, Delegation
<1>5. Errors'
  BY <1>b DEF IInv, Errors, Found
<1> QED
  BY <1>1, <1>2, <1>3, <1>4, <1>5 DEF IInv

\* ... raises, ...
LEMMA RaiseKeeps ==
  ASSUME IInv, NEW i \in Gens, Raise(i)
  PROVE  IInv'
<1> USE Chain DEF Raise, Goto, gvars, bodies, history
<1>1. TypeOK'
  BY DEF IInv, TypeOK, ItemsReady, Threads, Items, RunnerPCs, ConsumerPCs
<1>b. /\ pc[i] \in {"body", "raised"} /\ pc'[i] = "finish" /\ err'[i] /\ ~delegating[i]
      /\ \A j \in Gens \ {i} : pc'[j] = pc[j]
      /\ \A j \in Gens \ {i} : err'[j] = err[j]
  BY DEF IInv, TypeOK, Threads
<1>2. ItemsReady'
  BY <1>b DEF IInv, ItemsReady
<1>3. Flags'
  BY <1>b DEF IInv, Flags
<1>4. Delegation'
  BY <1>b DEF IInv, Delegation
<1>5. Errors'
  <2>1. started[i] /\ ~chClosed[i] /\ ~finished[i]
    BY <1>b DEF IInv, Flags
  <2>2. ASSUME NEW j \in Gens, j + 1 \in Gens
        PROVE  /\ err'[j + 1] => started[j + 1]
               /\ Found(j)'
               /\ err'[j + 1] => \/ delegating[j] \/ pc'[j] = "raised"
                                 \/ err'[j] \/ handled[j] \/ (done[j] /\ ~finished[j + 1])
    <3>1. CASE j = i
      BY <1>b, <2>2, <3>1 DEF IInv, Errors, Found
    <3>2. CASE j + 1 = i
      <4>1. pc'[j] = pc[j] /\ pc[j] \notin {"exit", "fail"} /\ (delegating[j] \/ done[j])
        BY <1>b, <2>1, <2>2, <3>2 DEF IInv, Errors, Delegation
      <4> QED
        BY <2>1, <2>2, <3>2, <4>1 DEF IInv, Errors, Found
    <3>3. CASE j /= i /\ j + 1 /= i
      BY <1>b, <2>2, <3>3 DEF IInv, Errors, Found
    <3> QED
      BY <3>1, <3>2, <3>3
  <2>3. ASSUME NEW c \in Consumers, told[c] = "exhausted"
        PROVE  chClosed[1] /\ ~err'[1]
    BY <1>b, <2>1, <2>3 DEF IInv, Errors
  <2> QED
    BY <2>2, <2>3 DEF IInv, Errors
<1> QED
  BY <1>1, <1>2, <1>3, <1>4, <1>5 DEF IInv

\* ... and is over.
LEMMA RunEndKeeps ==
  ASSUME IInv, NEW i \in Gens, RunEnd(i)
  PROVE  IInv'
<1> USE Chain DEF RunEnd, Goto, gvars, bodies, history
<1>1. TypeOK'
  BY DEF IInv, TypeOK, ItemsReady, Threads, Items, RunnerPCs, ConsumerPCs
<1>b. /\ pc[i] = "finish" /\ pc'[i] = "ended" /\ chClosed'[i]
      /\ \A j \in Gens \ {i} : pc'[j] = pc[j]
      /\ \A j \in Gens \ {i} : chClosed'[j] = chClosed[j]
  BY DEF IInv, TypeOK, Threads
<1>2. ItemsReady'
  BY <1>b DEF IInv, ItemsReady
<1>3. Flags'
  BY <1>b DEF IInv, Flags
<1>4. Delegation'
  BY <1>b DEF IInv, Delegation
<1>5. Errors'
  BY <1>b DEF IInv, Errors, Found
<1> QED
  BY <1>1, <1>2, <1>3, <1>4, <1>5 DEF IInv

\* A loop is left early.
LEMMA LoopLeaveKeeps ==
  ASSUME IInv, NEW c \in Consumers, LoopLeave(c)
  PROVE  IInv'
<1> USE Chain DEF LoopLeave, Goto, close, gvars, bodies, history
<1>1. TypeOK'
  BY DEF IInv, TypeOK, ItemsReady, Threads, Items, RunnerPCs, ConsumerPCs
<1>2. ItemsReady'
  BY <1>1 DEF IInv, TypeOK, ItemsReady, Threads, Items
<1>3. Flags'
  BY <1>1 DEF IInv, TypeOK, Flags, Threads
<1>4. Delegation'
  BY <1>1 DEF IInv, TypeOK, Flags, Delegation, Threads
<1>5. Errors'
  BY <1>1, SMTT(20) DEF IInv, TypeOK, Flags, Delegation, Errors, Found, Threads
<1> QED
  BY <1>1, <1>2, <1>3, <1>4, <1>5 DEF IInv

-----------------------------------------------------------------------------
(* The invariant and what follows from it.                                 *)

LEMMA InitIInv == Init => IInv
<1> SUFFICES ASSUME Init PROVE IInv
  OBVIOUS
<1> USE Chain DEF Init
<1>1. TypeOK
  BY BoundsAssumption DEF TypeOK, Threads, ConsumerPCs, RunnerPCs
<1>2. ItemsReady /\ Flags /\ Delegation /\ Errors
  BY DEF ItemsReady, Flags, Delegation, Errors, Found, Threads
<1> QED
  BY <1>1, <1>2 DEF IInv

\* Every step keeps the invariant.
LEMMA NextIInv == IInv /\ [Next]_vars => IInv'
<1> SUFFICES ASSUME IInv, [Next]_vars PROVE IInv'
  OBVIOUS
<1>1. CASE \E c \in Consumers : Consumer(c)
  BY <1>1, LoopBeginKeeps, LoopNextKeeps, LoopLeaveKeeps, NextEndKeeps DEF Consumer, Threads
<1>2. CASE \E i \in Gens : Runner(i)
  BY <1>2, HandoverKeeps, ResumeKeeps, NextEndKeeps, YieldKeeps, YieldFromKeeps,
     YieldFromNextKeeps, AbandonKeeps, YieldFromExitKeeps, CatchKeeps, ReturnKeeps, RaiseKeeps,
     RunEndKeeps
     DEF Runner, Threads
<1>3. CASE UNCHANGED vars
  BY <1>3 DEF vars, gvars, bodies, history, IInv, TypeOK, ItemsReady, Flags, Delegation, Errors, Found
<1> QED
  BY <1>1, <1>2, <1>3 DEF Next

\* The invariant holds in every state.
THEOREM Invariant == Spec => []IInv
  BY InitIInv, NextIInv, PTL DEF Spec

\* The state of a chain keeps its shape.
THEOREM TypeCorrect == Spec => []TypeOK
<1>1. IInv => TypeOK
  BY DEF IInv
<1> QED
  BY <1>1, Invariant, PTL

\* However many consumers call Generator.next together, run is started once.
THEOREM SingleRunHolds == Spec => []SingleRun
<1>1. IInv => SingleRun
  BY DEF IInv, Flags, SingleRun
<1> QED
  BY <1>1, Invariant, PTL

\* The error of a generator reaches the body that delegates to it
\* (yieldFrom), which catches it or ends with an error, unless it was closed
\* before it asked; and the loop that consumes it (evalGeneratorForIn).
THEOREM ErrorSurfacesHolds == Spec => []ErrorSurfaces
<1>1. IInv => ErrorSurfaces
  BY DEF IInv, Flags, Delegation, Errors, ErrorSurfaces
<1> QED
  BY <1>1, Invariant, PTL

\* A generator that has ended has closed those it delegated to (the deferred
\* close of yieldFrom).
THEOREM InnerReleasedHolds == Spec => []InnerReleased
<1>1. IInv => InnerReleased
  BY DEF IInv, Flags, Delegation, InnerReleased
<1> QED
  BY <1>1, Invariant, PTL

\* Nothing moves a goroutine that is over.
LEMMA EndStays ==
  ASSUME IInv, [Next]_vars, NEW i \in Gens, chClosed[i]
  PROVE  pc'[i] = pc[i] /\ made'[i] = made[i] /\ chClosed'[i]
<1> USE Chain DEF IInv, TypeOK, Threads
<1>1. pc[i] = "ended" /\ started[i] /\ ~delegating[i]
  BY DEF Flags, Delegation
<1>2. CASE \E c \in Consumers : LoopBegin(c) \/ LoopNext(c)
  <2>1. PICK c \in Consumers : NextBegin(c) /\ UNCHANGED made
    BY <1>2 DEF LoopBegin, LoopNext, bodies
  <2>2. pc'[i] = pc[i]
    BY <1>1, <2>1 DEF NextBegin, FirstPull, EndOf, Goto
  <2>3. UNCHANGED chClosed
    BY <2>1 DEF NextBegin, gvars
  <2> QED
    BY <2>1, <2>2, <2>3
<1>3. CASE \E c \in Consumers : LoopLeave(c)
  BY <1>1, <1>3 DEF LoopLeave, Goto, bodies
<1>4. CASE \E t \in Threads : NextEnd(t)
  <2>1. PICK t \in Threads : NextEnd(t)
    BY <1>4
  <2>2. t /= i /\ UNCHANGED <<made, chClosed>>
    BY <1>1, <2>1 DEF NextEnd, bodies
  <2>3. \E to : pc' = [pc EXCEPT ![t] = to]
    BY <2>1 DEF NextEnd, EndOf, Goto
  <2> QED
    BY <2>2, <2>3
<1>5. CASE \E t \in Threads, j \in Gens : Handover(t, j) \/ Resume(t, j)
  BY <1>1, <1>5 DEF Handover, Resume, gvars, bodies
<1>6. CASE \E j \in Gens : YieldFrom(j) \/ YieldFromNext(j)
  <2>1. PICK j \in Gens : YieldFrom(j) \/ YieldFromNext(j)
    BY <1>6
  <2>2. j /= i /\ Target(j) = j + 1 /\ NextBegin(j) /\ UNCHANGED made
    BY <1>1, <2>1 DEF YieldFrom, YieldFromNext, bodies
  <2>3. UNCHANGED chClosed
    BY <2>2 DEF NextBegin, gvars
  <2>4. CASE finished[j + 1]
    <3>1. \E to : pc' = [pc EXCEPT ![j] = to]
      BY <2>2, <2>4 DEF NextBegin, EndOf, Goto
    <3> QED
      BY <2>2, <2>3, <3>1
  <2>5. CASE ~finished[j + 1]
    <3>1. pc' = [pc EXCEPT ![j] = "recv",
                           ![j + 1] = IF ~started[j + 1] THEN "body" ELSE pc[j + 1]]
      BY <2>2, <2>5 DEF NextBegin, FirstPull
    <3> QED
      BY <1>1, <2>2, <2>3, <3>1
  <2> QED
    BY <2>4, <2>5
<1>7. CASE \E j \in Gens : Yield(j) \/ Abandon(j) \/ YieldFromExit(j) \/ Catch(j)
  BY <1>1, <1>7 DEF Yield, Abandon, YieldFromExit, Catch, Goto, gvars, bodies
<1>8. CASE \E j \in Gens : Return(j) \/ Raise(j) \/ RunEnd(j)
  BY <1>1, <1>8 DEF Return, Raise, RunEnd, Goto, gvars, bodies
<1>9. CASE UNCHANGED vars
  BY <1>9 DEF vars, gvars, bodies
<1> QED
  BY <1>2, <1>3, <1>4, <1>5, <1>6, <1>7, <1>8, <1>9 DEF Next, Consumer, Runner

\* A generator that has ended never takes another step (Generator.run).
THEOREM EndIsFinalHolds == Spec => EndIsFinal
<1>1. ASSUME IInv, [Next]_vars
      PROVE  [\A i \in Gens : chClosed[i] =>
                pc'[i] = pc[i] /\ made'[i] = made[i] /\ chClosed'[i]]_vars
  BY <1>1, EndStays
<1> QED
  BY <1>1, Invariant, PTL DEF Spec, EndIsFinal

-----------------------------------------------------------------------------
(* Closing.                                                                *)

\* A generator that is closed stays closed, one that is started stays started.
LEMMA FlagsStay ==
  ASSUME IInv, [Next]_vars, NEW i \in Gens
  PROVE  (done[i] => done'[i]) /\ (started[i] => started'[i])
<1> USE Chain DEF gvars, bodies, history, IInv, TypeOK
<1>1. ASSUME NEW t \in Threads, NextBegin(t)
      PROVE  (done[i] => done'[i]) /\ (started[i] => started'[i])
  BY <1>1 DEF NextBegin
<1>2. ASSUME NEW c \in Consumers, Consumer(c)
      PROVE  (done[i] => done'[i]) /\ (started[i] => started'[i])
  BY <1>1, <1>2 DEF Consumer, LoopBegin, LoopNext, LoopLeave, NextEnd, close, Threads
<1>3. ASSUME NEW j \in Gens, Runner(j)
      PROVE  (done[i] => done'[i]) /\ (started[i] => started'[i])
  BY <1>1, <1>3 DEF Runner, Handover, Resume, NextEnd, Yield, YieldFrom, YieldFromNext, Abandon,
     YieldFromExit, Catch, Return, Raise, RunEnd, close, Threads
<1> QED
  BY <1>2, <1>3 DEF Next, vars

\* A generator is closed by its yield from when that is left, not before.
\* While generator 1 is open, none is closed that has not ended.
Closing ==
  /\ \A i \in Gens : i + 1 \in Gens =>
       (delegating[i] => ~done[i + 1]) /\ (done[i + 1] => started[i + 1])
  /\ \A i \in Gens : done[i] => done[1] \/ chClosed[i]

\* Only leaving a loop or a yield from closes a generator, ...
LEMMA ClosedBy ==
  ASSUME IInv, [Next]_vars, NEW i \in Gens, done'[i], ~done[i]
  PROVE  i = 1 \/ \E j \in Gens : i = j + 1 /\ YieldFromExit(j)
<1> USE Chain DEF gvars, bodies, history, IInv, TypeOK
<1>1. ASSUME NEW t \in Threads, NextBegin(t)
      PROVE  FALSE
  BY <1>1 DEF NextBegin
<1>2. ASSUME NEW c \in Consumers, Consumer(c)
      PROVE  i = 1
  BY <1>1, <1>2 DEF Consumer, LoopBegin, LoopNext, LoopLeave, NextEnd, close, Threads
<1>3. ASSUME NEW j \in Gens, Runner(j)
      PROVE  YieldFromExit(j)
  BY <1>1, <1>3 DEF Runner, Handover, Resume, NextEnd, Yield, YieldFrom, YieldFromNext, Abandon,
     Catch, Return, Raise, RunEnd, Threads
<1>4. ASSUME NEW j \in Gens, YieldFromExit(j)
      PROVE  i = j + 1
  BY <1>4 DEF YieldFromExit, close
<1> QED
  BY <1>2, <1>3, <1>4 DEF Next, vars

\* ... and only a yield from that begins delegates to another.
LEMMA DelegatesBy ==
  ASSUME IInv, [Next]_vars, NEW i \in Gens, delegating'[i], ~delegating[i]
  PROVE  YieldFrom(i) /\ UNCHANGED done
<1> USE Chain DEF gvars, bodies, history, IInv, TypeOK
<1>1. ASSUME NEW c \in Consumers, Consumer(c)
      PROVE  FALSE
  BY <1>1 DEF Consumer, LoopBegin, LoopNext, LoopLeave, NextEnd
<1>2. ASSUME NEW j \in Gens, Runner(j)
      PROVE  YieldFrom(j) /\ j = i
  BY <1>2 DEF Runner, Handover, Resume, NextEnd, Yield, YieldFrom, YieldFromNext, Abandon,
     YieldFromExit, Catch, Return, Raise, RunEnd, Threads
<1>3. YieldFrom(i) => UNCHANGED done
  BY DEF YieldFrom, NextBegin
<1> QED
  BY <1>1, <1>2, <1>3 DEF Next, vars

LEMMA NextCloses == IInv /\ Closing /\ [Next]_vars => Closing'
<1> SUFFICES ASSUME IInv, Closing, [Next]_vars PROVE Closing'
  OBVIOUS
<1> USE Chain
<1>1. ASSUME NEW i \in Gens, YieldFromExit(i)
      PROVE  /\ i + 1 \in Gens /\ started[i + 1] /\ ~delegating'[i]
             /\ done[1] \/ chClosed[i + 1]
  <2>1. i + 1 \in Gens /\ started[i + 1] /\ delegating[i] /\ ~delegating'[i]
    BY <1>1 DEF YieldFromExit, IInv, TypeOK, Delegation
  <2>2. CASE pc[i] \in {"exit", "fail"}
    BY <2>1, <2>2 DEF IInv, Delegation
  <2>3. CASE pc[i] = "drop"
    <3>1. done[i]
      BY <2>3 DEF IInv, Delegation
    <3>2. ~chClosed[i]
      BY <2>3 DEF IInv, Flags
    <3> QED
      BY <2>1, <3>1, <3>2 DEF Closing
  <2> QED
    BY <1>1, <2>1, <2>2, <2>3 DEF YieldFromExit
<1>2. ASSUME NEW i \in Gens, i + 1 \in Gens, delegating'[i]
      PROVE  ~done'[i + 1]
  <2>1. CASE ~delegating[i]
    <3>1. ~started[i + 1] /\ UNCHANGED done
      BY <1>2, <2>1, DelegatesBy DEF YieldFrom
    <3> QED
      BY <1>2, <3>1 DEF Closing
  <2>2. CASE delegating[i]
    <3>1. ~done[i + 1] /\ i + 1 /= 1
      BY <1>2, <2>2, FirstOfChain DEF Closing
    <3>2. ASSUME NEW j \in Gens, i + 1 = j + 1, YieldFromExit(j)
          PROVE  FALSE
      BY <1>1, <1>2, <3>2
    <3> QED
      BY <1>2, <3>1, <3>2, ClosedBy
  <2> QED
    BY <2>1, <2>2
<1>3. ASSUME NEW i \in Gens, i + 1 \in Gens, done'[i + 1]
      PROVE  started'[i + 1]
  <2>1. CASE done[i + 1]
    BY <1>3, <2>1, FlagsStay DEF Closing
  <2>2. CASE ~done[i + 1]
    BY <1>1, <1>3, <2>2, ClosedBy, FirstOfChain, FlagsStay
  <2> QED
    BY <2>1, <2>2
<1>4. ASSUME NEW i \in Gens, done'[i]
      PROVE  done'[1] \/ chClosed'[i]
  <2>1. CASE done[i]
    BY <2>1, FlagsStay, EndStays DEF Closing
  <2>2. CASE ~done[i]
    BY <1>1, <1>4, <2>2, ClosedBy, FlagsStay, EndStays
  <2> QED
    BY <2>1, <2>2
<1> QED
  BY <1>2, <1>3, <1>4 DEF Closing

LEMMA ClosingInvariant == Spec => []Closing
<1>1. Init => Closing
  BY Chain DEF Init, Closing
<1> QED
  BY <1>1, NextCloses, Invariant, PTL DEF Spec

-----------------------------------------------------------------------------
(* The way of the values.                                                  *)

\* The goroutine of generator i has a value that its consumer has not taken
\* (it offers it, or is about to), ...
Held(i) == pc[i] \in {"offer", "ack"}

\* ... or has none, and has not dropped one.
Empty(i) ==
  pc[i] \in {"new", "body", "recv", "await", "exit", "fail", "raised", "finish", "ended"}

\* Generator i is not inside a yield from: while generator 1 is open, nothing
\* is under way below it.
Settled(i) == ~delegating[i]

\* The counts q along the chain grow by at most one per generator.
Gradual(q) ==
  \A i, j \in 0 .. Depth : i <= j => q[i] <= q[j] /\ q[j] <= q[i] + (j - i)

\* q says how far the values have come: q[i] of them have been passed on by
\* generator i + 1, all those computed for i = Depth and those received for
\* i = 0.  So generator i keeps value number q[i], or none.
Flow(q) ==
  /\ q[0] = Len(received) /\ q[Depth] = Len(trace)
  /\ Gradual(q)
  /\ \A n \in 1 .. Len(received) : received[n] = trace[n]
  /\ \A i \in Gens :
       /\ Held(i) => q[i] = q[i - 1] + 1 /\ item[i] = trace[q[i]]
       /\ Empty(i) => q[i] = q[i - 1]
       /\ Settled(i) => q[Depth] = q[i]

Order == \E q \in [0 .. Depth -> Nat] : Flow(q)

\* Below a settled generator nothing runs.
Still ==
  \A i \in Gens : Settled(i) => \A j \in Gens : j > i => pc[j] \in {"new", "ended"}

\* What every step preserves, with IInv and Closing.
FlowInv == ~done[1] => Order /\ Still

\* A generator is settled, or becomes so when the one it delegates to has
\* ended undisturbed.
Settles(i) ==
  Settled(i) \/ (i + 1 \in Gens /\ Settled(i + 1) /\ pc[i + 1] = "ended")

\* They still do when one value moves one generator up, ...
LEMMA MoveKeepsGradual ==
  ASSUME NEW q \in [0 .. Depth -> Nat], Gradual(q), NEW m \in 0 .. Depth, m + 1 \in 0 .. Depth,
         q[m + 1] = q[m] + 1, m > 0 => q[m] = q[m - 1],
         NEW r \in [0 .. Depth -> Nat], r[m] = q[m] + 1,
         \A j \in 0 .. Depth : j /= m => r[j] = q[j]
  PROVE  Gradual(r)
<1> SUFFICES ASSUME NEW j \in 0 .. Depth, NEW k \in 0 .. Depth, j <= k
             PROVE  r[j] <= r[k] /\ r[k] <= r[j] + (k - j)
  BY DEF Gradual
<1>0. j \in Nat /\ k \in Nat /\ m \in Nat /\ q[j] \in Nat /\ q[k] \in Nat /\ q[m] \in Nat
  BY DepthAssumption
<1>1. CASE j = m /\ k = m
  BY <1>0, <1>1
<1>2. CASE j = m /\ k /= m
  <2>1. m + 1 <= k
    BY <1>0, <1>2
  <2>2. q[m + 1] <= q[k] /\ q[k] <= q[m + 1] + (k - (m + 1))
    BY <2>1 DEF Gradual
  <2>3. r[j] = q[m] + 1 /\ r[k] = q[k]
    BY <1>2
  <2> QED
    BY <1>0, <1>2, <2>2, <2>3
<1>3. CASE j /= m /\ k = m
  <2>1. m > 0 /\ m - 1 \in 0 .. Depth /\ j <= m - 1
    BY <1>0, <1>3, DepthAssumption
  <2>2. q[j] <= q[m - 1] /\ q[m - 1] <= q[j] + ((m - 1) - j)
    BY <2>1 DEF Gradual
  <2>3. r[k] = q[m] + 1 /\ r[j] = q[j] /\ q[m] = q[m - 1] /\ q[m - 1] \in Nat
    BY <1>3, <2>1
  <2> QED
    BY <1>0, <1>3, <2>1, <2>2, <2>3
<1>4. CASE j /= m /\ k /= m
  BY <1>4 DEF Gradual
<1> QED
  BY <1>1, <1>2, <1>3, <1>4

\* ... and when generator m, below which nothing is under way, computes one.
LEMMA YieldKeepsGradual ==
  ASSUME NEW q \in [0 .. Depth -> Nat], Gradual(q), NEW m \in Gens,
         q[m] = q[m - 1], q[Depth] = q[m],
         NEW r \in [0 .. Depth -> Nat],
         \A j \in 0 .. Depth : r[j] = IF j >= m THEN q[j] + 1 ELSE q[j]
  PROVE  Gradual(r) /\ \A j \in 0 .. Depth : j >= m => q[j] = q[Depth]
<1>0. /\ Depth \in Nat /\ m \in Nat /\ m - 1 \in 0 .. Depth /\ m \in 0 .. Depth
      /\ Depth \in 0 .. Depth
  BY DepthAssumption DEF Gens
<1>1. \A j \in 0 .. Depth : j \in Nat /\ j <= Depth /\ q[j] \in Nat
  BY <1>0
<1>2. ASSUME NEW j \in 0 .. Depth, j >= m
      PROVE  q[j] = q[Depth]
  <2>1. q[m] <= q[j] /\ q[j] <= q[Depth]
    BY <1>0, <1>1, <1>2 DEF Gradual
  <2> QED
    BY <1>0, <1>1, <2>1
<1>3. ASSUME NEW j \in 0 .. Depth, NEW k \in 0 .. Depth, j <= k
      PROVE  r[j] <= r[k] /\ r[k] <= r[j] + (k - j)
  <2>1. CASE j >= m
    <3>1. k >= m
      BY <1>0, <1>1, <1>3, <2>1
    <3>2. r[j] = q[j] + 1 /\ r[k] = q[k] + 1
      BY <2>1, <3>1
    <3>3. q[j] <= q[k] /\ q[k] <= q[j] + (k - j)
      BY <1>3 DEF Gradual
    <3> QED
      BY <1>1, <3>2, <3>3
  <2>2. CASE j < m /\ k >= m
    <3>1. j <= m - 1
      BY <1>0, <1>1, <2>2
    <3>2. q[j] <= q[m - 1] /\ q[m - 1] <= q[j] + ((m - 1) - j)
      BY <1>0, <3>1 DEF Gradual
    <3>3. q[k] = q[m - 1]
      BY <1>2, <2>2
    <3>4. r[j] = q[j] /\ r[k] = q[k] + 1
      BY <1>0, <1>1, <2>2
    <3> QED
      BY <1>0, <1>1, <2>2, <3>2, <3>3, <3>4, SMTT(20)
  <2>3. CASE k < m
    <3>1. r[j] = q[j] /\ r[k] = q[k]
      BY <1>0, <1>1, <1>3, <2>3
    <3> QED
      BY <1>3, <3>1 DEF Gradual
  <2> QED
    BY <1>0, <1>1, <2>1, <2>2, <2>3
<1> QED
  BY <1>2, <1>3 DEF Gradual

\* The values stay where they are when nobody takes one.
LEMMA OrderFrame ==
  ASSUME Order, UNCHANGED <<item, trace, received>>,
         \A i \in Gens : /\ Held(i)' => Held(i)
                         /\ Empty(i)' => Empty(i)
                         /\ Settled(i)' => Settles(i)
  PROVE  Order'
<1>1. PICK q \in [0 .. Depth -> Nat] : Flow(q)
  BY DEF Order
<1>2. ASSUME NEW i \in Gens, Settled(i)'
      PROVE  q[Depth] = q[i]
  <2>1. CASE Settled(i)
    BY <1>1, <2>1 DEF Flow
  <2>2. CASE i + 1 \in Gens /\ Settled(i + 1) /\ pc[i + 1] = "ended"
    <3>1. Empty(i + 1)
      BY <2>2 DEF Settled, Empty
    <3>2. q[i + 1] = q[(i + 1) - 1] /\ q[Depth] = q[i + 1]
      BY <1>1, <2>2, <3>1 DEF Flow
    <3>3. (i + 1) - 1 = i
      BY Chain
    <3> QED
      BY <3>2, <3>3
  <2> QED
    BY <1>2, <2>1, <2>2 DEF Settles
<1>3. \A i \in Gens : Held(i)' => q[i] = q[i - 1] + 1 /\ item'[i] = trace'[q[i]]
  BY <1>1 DEF Flow
<1>4. \A i \in Gens : Empty(i)' => q[i] = q[i - 1]
  BY <1>1 DEF Flow
<1>5. Flow(q)'
  <2>1. \A n \in 1 .. Len(received') : received'[n] = trace'[n]
    BY <1>1 DEF Flow
  <2>2. q[0] = Len(received') /\ q[Depth] = Len(trace')
    BY <1>1 DEF Flow
  <2>3. Gradual(q)
    BY <1>1 DEF Flow
  <2> QED
    BY <1>2, <1>3, <1>4, <2>1, <2>2, <2>3 DEF Flow
<1> QED
  BY <1>5 DEF Order

\* A generator below which nothing runs stays one while those that run move.
LEMMA StillFrame ==
  ASSUME Still, NEW K \in SUBSET Gens,
         \A k \in K : pc[k] \notin {"new", "ended"},
         \A j \in Gens \ K : pc'[j] = pc[j],
         \A i \in Gens : Settled(i)' => Settles(i)
  PROVE  Still'
<1> SUFFICES ASSUME NEW i \in Gens, Settled(i)', NEW j \in Gens, j > i
             PROVE  pc'[j] \in {"new", "ended"}
  BY DEF Still
<1>1. CASE Settled(i)
  BY <1>1 DEF Still
<1>2. CASE i + 1 \in Gens /\ Settled(i + 1) /\ pc[i + 1] = "ended"
  <2>1. j = i + 1 \/ j > i + 1
    BY Chain
  <2> QED
    BY <1>2, <2>1 DEF Still
<1> QED
  BY <1>1, <1>2 DEF Settles

\* Both, for a step in which no value moves.
LEMMA QuietFrame ==
  ASSUME Order, Still, UNCHANGED <<item, trace, received>>, NEW K \in SUBSET Gens,
         \A k \in K : pc[k] \notin {"new", "ended"},
         \A j \in Gens \ K : pc'[j] = pc[j],
         \A i \in Gens : /\ Held(i)' => Held(i)
                         /\ Empty(i)' => Empty(i)
                         /\ Settled(i)' => Settles(i)
  PROVE  Order' /\ Still'
  BY OrderFrame, StillFrame

\* A thread waits, or finds its generator at its end.
LEMMA PullFlows ==
  ASSUME IInv, Order, Still, NEW t \in Threads, UNCHANGED <<item, trace, received>>,
         t \in Gens => pc[t] \in {"body", "recv"} /\ delegating[t],
         \E x \in {"recv", "exit", "fail", "idle"} :
           pc' = [pc EXCEPT ![t] = x] /\ (t \in Gens => x \in {"recv", "exit", "fail"}),
         UNCHANGED <<started, done, delegating>>
  PROVE  Order' /\ Still'
<1>1. PICK x \in {"recv", "exit", "fail", "idle"} :
        pc' = [pc EXCEPT ![t] = x] /\ (t \in Gens => x \in {"recv", "exit", "fail"})
  OBVIOUS
<1>2. /\ pc'[t] = x
      /\ \A u \in Threads \ {t} : pc'[u] = pc[u]
  BY <1>1 DEF IInv, TypeOK
<1> DEFINE K == {t} \cap Gens
<1>3. /\ \A k \in K : pc[k] \notin {"new", "ended"}
      /\ \A j \in Gens \ K : pc'[j] = pc[j]
  BY <1>2 DEF Threads
<1>4. ASSUME NEW i \in Gens
      PROVE  (Held(i)' => Held(i)) /\ (Empty(i)' => Empty(i)) /\ (Settled(i)' => Settles(i))
  <2>1. CASE i = t
    BY <1>1, <1>2, <2>1 DEF Held, Empty, Settled, Settles
  <2>2. CASE i /= t
    <3>1. pc'[i] = pc[i]
      BY <1>2, <2>2 DEF Threads
    <3> QED
      BY <3>1 DEF Held, Empty, Settled, Settles
  <2> QED
    BY <2>1, <2>2
<1> QED
  BY <1>3, <1>4, QuietFrame

\* Thread t starts the goroutine of a generator and waits for it.
LEMMA StartFlows ==
  ASSUME IInv, Order, Still, NEW t \in Threads, NEW i \in Gens, i = Target(t), ~started[i],
         t \in Gens => pc[t] = "body",
         pc' = [pc EXCEPT ![t] = "recv", ![i] = "body"],
         started' = [started EXCEPT ![i] = TRUE],
         delegating' = IF t \in Gens THEN [delegating EXCEPT ![t] = TRUE] ELSE delegating,
         UNCHANGED <<done, item, trace, received>>
  PROVE  Order' /\ Still'
<1> USE Chain
<1>1. (t \in Consumers \/ t \in Gens) /\ i \in Threads /\ t /= i
  BY DEF Threads
<1>2. /\ pc'[t] = "recv" /\ pc'[i] = "body"
      /\ \A u \in Threads \ {t, i} : pc'[u] = pc[u]
  BY <1>1 DEF IInv, TypeOK
<1>3. pc[i] = "new" /\ ~delegating[i]
  BY DEF IInv, Flags, Delegation
<1>4. ASSUME NEW j \in Gens
      PROVE  /\ Held(j)' => Held(j)
             /\ Empty(j)' => Empty(j)
             /\ Settled(j)' => Settled(j) /\ j /= t
  <2>1. CASE j = t
    <3>1. delegating'[j]
      BY <2>1 DEF IInv, TypeOK
    <3> QED
      BY <1>2, <2>1, <3>1 DEF Held, Empty, Settled
  <2>2. CASE j = i
    BY <1>1, <1>2, <1>3, <2>2 DEF Held, Empty, Settled
  <2>3. CASE j \notin {t, i}
    <3>1. pc'[j] = pc[j] /\ delegating'[j] = delegating[j]
      BY <1>2, <2>3 DEF Threads, IInv, TypeOK
    <3> QED
      BY <2>3, <3>1 DEF Held, Empty, Settled
  <2> QED
    BY <2>1, <2>2, <2>3
<1>5. Order'
  BY <1>4, OrderFrame DEF Settles
<1>6. Still'
  <2> SUFFICES ASSUME NEW m \in Gens, Settled(m)', NEW j \in Gens, j > m
               PROVE  pc'[j] \in {"new", "ended"}
    BY DEF Still
  <2>1. Settled(m) /\ m /= t
    BY <1>4
  <2>2. pc[j] \in {"new", "ended"}
    BY <2>1 DEF Still
  <2>3. j /= t
    BY <2>2
  <2>4. CASE j = i
    <3>1. CASE t \in Consumers
      BY <2>4, <3>1 DEF Gens
    <3>2. CASE t \in Gens
      <4>1. t > m \/ t < m
        BY <2>1, <3>2 DEF Gens
      <4>2. t > m
        BY <2>4, <3>2, <4>1 DEF Gens
      <4> QED
        BY <2>1, <3>2, <4>2 DEF Still
    <3> QED
      BY <1>1, <3>1, <3>2
  <2>5. CASE j /= i
    BY <1>2, <2>2, <2>3, <2>5 DEF Threads
  <2> QED
    BY <2>4, <2>5
<1> QED
  BY <1>5, <1>6

\* Writing back what a point held changes nothing.
LEMMA Rewritten ==
  ASSUME NEW S, NEW T, NEW f \in [S -> T], NEW a \in S, NEW b \in S, a /= b, NEW v \in T
  PROVE  /\ [f EXCEPT ![a] = v, ![b] = f[b]] = [f EXCEPT ![a] = v]
         /\ [f EXCEPT ![b] = f[b]] = f
  OBVIOUS

\* next begins: a consumer's, ...
LEMMA ConsumerPullFlows ==
  ASSUME IInv, Order, Still, NEW c \in Consumers, NextBegin(c), UNCHANGED <<bodies, trace, received>>
  PROVE  Order' /\ Still'
<1> USE Chain DEF bodies
<1>1. c \in Threads /\ c \notin Gens /\ Target(c) = 1
  BY DEF Threads
<1>2. CASE finished[1]
  <2>1. pc' = [pc EXCEPT ![c] = "idle"]
    BY <1>1, <1>2 DEF NextBegin, EndOf, Goto
  <2> QED
    BY <1>1, <1>2, <2>1, PullFlows DEF NextBegin, gvars
<1>3. CASE ~finished[1] /\ started[1]
  <2>1. pc' = [pc EXCEPT ![c] = "recv"] /\ started' = started
    <3>1. pc' = [pc EXCEPT ![c] = "recv", ![1] = pc[1]]
      BY <1>1, <1>3 DEF NextBegin, FirstPull
    <3>2. started' = [started EXCEPT ![1] = TRUE]
      BY <1>1, <1>3 DEF NextBegin
    <3>3. pc \in [Threads -> ConsumerPCs \cup RunnerPCs] /\ 1 \in Threads /\ c /= 1
      BY <1>1 DEF IInv, TypeOK, Threads
    <3>4. "recv" \in ConsumerPCs \cup RunnerPCs
      BY DEF ConsumerPCs, RunnerPCs
    <3>5. started \in [Gens -> BOOLEAN] /\ started[1] = TRUE
      BY <1>3 DEF IInv, TypeOK
    <3>6. pc' = [pc EXCEPT ![c] = "recv"]
      BY <3>1, <3>3, <3>4, Rewritten
    <3>7. started' = started
      BY <3>2, <3>5
    <3> QED
      BY <3>6, <3>7
  <2> QED
    BY <1>1, <1>3, <2>1, PullFlows DEF NextBegin
<1>4. CASE ~finished[1] /\ ~started[1]
  BY <1>1, <1>4, StartFlows DEF NextBegin, FirstPull
<1> QED
  BY <1>2, <1>3, <1>4

\* ... a yield from's first one, ...
LEMMA YieldFromFlows ==
  ASSUME IInv, Order, Still, NEW i \in Gens, YieldFrom(i)
  PROVE  Order' /\ Still'
<1> USE Chain DEF YieldFrom
<1>1. i \in Threads /\ Target(i) = i + 1 /\ ~finished[i + 1]
  BY DEF Threads, IInv, Flags
<1> QED
  BY <1>1, StartFlows DEF NextBegin, FirstPull

\* ... and the ones after it.
LEMMA YieldFromNextFlows ==
  ASSUME IInv, Order, Still, NEW i \in Gens, YieldFromNext(i)
  PROVE  Order' /\ Still'
<1> USE Chain DEF YieldFromNext, bodies
<1>1. i \in Threads /\ Target(i) = i + 1 /\ i + 1 \in Gens /\ started[i + 1]
  BY DEF Threads, IInv, Delegation
<1>2. CASE finished[i + 1]
  <2>1. PICK x \in {"exit", "fail"} : pc' = [pc EXCEPT ![i] = x]
    BY <1>1, <1>2 DEF NextBegin, EndOf, Goto
  <2> QED
    BY <1>1, <1>2, <2>1, PullFlows DEF NextBegin, gvars
<1>3. CASE ~finished[i + 1]
  <2>1. pc' = [pc EXCEPT ![i] = "recv"] /\ started' = started
    <3>1. pc' = [pc EXCEPT ![i] = "recv", ![i + 1] = pc[i + 1]]
      BY <1>1, <1>3 DEF NextBegin, FirstPull
    <3>2. started' = [started EXCEPT ![i + 1] = TRUE]
      BY <1>1, <1>3 DEF NextBegin
    <3>3. pc \in [Threads -> ConsumerPCs \cup RunnerPCs] /\ i + 1 \in Threads /\ i /= i + 1
      BY <1>1 DEF IInv, TypeOK, Threads
    <3>4. "recv" \in ConsumerPCs \cup RunnerPCs
      BY DEF ConsumerPCs, RunnerPCs
    <3>5. started \in [Gens -> BOOLEAN] /\ started[i + 1] = TRUE
      BY <1>1 DEF IInv, TypeOK
    <3>6. pc' = [pc EXCEPT ![i] = "recv"]
      BY <1>1, <3>1, <3>3, <3>4, Rewritten
    <3>7. started' = started
      BY <3>2, <3>5
    <3> QED
      BY <3>6, <3>7
  <2> QED
    BY <1>1, <1>3, <2>1, PullFlows DEF NextBegin
<1> QED
  BY <1>2, <1>3

\* Who waits for a value finds the end.
LEMMA NextEndFlows ==
  ASSUME IInv, Order, Still, NEW t \in Threads, NextEnd(t)
  PROVE  Order' /\ Still'
<1>1. t \in Gens => delegating[t]
  BY DEF NextEnd, IInv, Delegation
<1>2. PICK x \in {"exit", "fail", "idle"} :
        pc' = [pc EXCEPT ![t] = x] /\ (t \in Gens => x \in {"exit", "fail"})
  BY DEF NextEnd, EndOf, Goto
<1>3. /\ pc[t] = "recv"
      /\ UNCHANGED <<started, done, delegating, item, trace, received>>
  BY DEF NextEnd, bodies
<1> QED
  BY <1>1, <1>2, <1>3, PullFlows

\* One more at one point, the others as they were.
LEMMA Bumped ==
  ASSUME NEW S, NEW q \in [S -> Nat], NEW m \in S
  PROVE  LET r == [q EXCEPT ![m] = q[m] + 1]
         IN  r \in [S -> Nat] /\ r[m] = q[m] + 1 /\ \A j \in S : j /= m => r[j] = q[j]
  OBVIOUS

\* A value moves one generator up, to a yield from or to a consumer.
LEMMA HandoverFlows ==
  ASSUME IInv, Order, Still, NEW t \in Threads, NEW i \in Gens, Handover(t, i)
  PROVE  Order' /\ Still'
<1> USE Chain DEF Handover, gvars
<1>1. (t \in Consumers \/ t \in Gens) /\ t \in Threads /\ i \in Threads /\ t /= i
  BY DEF Threads
<1>2. /\ pc[t] = "recv" /\ pc[i] = "offer" /\ pc'[t] = "ack" /\ pc'[i] = "await"
      /\ \A u \in Threads \ {t, i} : pc'[u] = pc[u]
  BY <1>1 DEF IInv, TypeOK
<1>3. UNCHANGED <<done, delegating, started, trace>>
  OBVIOUS
<1>4. t \in Gens => delegating[t]
  BY <1>2 DEF IInv, Delegation
<1>5. \A j \in Gens : Settled(j)' => Settled(j)
  BY <1>1, <1>2, <1>3, <1>4 DEF Settled, Threads
<1>6. Still'
  <2> DEFINE K == {t, i} \cap Gens
  <2>1. /\ \A k \in K : pc[k] \notin {"new", "ended"}
        /\ \A j \in Gens \ K : pc'[j] = pc[j]
    BY <1>2 DEF Threads
  <2>2. K \in SUBSET Gens
    OBVIOUS
  <2> HIDE DEF K
  <2> QED
    BY <1>5, <2>1, <2>2, StillFrame DEF Settles
<1>8. PICK q \in [0 .. Depth -> Nat] : Flow(q)
  BY DEF Order
<1> DEFINE m == i - 1
           r == [q EXCEPT ![m] = q[m] + 1]
<1>9. /\ m \in 0 .. Depth /\ i \in 0 .. Depth /\ i = m + 1 /\ Depth \in Nat
      /\ t \in Gens => m = t /\ m \in Gens
      /\ t \in Consumers => m = 0
  BY <1>1, DepthAssumption DEF Gens
<1>10. r \in [0 .. Depth -> Nat] /\ r[m] = q[m] + 1 /\ \A j \in 0 .. Depth : j /= m => r[j] = q[j]
  <2>1. m \in 0 .. Depth
    BY <1>9
  <2>2. q[m] + 1 \in Nat
    BY <2>1
  <2>3. q \in [0 .. Depth -> Nat]
    OBVIOUS
  <2> HIDE DEF m
  <2> QED
    BY <2>1, <2>3, Bumped
<1> HIDE DEF m, r
<1>11. q[i] = q[m] + 1 /\ item[i] = trace[q[i]]
  BY <1>2, <1>8 DEF Flow, Held, m
<1>12. m \in Gens => q[m] = q[m - 1]
  <2>1. CASE t \in Gens
    BY <1>2, <1>8, <1>9, <2>1 DEF Flow, Empty
  <2>2. CASE t \in Consumers
    BY <1>9, <2>2 DEF Gens
  <2> QED
    BY <1>1, <2>1, <2>2
<1>13. Gradual(q)
  BY <1>8 DEF Flow
<1> HIDE DEF m, r
<1>14. Gradual(r)
  <2>1. m + 1 \in 0 .. Depth /\ q[m + 1] = q[m] + 1
    BY <1>9, <1>11
  <2>2. m > 0 => q[m] = q[m - 1]
    BY <1>9, <1>12 DEF Gens
  <2> QED
    BY <1>9, <1>10, <1>13, <2>1, <2>2, MoveKeepsGradual
<1>15. ASSUME NEW j \in Gens
       PROVE  /\ Held(j)' => r[j] = r[j - 1] + 1 /\ item'[j] = trace[r[j]]
              /\ Empty(j)' => r[j] = r[j - 1]
              /\ Settled(j)' => r[Depth] = r[j]
  <2>0. j \in 0 .. Depth /\ j - 1 \in 0 .. Depth /\ j /= j - 1 /\ j \in Threads /\ j \in Nat
    BY DepthAssumption DEF Gens, Threads
  <2>1. Settled(j)' => r[Depth] = r[j]
    <3>1. SUFFICES ASSUME Settled(j)' PROVE r[Depth] = r[j]
      OBVIOUS
    <3>2. Settled(j) /\ q[Depth] = q[j]
      BY <1>5, <1>8, <3>1 DEF Flow
    <3>3. j /= m
      BY <1>1, <1>4, <1>9, <2>0, <3>2 DEF Settled, Gens
    <3>4. Depth /= m /\ Depth \in 0 .. Depth
      BY <1>9
    <3> QED
      BY <1>10, <2>0, <3>2, <3>3, <3>4
  <2>2. CASE j = i
    <3>1. r[j] = r[j - 1]
      BY <1>9, <1>10, <1>11, <2>0, <2>2
    <3>2. ~Held(j)'
      BY <1>2, <2>2 DEF Held
    <3> QED
      BY <2>1, <3>1, <3>2
  <2>3. CASE j = t
    <3>1. m = j
      BY <1>9, <2>3
    <3>2. r[j] = q[j] + 1 /\ r[j - 1] = q[j - 1] /\ q[j] = q[j - 1]
      BY <1>10, <1>12, <2>0, <3>1
    <3>3. item'[j] = item[i]
      BY <2>3 DEF IInv, TypeOK
    <3>4. ~Empty(j)'
      BY <1>2, <2>3 DEF Empty
    <3> QED
      BY <1>11, <2>1, <3>1, <3>2, <3>3, <3>4
  <2>4. CASE j \notin {t, i}
    <3>1. pc'[j] = pc[j] /\ item'[j] = item[j]
      BY <1>2, <2>0, <2>4 DEF IInv, TypeOK
    <3>2. j /= m /\ j - 1 /= m
      BY <1>1, <1>9, <2>0, <2>4 DEF Gens
    <3>3. r[j] = q[j] /\ r[j - 1] = q[j - 1]
      BY <1>10, <2>0, <3>2
    <3>4. /\ Held(j) => q[j] = q[j - 1] + 1 /\ item[j] = trace[q[j]]
          /\ Empty(j) => q[j] = q[j - 1]
      BY <1>8 DEF Flow
    <3>5. (Held(j)' => Held(j)) /\ (Empty(j)' => Empty(j))
      BY <3>1, <1>3 DEF Held, Empty
    <3> QED
      BY <2>1, <3>1, <3>3, <3>4, <3>5
  <2> QED
    BY <2>2, <2>3, <2>4
<1>16. r[0] = Len(received') /\ \A n \in 1 .. Len(received') : received'[n] = trace[n]
  <2>0. /\ received \in Seq(Items) /\ q[0] = Len(received)
        /\ \A n \in 1 .. Len(received) : received[n] = trace[n]
    BY <1>8 DEF Flow, IInv, TypeOK
  <2>1. CASE t \in Gens
    <3>1. received' = received /\ m /= 0
      BY <1>9, <2>1 DEF Gens
    <3>2. 0 \in 0 .. Depth
      BY <1>9
    <3>3. r[0] = q[0]
      BY <1>10, <3>1, <3>2
    <3> QED
      BY <2>0, <3>1, <3>3
  <2>2. CASE t \in Consumers
    <3>1. received' = Append(received, item[i]) /\ m = 0 /\ item[i] \in Items
      BY <1>2, <1>9, <2>2 DEF IInv, ItemsReady
    <3>2. Len(received') = Len(received) + 1
      BY <2>0, <3>1
    <3>3. item[i] = trace[Len(received) + 1]
      BY <1>11, <2>0, <3>1
    <3>4. ASSUME NEW n \in 1 .. Len(received')
          PROVE  received'[n] = trace[n]
      <4>1. CASE n = Len(received) + 1
        BY <2>0, <3>1, <3>3, <4>1
      <4>2. CASE n \in 1 .. Len(received)
        BY <2>0, <3>1, <4>2
      <4> QED
        BY <2>0, <3>2, <4>1, <4>2
    <3> QED
      BY <1>10, <2>0, <3>1, <3>2, <3>4
  <2> QED
    BY <1>1, <2>1, <2>2
<1>17. r[Depth] = Len(trace)
  <2>1. Depth /= m /\ Depth \in 0 .. Depth
    BY <1>9
  <2> QED
    BY <1>8, <1>10, <2>1 DEF Flow
<1>18. Flow(r)'
  BY <1>3, <1>14, <1>15, <1>16, <1>17 DEF Flow, r, m
<1>19. Order'
  BY <1>10, <1>18 DEF Order
<1> QED
  BY <1>6, <1>19

\* The value goes on to where it is yielded again.
LEMMA ResumeFlows ==
  ASSUME IInv, Order, Still, NEW t \in Threads, NEW i \in Gens, Resume(t, i)
  PROVE  Order' /\ Still'
<1> USE Chain DEF Resume, gvars, bodies, history
<1>1. t \in Threads /\ i \in Threads /\ t /= i
  BY DEF Threads
<1>2. /\ pc[t] = "ack" /\ pc[i] = "await" /\ pc'[i] = "body"
      /\ t \in Gens => pc'[t] = "offer"
      /\ \A j \in Gens \ {t, i} : pc'[j] = pc[j]
  BY <1>1 DEF IInv, TypeOK, Threads
<1>3. ASSUME NEW j \in Gens
      PROVE  (Held(j)' => Held(j)) /\ (Empty(j)' => Empty(j)) /\ (Settled(j)' => Settles(j))
  <2>1. CASE j = t
    BY <1>2, <2>1 DEF Held, Empty, Settled, Settles
  <2>2. CASE j = i
    BY <1>2, <2>2 DEF Held, Empty, Settled, Settles
  <2>3. CASE j \notin {t, i}
    BY <1>2, <2>3 DEF Held, Empty, Settled, Settles
  <2> QED
    BY <2>1, <2>2, <2>3
<1> DEFINE K == {t, i} \cap Gens
<1>4. /\ \A k \in K : pc[k] \notin {"new", "ended"}
      /\ \A j \in Gens \ K : pc'[j] = pc[j]
  BY <1>2
<1>5. UNCHANGED <<item, trace, received>> /\ K \in SUBSET Gens
  OBVIOUS
<1> HIDE DEF K
<1> QED
  BY <1>3, <1>4, <1>5, QuietFrame

\* The body of a generator takes a step in which no value moves.
LEMMA BodyFlows ==
  ASSUME IInv, Order, Still, NEW i \in Gens, pc[i] \notin {"new", "ended"},
         UNCHANGED <<item, trace, received>>,
         \A j \in Gens \ {i} : pc'[j] = pc[j] /\ delegating'[j] = delegating[j],
         (Held(i)' => Held(i)) /\ (Empty(i)' => Empty(i)) /\ (Settled(i)' => Settles(i))
  PROVE  Order' /\ Still'
<1>1. ASSUME NEW j \in Gens, j /= i
      PROVE  (Held(j)' => Held(j)) /\ (Empty(j)' => Empty(j)) /\ (Settled(j)' => Settles(j))
  <2>1. pc'[j] = pc[j] /\ delegating'[j] = delegating[j]
    BY <1>1
  <2> QED
    BY <2>1 DEF Held, Empty, Settled, Settles
<1>2. {i} \in SUBSET Gens
  OBVIOUS
<1> QED
  BY <1>1, <1>2, QuietFrame

\* A yield from is left, its generator having ended.
LEMMA YieldFromExitFlows ==
  ASSUME IInv, Order, Still, NEW i \in Gens, YieldFromExit(i), pc[i] /= "drop"
  PROVE  Order' /\ Still'
<1> USE Chain DEF YieldFromExit, Goto
<1>1. /\ i + 1 \in Gens /\ i \in Threads /\ delegating[i]
      /\ pc[i] \in {"exit", "fail"}
      /\ pc[i + 1] = "ended" /\ ~delegating[i + 1]
  BY DEF IInv, Flags, Delegation, Threads
<1>2. /\ pc'[i] \in {"raised", "body"} /\ ~delegating'[i]
      /\ \A j \in Gens \ {i} : pc'[j] = pc[j] /\ delegating'[j] = delegating[j]
  BY <1>1 DEF IInv, TypeOK, Threads
<1>3. ~Held(i)' /\ Empty(i)
  BY <1>1, <1>2 DEF Held, Empty
<1>4. Settles(i)
  BY <1>1 DEF Settles, Settled
<1>5. UNCHANGED <<item, trace, received>> /\ pc[i] \notin {"new", "ended"}
  BY <1>1 DEF history
<1> QED
  BY <1>2, <1>3, <1>4, <1>5, BodyFlows

\* A body catches an error, returns or raises, or is over.
LEMMA EndFlows ==
  ASSUME IInv, Order, Still, NEW i \in Gens, Catch(i) \/ Return(i) \/ Raise(i) \/ RunEnd(i)
  PROVE  Order' /\ Still'
<1> USE DEF Catch, Return, Raise, RunEnd, Goto, gvars, bodies, history
<1>1. /\ pc[i] \in {"body", "raised", "finish"} /\ pc'[i] \in {"body", "finish", "ended"}
      /\ \A j \in Gens \ {i} : pc'[j] = pc[j]
      /\ UNCHANGED <<delegating, item, trace, received>>
  BY DEF IInv, TypeOK, Threads
<1>2. ~Held(i)' /\ (Empty(i)' => Empty(i)) /\ (Settled(i)' => Settles(i))
  BY <1>1 DEF Held, Empty, Settled, Settles
<1> QED
  BY <1>1, <1>2, BodyFlows

\* A yield computes a value: all the others are on their way already.
LEMMA YieldFlows ==
  ASSUME IInv, Order, Still, NEW i \in Gens, Yield(i)
  PROVE  Order' /\ Still'
<1> USE Chain DEF Yield, Goto, gvars
<1>1. /\ pc[i] = "body" /\ pc'[i] = "offer" /\ ~delegating[i]
      /\ \A j \in Gens \ {i} : pc'[j] = pc[j] /\ item'[j] = item[j]
      /\ item'[i] = <<i, made[i] + 1>>
      /\ UNCHANGED <<started, done, delegating, received>>
  BY DEF IInv, TypeOK, Threads
<1>3. Settled(i) /\ Empty(i)
  BY <1>1 DEF Settled, Empty
<1>4. \A j \in Gens : Settled(j)' => Settled(j)
  BY <1>1 DEF Settled
<1>5. Still'
  <2>1. {i} \in SUBSET Gens /\ \A k \in {i} : pc[k] \notin {"new", "ended"}
    BY <1>1
  <2> QED
    BY <1>1, <1>4, <2>1, StillFrame DEF Settles
<1>6. \A j \in Gens : j > i => pc[j] \in {"new", "ended"}
  BY <1>3 DEF Still
<1>7. \A j \in Gens : j < i => ~Settled(j)
  BY <1>1 DEF Still
<1>8. PICK q \in [0 .. Depth -> Nat] : Flow(q)
  BY DEF Order
<1> DEFINE r == [j \in 0 .. Depth |-> IF j >= i THEN q[j] + 1 ELSE q[j]]
<1>9. /\ r \in [0 .. Depth -> Nat]
      /\ \A j \in 0 .. Depth : r[j] = IF j >= i THEN q[j] + 1 ELSE q[j]
  OBVIOUS
<1>10. q[i] = q[i - 1] /\ q[Depth] = q[i] /\ q[Depth] = Len(trace) /\ Gradual(q)
  BY <1>3, <1>8 DEF Flow
<1> HIDE DEF r
<1>11. Gradual(r) /\ \A j \in 0 .. Depth : j >= i => q[j] = q[Depth]
  BY <1>9, <1>10, YieldKeepsGradual
<1>12. trace \in Seq(Items) /\ received \in Seq(Items) /\ trace' = Append(trace, <<i, made[i] + 1>>)
  BY DEF IInv, TypeOK
<1>13. /\ Len(trace') = Len(trace) + 1 /\ trace'[Len(trace) + 1] = <<i, made[i] + 1>>
       /\ \A n \in 1 .. Len(trace) : trace'[n] = trace[n]
  BY <1>12
<1>14. /\ Depth \in Nat /\ 0 \in 0 .. Depth /\ Depth \in 0 .. Depth /\ i \in 0 .. Depth
       /\ Depth >= i /\ ~(0 >= i)
       /\ \A j \in 0 .. Depth : q[j] \in Nat /\ q[j] <= Len(trace)
  <2>1. /\ Depth \in Nat /\ 0 \in 0 .. Depth /\ Depth \in 0 .. Depth /\ i \in 0 .. Depth
        /\ Depth >= i /\ ~(0 >= i)
    BY DepthAssumption DEF Gens
  <2>2. \A j \in 0 .. Depth : q[j] <= q[Depth]
    BY <1>10, <2>1 DEF Gradual
  <2> QED
    BY <1>10, <2>1, <2>2
<1>15. r[0] = Len(received) /\ r[Depth] = Len(trace')
  BY <1>8, <1>9, <1>10, <1>13, <1>14 DEF Flow
<1>16. \A n \in 1 .. Len(received) : received[n] = trace'[n]
  <2>1. Len(received) <= Len(trace) /\ Len(received) \in Nat /\ Len(trace) \in Nat
    BY <1>8, <1>12, <1>14 DEF Flow
  <2>2. \A n \in 1 .. Len(received) : received[n] = trace[n] /\ n \in 1 .. Len(trace)
    BY <1>8, <2>1 DEF Flow
  <2> QED
    BY <1>13, <2>2
<1>17. ASSUME NEW j \in Gens
       PROVE  /\ Held(j)' => r[j] = r[j - 1] + 1 /\ item'[j] = trace'[r[j]]
              /\ Empty(j)' => r[j] = r[j - 1]
              /\ Settled(j)' => r[Depth] = r[j]
  <2>0. j \in 0 .. Depth /\ j - 1 \in 0 .. Depth /\ j \in Nat
    BY DepthAssumption DEF Gens
  <2>1. /\ Held(j) => q[j] = q[j - 1] + 1 /\ item[j] = trace[q[j]]
        /\ Empty(j) => q[j] = q[j - 1]
        /\ Settled(j) => q[Depth] = q[j]
    BY <1>8 DEF Flow
  <2>2. CASE j = i
    <3>1. r[j] = Len(trace) + 1 /\ r[j - 1] = q[j - 1] /\ q[j - 1] = Len(trace)
      <4>1. j >= i /\ ~(j - 1 >= i)
        BY <2>0, <2>2
      <4> QED
        BY <1>9, <1>10, <2>0, <2>2, <4>1
    <3>2. r[Depth] = r[j]
      BY <1>13, <1>15, <3>1
    <3>3. ~Empty(j)'
      BY <1>1, <2>2 DEF Empty
    <3> QED
      BY <1>1, <1>13, <2>2, <3>1, <3>2, <3>3
  <2>3. CASE j > i
    <3>1. pc[j] \in {"new", "ended"} /\ j /= i
      BY <1>6, <2>3
    <3>2. ~Held(j)' /\ (Empty(j)' => Empty(j))
      BY <1>1, <3>1 DEF Held, Empty
    <3>3. r[j] = q[j] + 1 /\ r[j - 1] = q[j - 1] + 1 /\ r[Depth] = q[Depth] + 1
      BY <1>9, <1>14, <2>0, <2>3
    <3> QED
      BY <1>4, <2>1, <3>2, <3>3
  <2>4. CASE j < i
    <3>1. j /= i /\ ~Settled(j)'
      BY <1>4, <1>7, <2>4
    <3>2. (Held(j)' => Held(j)) /\ (Empty(j)' => Empty(j)) /\ item'[j] = item[j]
      BY <1>1, <3>1 DEF Held, Empty
    <3>3. r[j] = q[j] /\ r[j - 1] = q[j - 1]
      BY <1>9, <2>0, <2>4
    <3>4. ASSUME Held(j)
          PROVE  item[j] = trace'[r[j]]
      <4>1. q[j] >= 1 /\ q[j] <= Len(trace) /\ q[j] \in Nat
        BY <1>14, <2>0, <2>1, <3>4
      <4>2. q[j] \in 1 .. Len(trace)
        BY <1>12, <4>1
      <4> QED
        BY <1>13, <2>1, <3>3, <3>4, <4>2
    <3> QED
      BY <2>1, <3>1, <3>2, <3>3, <3>4
  <2>5. j = i \/ j > i \/ j < i
    BY <2>0
  <2> QED
    BY <2>2, <2>3, <2>4, <2>5
<1>18. Flow(r)'
  BY <1>1, <1>11, <1>15, <1>16, <1>17 DEF Flow, Gradual
<1>19. Order'
  BY <1>9, <1>18 DEF Order
<1> QED
  BY <1>5, <1>19

LEMMA InitFlows == Init => FlowInv
<1> SUFFICES ASSUME Init PROVE FlowInv
  OBVIOUS
<1> USE Chain DEF Init
<1>1. Still
  BY DEF Still, Threads
<1> DEFINE q == [j \in 0 .. Depth |-> 0]
<1>2. q \in [0 .. Depth -> Nat] /\ \A j \in 0 .. Depth : q[j] = 0
  OBVIOUS
<1>3. /\ Depth \in Nat /\ Depth \in 0 .. Depth /\ 0 \in 0 .. Depth
      /\ \A i \in Gens : i \in 0 .. Depth /\ i - 1 \in 0 .. Depth
  BY DepthAssumption DEF Gens
<1>4. \A i \in Gens : ~Held(i)
  BY DEF Held, Threads
<1> HIDE DEF q
<1>5. Gradual(q)
  BY <1>2, <1>3 DEF Gradual
<1>6. Flow(q)
  BY <1>2, <1>3, <1>4, <1>5 DEF Flow
<1> QED
  BY <1>1, <1>2, <1>6 DEF FlowInv, Order

\* Every step keeps the order of the values, until generator 1 is closed.
LEMMA NextFlows == IInv /\ Closing /\ FlowInv /\ [Next]_vars => FlowInv'
<1> SUFFICES ASSUME IInv, Closing, FlowInv, [Next]_vars, ~done'[1] PROVE Order' /\ Still'
  BY DEF FlowInv
<1> USE Chain
<1>0. ~done[1] /\ Order /\ Still
  BY FlagsStay DEF FlowInv
<1>a. ASSUME NEW i \in Gens, pc[i] \in {"offer", "await", "drop"}
      PROVE  ~done[i]
  <2>1. ~chClosed[i]
    BY <1>a DEF IInv, Flags
  <2> QED
    BY <1>0, <2>1 DEF Closing
<1>1. CASE \E c \in Consumers : LoopBegin(c) \/ LoopNext(c)
  BY <1>0, <1>1, ConsumerPullFlows DEF LoopBegin, LoopNext
<1>2. CASE \E c \in Consumers : LoopLeave(c)
  BY <1>2 DEF LoopLeave, close, IInv, TypeOK
<1>3. CASE \E t \in Threads : NextEnd(t)
  BY <1>0, <1>3, NextEndFlows
<1>4. CASE \E i \in Gens : Abandon(i)
  BY <1>a, <1>4 DEF Abandon
<1>5. CASE \E i \in Gens : YieldFromExit(i)
  <2>1. PICK i \in Gens : YieldFromExit(i)
    BY <1>5
  <2>2. pc[i] = "drop" => FALSE
    BY <1>a DEF IInv, Delegation
  <2> QED
    BY <1>0, <2>1, <2>2, YieldFromExitFlows
<1>6. CASE \E i \in Gens : Runner(i)
  BY <1>0, <1>3, <1>4, <1>5, <1>6, HandoverFlows, ResumeFlows, YieldFlows, YieldFromFlows,
     YieldFromNextFlows, EndFlows DEF Runner, Threads
<1>7. CASE UNCHANGED vars
  <2>1. UNCHANGED <<item, trace, received, pc, delegating>>
    BY <1>7 DEF vars, gvars, bodies, history
  <2>2. \A i \in Gens : (Held(i)' => Held(i)) /\ (Empty(i)' => Empty(i)) /\ (Settled(i)' => Settles(i))
    BY <2>1 DEF Held, Empty, Settled, Settles
  <2>3. {} \in SUBSET Gens
    OBVIOUS
  <2> QED
    BY <1>0, <2>1, <2>2, <2>3, QuietFrame
<1> QED
  BY <1>1, <1>2, <1>3, <1>6, <1>7 DEF Next, Consumer, Threads

LEMMA FlowInvariant == Spec => []FlowInv
  BY InitFlows, NextFlows, Invariant, ClosingInvariant, PTL DEF Spec

-----------------------------------------------------------------------------
(* The order of the values, whoever was closed.                            *)

\* Generator i is linked to the consumers: each one before it is inside a
\* yield from.
Linked(i) == \A j \in Gens : j < i => delegating[j]

\* The bodies have computed value x.
Computed(x) == \E a \in DOMAIN trace : trace[a] = x

\* What linked generators hold was computed after all that was received, and
\* the further down it is held, the later.
SubOrder ==
  /\ \A m \in DOMAIN received : Computed(received[m])
  /\ \A m, n \in DOMAIN received : m < n => Before(received[m], received[n])
  /\ \A i \in Gens : Held(i) /\ Linked(i) =>
       /\ Computed(item[i])
       /\ \A m \in DOMAIN received : Before(received[m], item[i])
       /\ \A j \in Gens : j < i /\ Held(j) => Before(item[j], item[i])

\* Nobody gets a value.
LEMMA SubFrame ==
  ASSUME SubOrder, UNCHANGED <<trace, received>>,
         \A i \in Gens : Held(i)' => Held(i) /\ item'[i] = item[i],
         \A i \in Gens : Held(i)' /\ Linked(i)' => Linked(i)
  PROVE  SubOrder'
<1>1. /\ \A m \in DOMAIN received' : Computed(received[m])'
      /\ \A m, n \in DOMAIN received' : m < n => Before(received[m], received[n])'
  BY DEF SubOrder, Computed, Before
<1>2. ASSUME NEW i \in Gens, Held(i)', Linked(i)'
      PROVE  /\ Computed(item[i])'
             /\ \A m \in DOMAIN received' : Before(received[m], item[i])'
             /\ \A j \in Gens : j < i /\ Held(j)' => Before(item[j], item[i])'
  <2>1. Held(i) /\ Linked(i) /\ item'[i] = item[i]
    BY <1>2
  <2>2. /\ Computed(item[i])
        /\ \A m \in DOMAIN received : Before(received[m], item[i])
        /\ \A j \in Gens : j < i /\ Held(j) => Before(item[j], item[i])
    BY <2>1 DEF SubOrder
  <2> QED
    BY <2>1, <2>2 DEF Computed, Before
<1> QED
  BY <1>1, <1>2 DEF SubOrder

\* A step that moves one thread, and hands nothing over, ...
LEMMA SubStep ==
  ASSUME IInv, SubOrder, UNCHANGED <<item, trace, received>>,
         \A i \in Gens : Held(i)' => Held(i),
         \A i \in Gens : delegating'[i] => delegating[i]
  PROVE  SubOrder'
<1>1. \A i \in Gens : Linked(i)' => Linked(i)
  BY DEF Linked
<1> QED
  BY <1>1, SubFrame

\* ... or that begins a pull.
LEMMA SubPull ==
  ASSUME IInv, SubOrder, NEW t \in Threads, Target(t) \in Gens, NextBegin(t),
         UNCHANGED <<item, trace, received>>,
         t \in Gens /\ delegating'[t] /\ ~delegating[t] => ~started[t + 1],
         \A i \in Gens \ {t} : delegating'[i] = delegating[i]
  PROVE  SubOrder'
<1> USE Chain
<1>1. t \in Threads /\ Target(t) \in Threads /\ t /= Target(t)
  BY DEF Threads
<1>2. /\ t \in Gens => pc'[t] \in {"exit", "fail", "recv"}
      /\ \A i \in Gens \ {t} : pc'[i] = pc[i] \/ pc'[i] = "body"
  <2>1. CASE finished[Target(t)]
    BY <1>1, <2>1 DEF NextBegin, EndOf, Goto, IInv, TypeOK, Threads
  <2>2. CASE ~finished[Target(t)]
    <3>1. PICK s \in {"body", pc[Target(t)]} :
            pc' = [pc EXCEPT ![t] = "recv", ![Target(t)] = s]
      BY <2>2 DEF NextBegin
    <3> QED
      BY <1>1, <3>1 DEF IInv, TypeOK, Threads
  <2> QED
    BY <2>1, <2>2
<1>3. \A i \in Gens : Held(i)' => Held(i)
  BY <1>2 DEF Held
<1>4. ASSUME NEW i \in Gens, Held(i)', Linked(i)'
      PROVE  Linked(i)
  <2>1. CASE t \in Gens /\ delegating'[t] /\ ~delegating[t]
    <3>1. ~started[t + 1] /\ t /= i
      BY <1>2, <1>4, <2>1 DEF Held
    <3>2. CASE i <= t
      <4>1. \A j \in Gens : j < i => j /= t
        BY <3>2, DepthAssumption, <2>1 DEF Gens
      <4> QED
        BY <1>4, <4>1 DEF Linked
    <3>3. CASE i > t
      <4>1. t + 1 \in Gens /\ (i = t + 1 \/ t + 1 < i) /\ t + 1 /= t
        BY <2>1, <3>3, DepthAssumption DEF Gens
      <4>2. pc[t + 1] = "new" /\ ~delegating[t + 1]
        BY <3>1, <4>1 DEF IInv, Flags, Delegation
      <4>3. i /= t + 1
        BY <1>3, <1>4, <4>2 DEF Held
      <4>4. delegating'[t + 1] = delegating[t + 1]
        BY <4>1
      <4> QED
        BY <1>4, <4>1, <4>2, <4>3, <4>4 DEF Linked
    <3> QED
      BY <2>1, <3>2, <3>3, DepthAssumption DEF Gens
  <2>2. CASE ~(t \in Gens /\ delegating'[t] /\ ~delegating[t])
    BY <1>4, <2>2 DEF Linked
  <2> QED
    BY <2>1, <2>2
<1> QED
  BY <1>3, <1>4, SubFrame

\* A value is handed over: the first one in line is received, ...
LEMMA SubReceive ==
  ASSUME IInv, SubOrder, NEW c \in Consumers, NEW i \in Gens, Handover(c, i)
  PROVE  SubOrder'
<1> USE Chain
<1>1. /\ i = 1 /\ pc[1] = "offer" /\ c /= 1 /\ c \notin Gens /\ c \in Threads /\ 1 \in Threads
      /\ received' = Append(received, item[1]) /\ item' = item
      /\ UNCHANGED <<delegating, trace>>
      /\ received \in Seq(Items) /\ item[1] \in Items
  BY DEF Handover, Threads, IInv, TypeOK, ItemsReady
<1>2. /\ pc'[1] = "await"
      /\ \A j \in Gens \ {1} : pc'[j] = pc[j]
  BY <1>1 DEF Handover, IInv, TypeOK, Threads
<1>3. Linked(1) /\ Held(1)
  BY <1>1, DepthAssumption DEF Linked, Held, Gens
<1>4. /\ Computed(item[1])
      /\ \A m \in DOMAIN received : Before(received[m], item[1])
  BY <1>3 DEF SubOrder
<1>5. ASSUME NEW j \in Gens, Held(j)'
      PROVE  Held(j) /\ j > 1
  BY <1>2, <1>5, DepthAssumption DEF Held, Gens
<1>6. ASSUME NEW j \in Gens, Held(j)', Linked(j)'
      PROVE  /\ Computed(item[j])
             /\ \A m \in DOMAIN received : Before(received[m], item[j])
             /\ \A k \in Gens : k < j /\ Held(k) => Before(item[k], item[j])
             /\ Before(item[1], item[j])
  <2>1. Held(j) /\ Linked(j)
    BY <1>1, <1>5, <1>6 DEF Linked
  <2> QED
    BY <1>3, <1>5, <1>6, <2>1 DEF SubOrder
<1>7. /\ DOMAIN received' = 1 .. Len(received) + 1 /\ DOMAIN received = 1 .. Len(received)
      /\ Len(received) \in Nat
      /\ \A m \in DOMAIN received : received'[m] = received[m]
      /\ received'[Len(received) + 1] = item[1]
  BY <1>1
<1>8. ASSUME NEW m \in DOMAIN received'
      PROVE  \/ m \in DOMAIN received /\ received'[m] = received[m]
             \/ m = Len(received) + 1 /\ received'[m] = item[1]
  BY <1>7
<1>9. \A m \in DOMAIN received' : Computed(received'[m])
  BY <1>4, <1>8 DEF SubOrder
<1>10. ASSUME NEW m \in DOMAIN received', NEW n \in DOMAIN received', m < n
       PROVE  Before(received'[m], received'[n])
  <2>1. m \in DOMAIN received /\ received'[m] = received[m]
    BY <1>7, <1>10
  <2> QED
    BY <1>4, <1>8, <1>10, <2>1 DEF SubOrder
<1>11. ASSUME NEW j \in Gens, Held(j)', Linked(j)'
       PROVE  /\ Computed(item[j])
              /\ \A m \in DOMAIN received' : Before(received'[m], item[j])
              /\ \A k \in Gens : k < j /\ Held(k)' => Before(item[k], item[j])
  BY <1>5, <1>6, <1>8, <1>11
<1> QED
  BY <1>1, <1>9, <1>10, <1>11 DEF SubOrder, Computed, Before

\* ... or generator t takes it from the next one.
LEMMA SubHandover ==
  ASSUME IInv, SubOrder, NEW t \in Gens, NEW i \in Gens, Handover(t, i)
  PROVE  SubOrder'
<1> USE Chain
<1>1. /\ i = t + 1 /\ pc[i] = "offer" /\ pc[t] = "recv" /\ t \in Threads /\ i \in Threads
      /\ t /= i /\ delegating[t]
      /\ UNCHANGED <<delegating, trace, received>>
  BY DEF Handover, Threads, IInv, Delegation
<1>2. /\ pc'[t] = "ack" /\ pc'[i] = "await" /\ item'[t] = item[i]
      /\ \A j \in Gens \ {t, i} : pc'[j] = pc[j]
      /\ \A j \in Gens \ {t} : item'[j] = item[j]
  BY <1>1 DEF Handover, IInv, TypeOK, Threads
<1>3. Held(i) /\ ~Held(i)' /\ Held(t)' /\ ~Held(t)
  BY <1>1, <1>2 DEF Held
<1>4. \A j \in Gens \ {t, i} : Held(j)' <=> Held(j)
  BY <1>2 DEF Held
<1>5. \A j \in Gens : Linked(j)' <=> Linked(j)
  BY <1>1 DEF Linked
<1>6. Linked(t) => Linked(i)
  BY <1>1, DepthAssumption DEF Linked, Gens
<1>7. \A j \in Gens : (j < t => j < i) /\ (j > t => j = i \/ j > i)
  BY <1>1, DepthAssumption DEF Gens
<1>8. ASSUME NEW j \in Gens, Held(j)', Linked(j)
      PROVE  /\ Computed(item'[j])
             /\ \A m \in DOMAIN received : Before(received[m], item'[j])
             /\ \A k \in Gens : k < j /\ Held(k)' => Before(item'[k], item'[j])
  <2>1. CASE j = t
    <3>1. /\ Computed(item[i])
          /\ \A m \in DOMAIN received : Before(received[m], item[i])
          /\ \A k \in Gens : k < i /\ Held(k) => Before(item[k], item[i])
      BY <1>3, <1>6, <1>8, <2>1 DEF SubOrder
    <3>2. ASSUME NEW k \in Gens, k < j, Held(k)'
          PROVE  k < i /\ Held(k) /\ item'[k] = item[k]
      <4>1. k /= t /\ k /= i
        BY <1>3, <2>1, <3>2, DepthAssumption DEF Gens
      <4> QED
        BY <1>2, <1>4, <1>7, <2>1, <3>2, <4>1
    <3> QED
      BY <1>2, <2>1, <3>1, <3>2
  <2>2. CASE j /= t
    <3>1. j /= i /\ Held(j) /\ item'[j] = item[j]
      BY <1>2, <1>3, <1>4, <1>8, <2>2
    <3>2. /\ Computed(item[j])
          /\ \A m \in DOMAIN received : Before(received[m], item[j])
          /\ \A k \in Gens : k < j /\ Held(k) => Before(item[k], item[j])
      BY <1>8, <3>1 DEF SubOrder
    <3>3. ASSUME NEW k \in Gens, k < j, Held(k)'
          PROVE  Before(item'[k], item[j])
      <4>1. CASE k = t
        <5>1. i < j
          BY <1>7, <2>2, <3>1, <3>3, <4>1, DepthAssumption DEF Gens
        <5> QED
          BY <1>2, <1>3, <3>2, <4>1, <5>1
      <4>2. CASE k /= t
        BY <1>2, <1>3, <1>4, <3>2, <3>3, <4>2
      <4> QED
        BY <4>1, <4>2
    <3> QED
      BY <3>1, <3>2, <3>3
  <2> QED
    BY <2>1, <2>2
<1>9. /\ \A m \in DOMAIN received : Computed(received[m])
      /\ \A m, n \in DOMAIN received : m < n => Before(received[m], received[n])
  BY DEF SubOrder
<1> QED
  BY <1>1, <1>5, <1>8, <1>9 DEF SubOrder, Computed, Before

\* A yield computes a value: nothing is held further down.
LEMMA SubYield ==
  ASSUME IInv, SubOrder, NEW i \in Gens, Yield(i)
  PROVE  SubOrder'
<1> USE Chain
<1>0. PICK x : x = <<i, made[i] + 1>>
  OBVIOUS
<1>1. /\ ~delegating[i] /\ trace' = Append(trace, x) /\ trace \in Seq(Items) /\ i \in Threads
      /\ item'[i] = x
      /\ \A j \in Gens \ {i} : item'[j] = item[j] /\ pc'[j] = pc[j]
      /\ UNCHANGED <<delegating, received>>
  BY <1>0 DEF Yield, Goto, IInv, TypeOK, Threads
<1>2. /\ \A y : Computed(y) => Computed(y)' /\ Before(y, x)'
      /\ \A y, z : Before(y, z) => Before(y, z)'
      /\ Computed(x)'
  <2>1. /\ DOMAIN trace = 1 .. Len(trace) /\ DOMAIN trace' = 1 .. Len(trace) + 1
        /\ Len(trace) \in Nat /\ trace'[Len(trace) + 1] = x
        /\ \A a \in DOMAIN trace : trace'[a] = trace[a]
    BY <1>1
  <2>2. Len(trace) + 1 \in DOMAIN trace' /\ \A a \in DOMAIN trace : a \in DOMAIN trace' /\ a < Len(trace) + 1
    BY <2>1
  <2>3. Computed(x)'
    BY <2>1, <2>2 DEF Computed
  <2>4. ASSUME NEW y, Computed(y)
        PROVE  Computed(y)' /\ Before(y, x)'
    <3>1. PICK a \in DOMAIN trace : trace[a] = y
      BY <2>4 DEF Computed
    <3>2. a \in DOMAIN trace' /\ trace'[a] = y /\ a < Len(trace) + 1
      BY <2>1, <2>2, <3>1
    <3> QED
      BY <2>1, <2>2, <3>2 DEF Computed, Before
  <2>5. ASSUME NEW y, NEW z, Before(y, z)
        PROVE  Before(y, z)'
    <3>1. PICK a \in DOMAIN trace, b \in DOMAIN trace : a < b /\ trace[a] = y /\ trace[b] = z
      BY <2>5 DEF Before
    <3>2. a \in DOMAIN trace' /\ b \in DOMAIN trace' /\ trace'[a] = y /\ trace'[b] = z
      BY <2>1, <2>2, <3>1
    <3> QED
      BY <3>1, <3>2 DEF Before
  <2> QED
    BY <2>3, <2>4, <2>5
<1>3. \A j \in Gens : Linked(j)' => Linked(j) /\ ~(j > i)
  BY <1>1 DEF Linked
<1>4. \A j \in Gens \ {i} : Held(j)' <=> Held(j)
  BY <1>1 DEF Held
<1>5. /\ \A m \in DOMAIN received : Computed(received[m])
      /\ \A m, n \in DOMAIN received : m < n => Before(received[m], received[n])
  BY DEF SubOrder
<1>6. ASSUME NEW j \in Gens, Held(j)', Linked(j)'
      PROVE  /\ Computed(item[j])'
             /\ \A m \in DOMAIN received : Before(received[m], item[j])'
             /\ \A k \in Gens : k < j /\ Held(k)' => Before(item[k], item[j])'
  <2>1. CASE j = i
    <3>1. ASSUME NEW k \in Gens, k < j, Held(k)'
          PROVE  Computed(item[k]) /\ item'[k] = item[k]
      <4>1. k /= i /\ \A l \in Gens : l < k => l < i
        BY <2>1, <3>1, DepthAssumption DEF Gens
      <4>2. Held(k) /\ Linked(k) /\ item'[k] = item[k]
        BY <1>1, <1>3, <1>4, <1>6, <2>1, <3>1, <4>1 DEF Linked
      <4> QED
        BY <4>2 DEF SubOrder
    <3> QED
      BY <1>1, <1>2, <1>5, <2>1, <3>1
  <2>2. CASE j /= i
    <3>1. Held(j) /\ Linked(j) /\ item'[j] = item[j] /\ j < i
      BY <1>1, <1>3, <1>4, <1>6, <2>2, DepthAssumption DEF Gens
    <3>2. /\ Computed(item[j])
          /\ \A m \in DOMAIN received : Before(received[m], item[j])
          /\ \A k \in Gens : k < j /\ Held(k) => Before(item[k], item[j])
      BY <3>1 DEF SubOrder
    <3>3. ASSUME NEW k \in Gens, k < j, Held(k)'
          PROVE  Held(k) /\ item'[k] = item[k]
      <4>1. k /= i
        BY <3>1, <3>3, DepthAssumption DEF Gens
      <4> QED
        BY <1>1, <1>4, <3>3, <4>1
    <3>4. PICK y : y = item[j] /\ y = item'[j]
      BY <3>1
    <3>5. Computed(y)' /\ \A m \in DOMAIN received : Before(received[m], y)'
      <4>1. \A m \in DOMAIN received : received'[m] = received[m]
        BY <1>1
      <4> QED
        BY <1>2, <3>2, <3>4, <4>1
    <3>6. ASSUME NEW k \in Gens, k < j, Held(k)'
          PROVE  Before(item[k], y)'
      <4>1. Before(item[k], y) /\ item'[k] = item[k]
        BY <3>2, <3>3, <3>4, <3>6
      <4> QED
        BY <1>2, <4>1
    <3> QED
      BY <3>4, <3>5, <3>6
  <2> QED
    BY <2>1, <2>2
<1>7. /\ \A m \in DOMAIN received : Computed(received[m])'
      /\ \A m, n \in DOMAIN received : m < n => Before(received[m], received[n])'
  BY <1>1, <1>2, <1>5
<1> QED
  BY <1>1, <1>6, <1>7 DEF SubOrder

LEMMA NextSub == IInv /\ SubOrder /\ [Next]_vars => SubOrder'
<1> SUFFICES ASSUME IInv, SubOrder, [Next]_vars PROVE SubOrder'
  OBVIOUS
<1> USE Chain
<1>1. CASE \E c \in Consumers : LoopBegin(c) \/ LoopNext(c)
  BY <1>1, SubPull DEF LoopBegin, LoopNext, Threads, bodies
<1>2. CASE \E i \in Gens : YieldFrom(i) \/ YieldFromNext(i)
  <2>1. PICK i \in Gens : YieldFrom(i) \/ YieldFromNext(i)
    BY <1>2
  <2>2. /\ i \in Threads /\ Target(i) \in Gens /\ NextBegin(i)
        /\ UNCHANGED <<item, trace, received>>
        /\ delegating'[i] /\ ~delegating[i] => ~started[i + 1]
        /\ \A j \in Gens \ {i} : delegating'[j] = delegating[j]
    BY <2>1 DEF YieldFrom, YieldFromNext, IInv, TypeOK, Delegation, Threads, bodies
  <2> QED
    BY <2>2, SubPull
<1>3. CASE \E t \in Threads, i \in Gens : Handover(t, i)
  BY <1>3, SubReceive, SubHandover DEF Threads
<1>4. CASE \E t \in Threads, i \in Gens : Resume(t, i)
  <2>1. PICK t \in Threads, i \in Gens : Resume(t, i)
    BY <1>4
  <2>2. \A j \in Gens : Held(j)' => Held(j)
    BY <2>1 DEF Resume, Held, IInv, TypeOK, Threads
  <2> QED
    BY <2>1, <2>2, SubStep DEF Resume, bodies, history
<1>5. CASE \E i \in Gens : Yield(i)
  BY <1>5, SubYield
<1>6. CASE \/ \E c \in Consumers : LoopLeave(c)
           \/ \E t \in Threads : NextEnd(t)
           \/ \E i \in Gens : \/ Abandon(i) \/ YieldFromExit(i) \/ Catch(i)
                              \/ Return(i) \/ Raise(i) \/ RunEnd(i)
  <2>1. PICK t \in Threads, to \in RunnerPCs \cup ConsumerPCs :
          pc' = [pc EXCEPT ![t] = to] /\ to \notin {"offer", "ack"}
    BY <1>6 DEF LoopLeave, NextEnd, EndOf, Abandon, YieldFromExit, Catch, Return, Raise, RunEnd,
       Goto, Threads, RunnerPCs, ConsumerPCs
  <2>2. \A j \in Gens : Held(j)' => Held(j)
    BY <2>1 DEF Held, IInv, TypeOK, Threads
  <2>3. UNCHANGED <<item, trace, received>> /\ \A i \in Gens : delegating'[i] => delegating[i]
    BY <1>6 DEF LoopLeave, NextEnd, Abandon, YieldFromExit, Catch, Return, Raise, RunEnd,
       gvars, bodies, history, IInv, TypeOK
  <2> QED
    BY <2>2, <2>3, SubStep
<1>7. CASE UNCHANGED vars
  <2>1. UNCHANGED <<item, trace, received, pc, delegating>>
    BY <1>7 DEF vars, gvars, bodies, history
  <2> QED
    BY <2>1, SubStep DEF Held
<1> QED
  BY <1>1, <1>2, <1>3, <1>4, <1>5, <1>6, <1>7 DEF Next, Consumer, Runner, Threads

LEMMA SubInvariant == Spec => []SubOrder
<1>1. Init => SubOrder
  BY Chain DEF Init, SubOrder, Held, Threads
<1> QED
  BY <1>1, NextSub, Invariant, PTL DEF Spec

\* The consumers receive the values in the order the bodies computed them,
\* through every yield from of the chain and none twice, whatever is closed;
\* until generator 1 is, they receive them all (Generator.next, yieldFrom).
THEOREM InOrderHolds == Spec => []InOrder
<1>1. SubOrder => \A m, n \in DOMAIN received : m < n => Before(received[m], received[n])
  BY DEF SubOrder
<1>2. IInv /\ FlowInv /\ SubOrder => InOrder
  <2> SUFFICES ASSUME IInv, FlowInv, SubOrder, ~done[1]
               PROVE  Len(received) <= Len(trace) /\ received = SubSeq(trace, 1, Len(received))
    BY <1>1 DEF InOrder
  <2>1. PICK q \in [0 .. Depth -> Nat] : Flow(q)
    BY DEF FlowInv, Order
  <2>2. trace \in Seq(Items) /\ received \in Seq(Items)
    BY DEF IInv, TypeOK
  <2>3. 0 \in 0 .. Depth /\ Depth \in 0 .. Depth /\ 0 <= Depth
    BY DepthAssumption
  <2>4. Len(received) <= Len(trace)
    BY <2>1, <2>3 DEF Flow, Gradual
  <2>5. \A n \in 1 .. Len(received) : received[n] = trace[n]
    BY <2>1 DEF Flow
  <2> QED
    BY <2>2, <2>4, <2>5
<1> QED
  BY <1>2, Invariant, FlowInvariant, SubInvariant, PTL

\* However long the chain, no more than one value per generator has been
\* computed that was not received, while generator 1 is open: a body waits
\* at its yield (yieldValue).
THEOREM LazyHolds == Spec => []Lazy
<1>1. FlowInv => Lazy
  <2> SUFFICES ASSUME FlowInv, ~done[1] PROVE Len(trace) <= Len(received) + Depth
    BY DEF Lazy
  <2>1. PICK q \in [0 .. Depth -> Nat] : Flow(q)
    BY DEF FlowInv, Order
  <2>2. 0 \in 0 .. Depth /\ Depth \in 0 .. Depth /\ 0 <= Depth /\ Depth - 0 = Depth
    BY DepthAssumption
  <2>3. q[Depth] <= q[0] + (Depth - 0)
    BY <2>1, <2>2 DEF Flow, Gradual
  <2> QED
    BY <2>1, <2>2, <2>3 DEF Flow
<1> QED
  BY <1>1, FlowInvariant, PTL

-----------------------------------------------------------------------------
(* Nobody waits in vain.                                                   *)

\* Who is at the second meeting of a value, on resume: a thread that has the
\* value waits for a generator that awaits it, unless that was closed; the
\* generator has somebody to wait for, and only one.
Meeting ==
  /\ \A t \in Threads : pc[t] = "ack" =>
       Target(t) \in Gens /\ (pc[Target(t)] = "await" \/ done[Target(t)])
  /\ \A i \in Gens : pc[i] = "await" =>
       done[i] \/ \E t \in Threads : Target(t) = i /\ pc[t] = "ack"
  /\ \A t, u \in Threads : pc[t] = "ack" /\ pc[u] = "ack" /\ Target(t) = Target(u) =>
       t = u \/ done[Target(t)]
  /\ \A c \in Consumers : pc[c] \in {"recv", "ack", "loop"} => started[1]

\* A step in which nobody comes to resume or leaves it.
LEMMA NobodyMeets ==
  ASSUME IInv, Meeting,
         \A t \in Threads : pc[t] = "ack" <=> pc'[t] = "ack",
         \A i \in Gens : pc[i] = "await" <=> pc'[i] = "await",
         \A i \in Gens : (done[i] => done'[i]) /\ (started[i] => started'[i]),
         \A c \in Consumers :
           pc'[c] \in {"recv", "loop"} => started'[1] \/ pc[c] \in {"recv", "ack", "loop"}
  PROVE  Meeting'
<1> USE Chain
<1>1. \A t \in Threads : pc'[t] = "ack" =>
        Target(t) \in Gens /\ (pc'[Target(t)] = "await" \/ done'[Target(t)])
  BY DEF Meeting
<1>2. \A i \in Gens : pc'[i] = "await" =>
        done'[i] \/ \E t \in Threads : Target(t) = i /\ pc'[t] = "ack"
  BY DEF Meeting
<1>3. \A t, u \in Threads : pc'[t] = "ack" /\ pc'[u] = "ack" /\ Target(t) = Target(u) =>
        t = u \/ done'[Target(t)]
  BY DEF Meeting
<1>4. \A c \in Consumers : pc'[c] \in {"recv", "ack", "loop"} => started'[1]
  BY DEF Meeting, Threads
<1> QED
  BY <1>1, <1>2, <1>3, <1>4 DEF Meeting, Target

\* A pull begins.
LEMMA PullMeets ==
  ASSUME IInv, Meeting, NEW t \in Threads, Target(t) \in Gens, NextBegin(t),
         pc[t] \in {"idle", "loop", "body"}
  PROVE  Meeting'
<1> USE Chain
<1>1. t \in Threads /\ Target(t) \in Threads /\ t /= Target(t)
  BY DEF Threads
<1>2. /\ pc'[t] \in {"idle", "exit", "fail", "recv"}
      /\ \A u \in Threads \ {t} : pc'[u] = pc[u] \/ (pc[u] = "new" /\ pc'[u] = "body")
      /\ pc'[t] = "recv" => started'[Target(t)]
      /\ done' = done /\ \A i \in Gens : started[i] => started'[i]
  <2>1. CASE finished[Target(t)]
    BY <1>1, <2>1 DEF NextBegin, EndOf, Goto, gvars, IInv, TypeOK
  <2>2. CASE ~finished[Target(t)]
    <3>1. ~started[Target(t)] => pc[Target(t)] = "new"
      BY DEF IInv, Flags
    <3>2. PICK s \in {"body", pc[Target(t)]} :
            /\ s = IF ~started[Target(t)] THEN "body" ELSE pc[Target(t)]
            /\ pc' = [pc EXCEPT ![t] = "recv", ![Target(t)] = s]
      BY <2>2 DEF NextBegin, FirstPull
    <3>3. /\ pc'[t] = "recv" /\ pc'[Target(t)] = s
          /\ \A u \in Threads \ {t, Target(t)} : pc'[u] = pc[u]
      BY <1>1, <3>2 DEF IInv, TypeOK
    <3>4. started' = [started EXCEPT ![Target(t)] = TRUE] /\ done' = done
      BY <2>2 DEF NextBegin
    <3>5. started'[Target(t)] /\ \A i \in Gens : started[i] => started'[i]
      BY <3>4 DEF IInv, TypeOK
    <3> QED
      BY <1>1, <3>1, <3>2, <3>3, <3>4, <3>5
  <2> QED
    BY <2>1, <2>2
<1>3. \A u \in Threads : (pc[u] = "ack" <=> pc'[u] = "ack") /\ (pc[u] = "await" <=> pc'[u] = "await")
  BY <1>2
<1>4. \A c \in Consumers :
        pc'[c] \in {"recv", "loop"} => started'[1] \/ pc[c] \in {"recv", "ack", "loop"}
  BY <1>2 DEF Threads
<1> QED
  BY <1>2, <1>3, <1>4, NobodyMeets DEF Threads

\* A value is handed over: both meet again on resume.
LEMMA HandoverMeets ==
  ASSUME IInv, Meeting, NEW t \in Threads, NEW i \in Gens, Handover(t, i)
  PROVE  Meeting'
<1> USE Chain
<1>1. /\ t /= i /\ i \in Threads /\ Target(t) = i /\ pc[t] = "recv" /\ pc[i] = "offer"
      /\ UNCHANGED <<done, started>>
  BY DEF Handover, Threads, gvars
<1>2. /\ pc'[t] = "ack" /\ pc'[i] = "await"
      /\ \A u \in Threads \ {t, i} : pc'[u] = pc[u]
  BY <1>1 DEF Handover, IInv, TypeOK
<1>3. \A u \in Threads : pc[u] = "ack" /\ Target(u) = i => done[i]
  BY <1>1 DEF Meeting
<1>4. \A u \in Threads : pc'[u] = "ack" =>
        Target(u) \in Gens /\ (pc'[Target(u)] = "await" \/ done[Target(u)])
  <2> SUFFICES ASSUME NEW u \in Threads, pc'[u] = "ack"
               PROVE  Target(u) \in Gens /\ (pc'[Target(u)] = "await" \/ done[Target(u)])
    OBVIOUS
  <2>1. CASE u = t
    BY <1>1, <1>2, <2>1
  <2>2. CASE u /= t
    <3>1. u /= i /\ pc[u] = "ack"
      BY <1>2, <2>2
    <3>2. Target(u) \in Gens /\ (pc[Target(u)] = "await" \/ done[Target(u)])
      BY <3>1 DEF Meeting
    <3>3. pc[Target(u)] = "await" => pc'[Target(u)] = "await"
      BY <1>1, <1>2, <3>2 DEF Threads
    <3> QED
      BY <3>2, <3>3
  <2> QED
    BY <2>1, <2>2
<1>5. \A j \in Gens : pc'[j] = "await" =>
        done[j] \/ \E u \in Threads : Target(u) = j /\ pc'[u] = "ack"
  <2> SUFFICES ASSUME NEW j \in Gens, pc'[j] = "await"
               PROVE  done[j] \/ \E u \in Threads : Target(u) = j /\ pc'[u] = "ack"
    OBVIOUS
  <2>1. CASE j = i
    BY <1>1, <1>2, <2>1
  <2>2. CASE j /= i
    <3>1. pc[j] = "await"
      BY <1>2, <2>2 DEF Threads
    <3>2. done[j] \/ \E u \in Threads : Target(u) = j /\ pc[u] = "ack"
      BY <3>1 DEF Meeting
    <3> QED
      BY <1>1, <1>2, <3>2
  <2> QED
    BY <2>1, <2>2
<1>6. \A u, v \in Threads : pc'[u] = "ack" /\ pc'[v] = "ack" /\ Target(u) = Target(v) =>
        u = v \/ done[Target(u)]
  <2>1. \A u \in Threads \ {t} : pc'[u] = "ack" => pc[u] = "ack"
    BY <1>2
  <2> QED
    BY <1>1, <1>3, <2>1 DEF Meeting
<1>7. \A c \in Consumers : pc'[c] \in {"recv", "ack", "loop"} => started[1]
  BY <1>1, <1>2 DEF Meeting, Threads
<1> QED
  BY <1>1, <1>4, <1>5, <1>6, <1>7 DEF Meeting, Target

\* They have met.
LEMMA ResumeMeets ==
  ASSUME IInv, Meeting, NEW t \in Threads, NEW i \in Gens, Resume(t, i)
  PROVE  Meeting'
<1> USE Chain
<1>1. /\ t /= i /\ i \in Threads /\ Target(t) = i /\ pc[t] = "ack" /\ pc[i] = "await"
      /\ UNCHANGED <<done, started>>
  BY DEF Resume, Threads, gvars
<1>2. /\ pc'[t] \in {"offer", "loop"} /\ pc'[i] = "body"
      /\ \A u \in Threads \ {t, i} : pc'[u] = pc[u]
  BY <1>1 DEF Resume, IInv, TypeOK
<1>3. \A u \in Threads \ {t} : pc[u] = "ack" /\ Target(u) = i => done[i]
  BY <1>1 DEF Meeting
<1>4. \A u \in Threads : pc'[u] = "ack" =>
        Target(u) \in Gens /\ (pc'[Target(u)] = "await" \/ done[Target(u)])
  <2> SUFFICES ASSUME NEW u \in Threads, pc'[u] = "ack"
               PROVE  Target(u) \in Gens /\ (pc'[Target(u)] = "await" \/ done[Target(u)])
    OBVIOUS
  <2>1. u /= t /\ u /= i /\ pc[u] = "ack"
    BY <1>2
  <2>2. Target(u) \in Gens /\ (pc[Target(u)] = "await" \/ done[Target(u)])
    BY <2>1 DEF Meeting
  <2>3. Target(u) = i => done[i]
    BY <1>3, <2>1
  <2>4. Target(u) /= i /\ pc[Target(u)] = "await" => pc'[Target(u)] = "await"
    BY <1>1, <1>2, <2>2 DEF Threads
  <2> QED
    BY <2>2, <2>3, <2>4
<1>5. \A j \in Gens : pc'[j] = "await" =>
        done[j] \/ \E u \in Threads : Target(u) = j /\ pc'[u] = "ack"
  <2> SUFFICES ASSUME NEW j \in Gens, pc'[j] = "await"
               PROVE  done[j] \/ \E u \in Threads : Target(u) = j /\ pc'[u] = "ack"
    OBVIOUS
  <2>1. j /= i /\ j /= t /\ pc[j] = "await"
    BY <1>2 DEF Threads
  <2>2. done[j] \/ \E u \in Threads : Target(u) = j /\ pc[u] = "ack"
    BY <2>1 DEF Meeting
  <2> QED
    BY <1>1, <1>2, <2>1, <2>2
<1>6. \A u, v \in Threads : pc'[u] = "ack" /\ pc'[v] = "ack" /\ Target(u) = Target(v) =>
        u = v \/ done[Target(u)]
  <2>1. \A u \in Threads : pc'[u] = "ack" => pc[u] = "ack"
    BY <1>2
  <2> QED
    BY <2>1 DEF Meeting
<1>7. \A c \in Consumers : pc'[c] \in {"recv", "ack", "loop"} => started[1]
  BY <1>1, <1>2 DEF Meeting, Threads
<1> QED
  BY <1>1, <1>4, <1>5, <1>6, <1>7 DEF Meeting, Target

\* A yield that is abandoned leaves resume, if it was there; it was closed.
LEMMA AbandonMeets ==
  ASSUME IInv, Meeting, NEW i \in Gens, Abandon(i)
  PROVE  Meeting'
<1> USE Chain DEF Abandon, Goto
<1>1. /\ done[i] /\ i \in Threads /\ pc'[i] \in {"drop", "body"} /\ pc[i] \in {"offer", "await"}
      /\ \A u \in Threads \ {i} : pc'[u] = pc[u]
      /\ UNCHANGED <<done, started>>
  BY DEF IInv, TypeOK, Threads, gvars
<1>2. \A u \in Threads : pc'[u] = "ack" <=> pc[u] = "ack"
  BY <1>1
<1>3. \A u \in Threads : pc'[u] = "ack" =>
        Target(u) \in Gens /\ (pc'[Target(u)] = "await" \/ done[Target(u)])
  BY <1>1, <1>2 DEF Meeting, Threads
<1>4. \A j \in Gens : pc'[j] = "await" =>
        done[j] \/ \E u \in Threads : Target(u) = j /\ pc'[u] = "ack"
  BY <1>1, <1>2 DEF Meeting, Threads
<1>5. \A u, v \in Threads : pc'[u] = "ack" /\ pc'[v] = "ack" /\ Target(u) = Target(v) =>
        u = v \/ done[Target(u)]
  BY <1>2 DEF Meeting
<1>6. \A c \in Consumers : pc'[c] \in {"recv", "ack", "loop"} => started[1]
  BY <1>1 DEF Meeting, Threads
<1> QED
  BY <1>1, <1>3, <1>4, <1>5, <1>6 DEF Meeting, Target

\* The other steps of one thread, which is not on its way to or from resume.
LEMMA AloneMeets ==
  ASSUME IInv, Meeting, [Next]_vars, NEW t \in Threads, NEW to,
         pc' = [pc EXCEPT ![t] = to],
         pc[t] \notin {"ack", "await"}, to \notin {"recv", "ack", "loop", "await"}
  PROVE  Meeting'
<1>1. pc'[t] = to /\ \A u \in Threads \ {t} : pc'[u] = pc[u]
  BY DEF IInv, TypeOK
<1>2. \A u \in Threads : (pc[u] = "ack" <=> pc'[u] = "ack") /\ (pc[u] = "await" <=> pc'[u] = "await")
  BY <1>1
<1>3. \A c \in Consumers : pc'[c] \in {"recv", "loop"} => pc[c] \in {"recv", "ack", "loop"}
  BY <1>1 DEF Threads
<1> QED
  BY <1>2, <1>3, FlagsStay, NobodyMeets DEF Threads

LEMMA NextMeets == IInv /\ Meeting /\ [Next]_vars => Meeting'
<1> SUFFICES ASSUME IInv, Meeting, [Next]_vars PROVE Meeting'
  OBVIOUS
<1> USE Chain
<1>1. CASE \E c \in Consumers : LoopBegin(c) \/ LoopNext(c)
  BY <1>1, PullMeets DEF LoopBegin, LoopNext, Threads
<1>2. CASE \E i \in Gens : YieldFrom(i) \/ YieldFromNext(i)
  <2>1. PICK i \in Gens : YieldFrom(i) \/ YieldFromNext(i)
    BY <1>2
  <2>2. pc[i] = "body" /\ NextBegin(i) /\ i + 1 \in Gens
    BY <2>1 DEF YieldFrom, YieldFromNext, IInv, Delegation
  <2> QED
    BY <2>2, PullMeets DEF Threads
<1>3. CASE \E t \in Threads, i \in Gens : Handover(t, i)
  BY <1>3, HandoverMeets
<1>4. CASE \E t \in Threads, i \in Gens : Resume(t, i)
  BY <1>4, ResumeMeets
<1>5. CASE \E i \in Gens : Abandon(i)
  BY <1>5, AbandonMeets
<1>6. CASE \/ \E c \in Consumers : LoopLeave(c)
           \/ \E t \in Threads : NextEnd(t)
           \/ \E i \in Gens : \/ Yield(i) \/ YieldFromExit(i) \/ Catch(i)
                              \/ Return(i) \/ Raise(i) \/ RunEnd(i)
  <2>1. PICK t \in Threads,
             to \in {"idle", "exit", "fail", "offer", "raised", "finish", "body", "ended"} :
          /\ pc' = [pc EXCEPT ![t] = to]
          /\ pc[t] \notin {"ack", "await"}
    BY <1>6 DEF LoopLeave, NextEnd, EndOf, Yield, YieldFromExit, Catch, Return, Raise, RunEnd,
       Goto, Threads
  <2> QED
    BY <2>1, AloneMeets
<1>7. CASE UNCHANGED vars
  BY <1>7 DEF vars, gvars, Meeting, Target
<1> QED
  BY <1>1, <1>2, <1>3, <1>4, <1>5, <1>6, <1>7 DEF Next, Consumer, Runner, Threads

LEMMA MeetingInvariant == Spec => []Meeting
<1>1. Init => Meeting
  BY Chain DEF Init, Meeting, Threads
<1> QED
  BY <1>1, NextMeets, Invariant, PTL DEF Spec

\* A nonempty set of numbers has a smallest one (by well-founded induction),
LEMMA Smallest ==
  ASSUME NEW S, S \subseteq Nat, S /= {}
  PROVE  \E x \in S : \A y \in S : x <= y
<1>1. \E x \in S : \A y \in S : ~ (<<y, x>> \in OpToRel(<, Nat))
  BY NatLessThanWellFounded, WFMin
<1>2. PICK x \in S : \A y \in S : ~ (y < x)
  BY <1>1 DEF OpToRel
<1>3. \A y \in S : x <= y
  BY <1>2
<1> QED
  BY <1>3

\* and a nonempty set of generators a first and a last one.
LEMMA FirstAndLast ==
  ASSUME NEW S \in SUBSET Gens, S /= {}
  PROVE  /\ \E i \in S : \A j \in S : i <= j
         /\ \E i \in S : \A j \in S : j <= i
<1>2. Gens \subseteq Nat /\ \A i \in Gens : Depth - i \in Nat /\ i = Depth - (Depth - i)
  BY DepthAssumption DEF Gens
<1>3. \E i \in S : \A j \in S : i <= j
  BY <1>2, Smallest
<1> DEFINE T == {Depth - i : i \in S}
<1>4. T \subseteq Nat /\ T /= {}
  BY <1>2
<1> HIDE DEF T
<1>5. PICK x \in T : \A y \in T : x <= y
  BY <1>4, Smallest
<1> USE DEF T
<1>6. PICK i \in S : x = Depth - i
  OBVIOUS
<1>7. \A j \in S : j <= i
  <2> SUFFICES ASSUME NEW j \in S PROVE j <= i
    OBVIOUS
  <2>1. Depth - i <= Depth - j
    BY <1>5, <1>6
  <2> QED
    BY <2>1, DepthAssumption DEF Gens
<1> QED
  BY <1>3, <1>7

\* A generator whose goroutine is at work and that is closed or waited for.
Pressed(i) ==
  /\ pc[i] \notin {"new", "ended"}
  /\ done[i] \/ \E t \in Threads : Target(t) = i /\ pc[t] \in {"recv", "ack"}

\* It can go on, or the one it waits for is in its place, further down.
LEMMA PressOn ==
  ASSUME IInv, Meeting, Closing, NEW i \in Gens, Pressed(i)
  PROVE  Runnable(i) \/ (i + 1 \in Gens /\ (Pressed(i + 1) \/ Runnable(i + 1)))
<1> USE Chain
<1>1. pc[i] \in RunnerPCs
  BY DEF IInv, TypeOK
<1>2. CASE pc[i] \in {"body", "exit", "fail", "drop", "raised", "finish"}
  BY <1>2 DEF Runnable
<1>3. CASE pc[i] \in {"offer", "await"} /\ done[i]
  BY <1>3 DEF Runnable
<1>4. CASE pc[i] = "offer" /\ ~done[i]
  <2>1. PICK t \in Threads : Target(t) = i /\ pc[t] \in {"recv", "ack"}
    BY <1>4 DEF Pressed
  <2>2. pc[t] = "recv"
    BY <1>4, <2>1 DEF Meeting
  <2> QED
    BY <1>4, <2>1, <2>2 DEF Runnable
<1>5. CASE pc[i] = "await" /\ ~done[i]
  BY <1>5 DEF Meeting, Runnable
<1>6. CASE pc[i] = "recv"
  <2>1. i + 1 \in Gens /\ started[i + 1] /\ i \in Threads /\ Target(i) = i + 1
    BY <1>6 DEF IInv, Delegation, Threads
  <2>2. CASE chClosed[i + 1]
    BY <1>6, <2>1, <2>2 DEF Runnable
  <2>3. CASE ~chClosed[i + 1]
    <3>1. pc[i + 1] \notin {"new", "ended"}
      BY <2>1, <2>3 DEF IInv, Flags
    <3> QED
      BY <1>6, <2>1, <3>1 DEF Pressed
  <2> QED
    BY <2>2, <2>3
<1>7. CASE pc[i] = "ack"
  <2>1. i + 1 \in Gens /\ ~done[i + 1] /\ i \in Threads /\ Target(i) = i + 1
    BY <1>7 DEF IInv, Delegation, Closing, Threads
  <2>2. pc[i + 1] = "await"
    BY <1>7, <2>1 DEF Meeting
  <2> QED
    BY <1>7, <2>1, <2>2 DEF Runnable
<1> QED
  BY <1>1, <1>2, <1>3, <1>4, <1>5, <1>6, <1>7 DEF RunnerPCs, Pressed

\* The last generator of the chain that is pressed can go on, or the next can.
LEMMA PressedRuns ==
  ASSUME IInv, Meeting, Closing, NEW i \in Gens, Pressed(i)
  PROVE  \E j \in Gens : Runnable(j)
<1> DEFINE S == {j \in Gens : Pressed(j)}
<1>1. S \in SUBSET Gens /\ i \in S
  OBVIOUS
<1> HIDE DEF S
<1>2. PICK l \in S : \A j \in S : j <= l
  BY <1>1, FirstAndLast
<1>3. l \in Gens /\ Pressed(l)
  BY DEF S
<1>4. l + 1 \notin S
  <2>1. l \in Nat /\ ~ (l + 1 <= l)
    BY <1>3, Chain
  <2> QED
    BY <1>2, <2>1
<1> QED
  BY <1>3, <1>4, PressOn DEF S

\* The goroutines of a chain never wait for each other in vain: whoever is in
\* next of a generator that was not closed, and whoever closed one, has some
\* goroutine of the chain at work for it (Generator.next, yieldValue, close).
\* Chains of any length, any number of consumers that share the first.
THEOREM NobodyStuckHolds == Spec => []NobodyStuck
<1>1. IInv /\ Closing /\ Meeting => NobodyStuck
  <2> SUFFICES ASSUME IInv, Closing, Meeting,
                      \/ \E c \in Consumers : pc[c] = "recv" /\ ~chClosed[1]
                      \/ \E c \in Consumers : pc[c] = "ack" /\ ~done[1]
                      \/ done[1] /\ \E i \in Gens : pc[i] \notin {"new", "ended"}
               PROVE  \E i \in Gens : Runnable(i)
    BY DEF NobodyStuck
  <2> USE Chain DEF Threads
  <2>1. CASE \E c \in Consumers : pc[c] = "recv" /\ ~chClosed[1]
    <3>1. PICK c \in Consumers : pc[c] = "recv" /\ ~chClosed[1]
      BY <2>1
    <3>2. pc[1] \notin {"new", "ended"}
      BY <3>1 DEF Meeting, IInv, Flags
    <3>3. Pressed(1)
      BY <3>1, <3>2 DEF Pressed
    <3> QED
      BY <3>3, PressedRuns
  <2>2. CASE \E c \in Consumers : pc[c] = "ack" /\ ~done[1]
    BY <2>2 DEF Meeting, Runnable
  <2>3. CASE done[1] /\ \E i \in Gens : pc[i] \notin {"new", "ended"}
    <3> DEFINE S == {i \in Gens : pc[i] \notin {"new", "ended"}}
    <3>1. S \in SUBSET Gens /\ S /= {}
      BY <2>3
    <3>2. PICK i \in S : \A j \in S : i <= j
      BY <3>1, FirstAndLast
    <3>3. done[i]
      <4>1. CASE i = 1
        BY <2>3, <4>1
      <4>2. CASE i /= 1
        <5>1. i - 1 \in Gens /\ (i - 1) + 1 = i /\ ~ (i <= i - 1)
          BY <4>2, DepthAssumption DEF Gens
        <5>2. ~delegating[i - 1]
          BY <3>2, <5>1 DEF IInv, Delegation
        <5>3. started[i]
          BY DEF IInv, Flags
        <5> QED
          BY <5>1, <5>2, <5>3 DEF IInv, Delegation
      <4> QED
        BY <4>1, <4>2
    <3>4. Pressed(i)
      BY <3>3 DEF Pressed
    <3> QED
      BY <3>4, PressedRuns
  <2> QED
    BY <2>1, <2>2, <2>3
<1> QED
  BY <1>1, Invariant, ClosingInvariant, MeetingInvariant, PTL
=============================================================================
