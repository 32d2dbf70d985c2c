----------------------------- MODULE TaskProofs -----------------------------
(***************************************************************************)
(* Two components made of tasks that wait for each other.                  *)
(*                                                                         *)
(* Ingestion, for every tree, every order in which its entries may arrive  *)
(* and any interleaving of producer, uploads and consumer: directories are *)
(* put leaves first and whole, and Ok(root) means that all of it is        *)
(* stored.                                                                 *)
(*                                                                         *)
(* The composition, for every set of configurations and any number of      *)
(* threads: no store is built twice, an instance is made only from         *)
(* instances, and recursion is reported only where the configuration has a *)
(* cycle.                                                                  *)
(***************************************************************************)
EXTENDS NarIngest, Composition, TLAPS

(* The composition.                                                        *)
GivenOK ==
    /\ deps \in [Stores -> Seq(Named)]
    /\ work \in [Threads -> Seq(Stores)]

CompTypeOK ==
    /\ GivenOK
    /\ state \in [Stores -> {"Config", "InProgress"}]
    /\ watch \in [Stores -> {"none"} \cup Results]
    /\ ans \in [Stores -> Seq({"Recursion", "NotFound", "channel"})]
    /\ owner \in [Stores -> Threads \cup {NoThread}]
    /\ dfs \in [Threads -> Seq(Stores)]
    /\ at \in [Threads -> {"idle", "building", "done", "cancelled", "panicked"}]
    /\ results \in [Threads -> Seq(Results)]

(* The stack of a thread is a path: each builder is needed by all below    *)
(* it.  Only a thread in a build call has one.                             *)
PathOn(stack) == \A i, j \in DOMAIN stack : i < j => stack[j] \in Reach(stack[i])

ThreadInv(t) ==
    /\ at[t] # "building" => dfs[t] = <<>>
    /\ at[t] \in {"idle", "building"} => Len(results[t]) < Len(work[t])
    /\ PathOn(dfs[t])

(* What a builder learned of its dependencies.                             *)
BuilderInv(s) ==
    /\ state[s] = "Config" => owner[s] = NoThread
    /\ Len(ans[s]) <= Len(deps[s])
    /\ \A i \in DOMAIN ans[s] :
          /\ ans[s][i] = "channel" => deps[s][i] \in Stores
          /\ ans[s][i] = "Recursion" => s \in Reach(s)

(* The instances, and their dependencies.                                  *)
Instances == {s \in Stores : watch[s] = "ok"}

InstanceInv(s) == watch[s] = "ok" => Range(deps[s]) \subseteq Instances /\ s \notin Reach(s)

Cyclic(s) == \E d \in {s} \cup Reach(s) : d \in Stores /\ d \in Reach(d)

CompInv ==
    /\ CompTypeOK
    /\ \A t \in Threads : ThreadInv(t)
    /\ \A s \in Stores : BuilderInv(s) /\ InstanceInv(s)
    /\ \A s \in Stores : watch[s] = "Recursion" => Cyclic(s)

-----------------------------------------------------------------------------
(* Reach is transitive and least.                                          *)
LEMMA ReachDirect == ASSUME NEW s \in Stores PROVE Range(deps[s]) \subseteq Reach(s)
  BY DEF Reach, Named

(* What a reached store refers to is reached.                              *)
LEMMA ReachClosed ==
    ASSUME NEW s \in Stores, NEW u \in Stores, u \in Reach(s)
    PROVE  Range(deps[u]) \subseteq Reach(s)
  BY DEF Reach, Named, ClosedUnderDeps

(* A set that holds the dependencies of s and is closed holds all s reaches.*)
LEMMA ReachLeast ==
    ASSUME NEW s \in Stores, NEW T, Range(deps[s]) \subseteq T, ClosedUnderDeps(T)
    PROVE  Reach(s) \subseteq T
  <1> DEFINE S == T \cap Named
  <1>1. S \in SUBSET Named /\ Range(deps[s]) \subseteq S /\ ClosedUnderDeps(S)
    BY DEF Named, ClosedUnderDeps
  <1> HIDE DEF S
  <1>2. Reach(s) \subseteq S
    BY <1>1 DEF Reach
  <1> QED BY <1>2 DEF S

(* What a reached store reaches is reached.                                *)
LEMMA ReachTransitive ==
    ASSUME NEW s \in Stores, NEW u \in Stores, u \in Reach(s)
    PROVE  Reach(u) \subseteq Reach(s)
  <1>1. Range(deps[u]) \subseteq Reach(s)
    BY ReachClosed
  <1>2. ClosedUnderDeps(Reach(s))
    BY ReachClosed DEF ClosedUnderDeps
  <1> QED BY <1>1, <1>2, ReachLeast, Zenon

(* The configurations do not change.                                       *)
LEMMA GivenSame ==
    ASSUME GivenOK, UNCHANGED given
    PROVE  /\ GivenOK' /\ deps' = deps /\ work' = work
           /\ \A s : Reach(s)' = Reach(s)
  <1>1. deps' = deps /\ work' = work
    BY DEF given
  <1>2. Named' = Named
    BY <1>1 DEF Named
  <1>3. \A s : Reach(s)' = Reach(s)
    BY <1>1, <1>2 DEF Reach, ClosedUnderDeps
  <1> QED BY <1>1, <1>2, <1>3 DEF GivenOK

(* Sequences: one element more, one less.                                  *)
LEMMA Pushed ==
    ASSUME NEW S, NEW s \in Seq(S), NEW e \in S
    PROVE  /\ Append(s, e) \in Seq(S) /\ Len(Append(s, e)) = Len(s) + 1 /\ Len(s) \in Nat
           /\ DOMAIN s = 1..Len(s) /\ DOMAIN Append(s, e) = 1..(Len(s) + 1)
           /\ Append(s, e)[Len(s) + 1] = e
           /\ \A i \in 1..Len(s) : Append(s, e)[i] = s[i]
  OBVIOUS

(* Dropping the last element keeps the others.                             *)
LEMMA Shortened ==
    ASSUME NEW S, NEW s \in Seq(S), s # <<>>
    PROVE  /\ Below(s) \in Seq(S) /\ Len(s) \in Nat \ {0} /\ DOMAIN s = 1..Len(s)
           /\ DOMAIN Below(s) = 1..(Len(s) - 1)
           /\ \A i \in 1..(Len(s) - 1) : Below(s)[i] = s[i]
           /\ Top(s) \in S /\ Top(s) = s[Len(s)]
  BY DEF Below, Top

(* A sequence continues itself and of what is appended to it.         *)
LEMMA PrefixAppend ==
    ASSUME NEW S, NEW s \in Seq(S), NEW e \in S
    PROVE  Continues(s, s) /\ Continues(s, Append(s, e))
  <1>1. SubSeq(s, 1, Len(s)) = s
    OBVIOUS
  <1>2. SubSeq(Append(s, e), 1, Len(s)) = s
    OBVIOUS
  <1> QED BY <1>1, <1>2 DEF Continues

-----------------------------------------------------------------------------
(* Pushing a builder keeps the stack a path, if it is the first, or if the *)
(* top of the stack refers to it.                                          *)
LEMMA PushKeepsPath ==
    ASSUME NEW stack \in Seq(Stores), PathOn(stack), NEW d \in Stores,
           stack = <<>> \/ d \in Range(deps[Top(stack)])
    PROVE  PathOn(Append(stack, d))
  <1> DEFINE n == Len(stack)
             more == Append(stack, d)
  <1>1. /\ n \in Nat /\ DOMAIN stack = 1..n /\ DOMAIN more = 1..(n + 1)
        /\ more[n + 1] = d /\ \A i \in 1..n : more[i] = stack[i] /\ stack[i] \in Stores
    BY Pushed
  <1>0. (stack = <<>> => n = 0) /\ (stack # <<>> => Top(stack) \in Stores /\ Top(stack) = stack[n])
    BY Shortened
  <1> SUFFICES ASSUME NEW i \in 1..(n + 1), NEW j \in 1..(n + 1), i < j
               PROVE  more[j] \in Reach(more[i])
    BY <1>1 DEF PathOn
  <1> HIDE DEF n, more
  <1>2. CASE j <= n
    BY <1>1, <1>2 DEF PathOn
  <1>3. CASE j = n + 1
    <2>1. stack # <<>> /\ i \in 1..n /\ n \in 1..n
      BY <1>0, <1>1, <1>3
    <2>2. Top(stack) \in Stores /\ Top(stack) = stack[n]
      BY <1>0, <2>1
    <2>3. d \in Range(deps[stack[n]]) /\ stack[n] \in Stores /\ stack[i] \in Stores
      BY <1>1, <2>1, <2>2
    <2>4. CASE i = n
      BY <1>1, <1>3, <2>1, <2>3, <2>4, ReachDirect
    <2>5. CASE i # n
      <3>0. i \in DOMAIN stack /\ n \in DOMAIN stack /\ i < n
        BY <1>1, <2>1, <2>5
      <3>1. stack[n] \in Reach(stack[i])
        BY <3>0 DEF PathOn
      <3>2. d \in Reach(stack[i])
        BY <2>3, <3>1, ReachClosed
      <3> QED BY <1>1, <1>3, <2>1, <3>2
    <2> QED BY <2>4, <2>5
  <1> QED BY <1>1, <1>2, <1>3

(* Popping keeps it a path.                                                *)
LEMMA PopKeepsPath ==
    ASSUME NEW stack \in Seq(Stores), PathOn(stack), stack # <<>>
    PROVE  PathOn(Below(stack))
  BY Shortened DEF PathOn

(* A dependency found on the stack closes a cycle through its top.         *)
LEMMA FoundOnStack ==
    ASSUME NEW stack \in Seq(Stores), PathOn(stack), stack # <<>>,
           NEW d \in Range(stack), d \in Range(deps[Top(stack)])
    PROVE  Top(stack) \in Reach(Top(stack))
  <1>1. PICK k \in DOMAIN stack : d = stack[k]
    BY DEF Range
  <1>2. /\ Len(stack) \in DOMAIN stack /\ Top(stack) \in Stores /\ Top(stack) = stack[Len(stack)]
        /\ d \in Stores /\ k <= Len(stack) /\ k \in Nat /\ Len(stack) \in Nat
    BY <1>1, Shortened
  <1>3. d \in Reach(Top(stack))
    BY <1>2, ReachDirect
  <1>4. CASE k = Len(stack)
    BY <1>1, <1>2, <1>3, <1>4
  <1>5. CASE k # Len(stack)
    <2>1. Top(stack) \in Reach(d)
      BY <1>1, <1>2, <1>5 DEF PathOn
    <2> QED BY <1>2, <1>3, <2>1, ReachTransitive
  <1> QED BY <1>4, <1>5

-----------------------------------------------------------------------------
(* What a step does not touch keeps its part of the invariant.             *)
LEMMA QuietThread ==
    ASSUME CompInv, UNCHANGED given, NEW q \in Threads,
           at'[q] = at[q], dfs'[q] = dfs[q], results'[q] = results[q]
    PROVE  ThreadInv(q)'
  <1>1. ThreadInv(q) /\ deps' = deps /\ work' = work /\ \A s : Reach(s)' = Reach(s)
    BY GivenSame DEF CompInv, CompTypeOK
  <1>2. PathOn(dfs[q])'
    BY <1>1 DEF ThreadInv, PathOn
  <1> QED BY <1>1, <1>2 DEF ThreadInv

(* So does a builder that learned nothing.                                 *)
LEMMA QuietBuilder ==
    ASSUME CompInv, UNCHANGED given, NEW s \in Stores, ans'[s] = ans[s],
           state'[s] = "Config" => owner'[s] = NoThread
    PROVE  BuilderInv(s)'
  <1>1. BuilderInv(s) /\ deps' = deps /\ Reach(s)' = Reach(s)
    BY GivenSame DEF CompInv, CompTypeOK
  <1> QED BY <1>1 DEF BuilderInv

(* And the instances, when nothing is sent.                                *)
LEMMA QuietWatch ==
    ASSUME CompInv, UNCHANGED given, watch' = watch
    PROVE  \A s \in Stores : InstanceInv(s)' /\ (watch'[s] = "Recursion" => Cyclic(s)')
  <1>1. deps' = deps /\ \A s : Reach(s)' = Reach(s)
    BY GivenSame DEF CompInv, CompTypeOK
  <1>2. Instances' = Instances
    BY DEF Instances
  <1> SUFFICES ASSUME NEW s \in Stores PROVE InstanceInv(s)' /\ (watch'[s] = "Recursion" => Cyclic(s)')
    OBVIOUS
  <1>3. Cyclic(s) => Cyclic(s)'
    BY <1>1 DEF Cyclic
  <1>4. InstanceInv(s) /\ (watch[s] = "Recursion" => Cyclic(s))
    BY DEF CompInv
  <1> QED BY <1>1, <1>2, <1>3, <1>4 DEF InstanceInv

(* build_internal: only an entry that nobody builds gets a builder, whose  *)
(* place is on top of the stack of the thread that polls it.               *)
LEMMA BuildInternalInv ==
    ASSUME CompInv, UNCHANGED given, NEW t \in Threads, NEW d \in Stores, BuildInternal(t, d),
           dfs[t] = <<>> \/ d \in Range(deps[Top(dfs[t])])
    PROVE  /\ state' \in [Stores -> {"Config", "InProgress"}]
           /\ owner' \in [Stores -> Threads \cup {NoThread}]
           /\ dfs' \in [Threads -> Seq(Stores)]
           /\ PathOn(dfs[t])' /\ \A q \in Threads \ {t} : dfs'[q] = dfs[q]
           /\ \A s \in Stores : /\ state'[s] = "Config" => owner'[s] = NoThread
                                /\ owner[s] # NoThread => owner'[s] = owner[s]
  <1>0. CompTypeOK /\ ThreadInv(t) /\ \A s \in Stores : BuilderInv(s)
    BY DEF CompInv
  <1>1. \A s : Reach(s)' = Reach(s)
    BY <1>0, GivenSame DEF CompTypeOK
  <1>2. CASE state[d] = "Config"
    <2> DEFINE more == Append(dfs[t], d)
    <2>1. dfs[t] \in Seq(Stores) /\ PathOn(dfs[t])
      BY <1>0 DEF CompTypeOK, ThreadInv
    <2>2. more \in Seq(Stores) /\ PathOn(more)
      BY <2>1, Pushed, PushKeepsPath
    <2>3. /\ state' = [state EXCEPT ![d] = "InProgress"] /\ owner' = [owner EXCEPT ![d] = t]
          /\ dfs' = [dfs EXCEPT ![t] = more]
      BY <1>2 DEF BuildInternal
    <2> HIDE DEF more
    <2>4. dfs' \in [Threads -> Seq(Stores)] /\ dfs'[t] = more /\ \A q \in Threads \ {t} : dfs'[q] = dfs[q]
      BY <1>0, <2>2, <2>3, Zenon DEF CompTypeOK
    <2>5. PathOn(dfs[t])'
      BY <1>1, <2>2, <2>4 DEF PathOn
    <2>6. /\ state' \in [Stores -> {"Config", "InProgress"}]
          /\ owner' \in [Stores -> Threads \cup {NoThread}]
      BY <1>0, <2>3, Zenon DEF CompTypeOK
    <2>7. ASSUME NEW s \in Stores
          PROVE  /\ state'[s] = "Config" => owner'[s] = NoThread
                 /\ owner[s] # NoThread => owner'[s] = owner[s]
      BY <1>0, <1>2, <2>3, Zenon DEF CompTypeOK, BuilderInv
    <2> QED BY <2>4, <2>5, <2>6, <2>7
  <1>3. CASE state[d] # "Config"
    <2>1. UNCHANGED <<state, owner, dfs>>
      BY <1>3, Zenon DEF BuildInternal
    <2>2. PathOn(dfs[t])'
      BY <1>0, <1>1, <2>1 DEF ThreadInv, PathOn
    <2> QED BY <1>0, <2>1, <2>2 DEF CompTypeOK, BuilderInv
  <1> QED BY <1>2, <1>3

(* A build call begins.                                                    *)
LEMMA BuildInv ==
    ASSUME CompInv, NEW t \in Threads, Build(t)
    PROVE  CompInv'
  <1>0. CompTypeOK /\ ThreadInv(t) /\ UNCHANGED given /\ UNCHANGED <<watch, ans, results>>
    BY DEF CompInv, Build
  <1>1. /\ deps' = deps /\ work' = work /\ GivenOK'
    BY <1>0, GivenSame DEF CompTypeOK
  <1>2. dfs[t] = <<>> /\ Entrypoint(t) \in Stores /\ Len(results[t]) < Len(work[t])
    BY <1>0 DEF Build, ThreadInv, Entrypoint, CompTypeOK, GivenOK
  <1>3. /\ state' \in [Stores -> {"Config", "InProgress"}]
        /\ owner' \in [Stores -> Threads \cup {NoThread}]
        /\ dfs' \in [Threads -> Seq(Stores)]
        /\ PathOn(dfs[t])' /\ \A q \in Threads \ {t} : dfs'[q] = dfs[q]
        /\ \A s \in Stores : state'[s] = "Config" => owner'[s] = NoThread
    BY <1>0, <1>2, BuildInternalInv DEF Build
  <1>4. at' = [at EXCEPT ![t] = "building"]
    BY DEF Build
  <1>5. CompTypeOK'
    BY <1>0, <1>1, <1>3, <1>4 DEF CompTypeOK
  <1>6. ASSUME NEW q \in Threads PROVE ThreadInv(q)'
    <2>1. CASE q = t
      BY <1>0, <1>1, <1>2, <1>3, <1>4, <2>1, Zenon DEF ThreadInv, CompTypeOK
    <2>2. CASE q # t
      BY <1>0, <1>3, <1>4, <2>2, QuietThread DEF CompTypeOK
    <2> QED BY <2>1, <2>2, Zenon
  <1>7. \A s \in Stores : BuilderInv(s)'
    BY <1>0, <1>3, QuietBuilder
  <1> QED BY <1>0, <1>5, <1>6, <1>7, QuietWatch, Zenon DEF CompInv

(* A dependency is resolved.                                               *)
LEMMA ResolveInv ==
    ASSUME CompInv, NEW t \in Threads, Resolve(t)
    PROVE  CompInv'
  <1>0. CompTypeOK /\ ThreadInv(t) /\ UNCHANGED given /\ UNCHANGED <<watch, at, results>>
    BY DEF CompInv, Resolve
  <1>1. deps' = deps /\ work' = work /\ GivenOK' /\ \A u : Reach(u)' = Reach(u)
    BY <1>0, GivenSame, Zenon DEF CompTypeOK
  <1>2. dfs[t] \in Seq(Stores) /\ dfs[t] # <<>> /\ PathOn(dfs[t]) /\ at[t] = "building"
    BY <1>0 DEF CompTypeOK, Resolve, ThreadInv
  <1>3. PICK s \in Stores : s = Top(dfs[t])
    BY <1>2, Shortened, Zenon
  <1> DEFINE n == Len(ans[s]) + 1
             d == deps[s][n]
  <1>4. /\ ans[s] \in Seq({"Recursion", "NotFound", "channel"}) /\ deps[s] \in Seq(Named)
        /\ Len(ans[s]) < Len(deps[s]) /\ BuilderInv(s)
    BY <1>0, <1>2, <1>3 DEF CompTypeOK, GivenOK, CompInv, Resolve
  <1>5. n \in Nat /\ n >= 1 /\ n <= Len(deps[s]) /\ d \in Range(deps[s])
    BY <1>4 DEF Range
  <1>6. PICK a \in {"Recursion", "NotFound", "channel"} :
           /\ ans' = [ans EXCEPT ![s] = Append(@, a)]
           /\ a = "Recursion" => d \in Range(dfs[t]) /\ UNCHANGED <<state, owner, dfs>>
           /\ a = "NotFound" => UNCHANGED <<state, owner, dfs>>
           /\ a = "channel" => d \in Stores /\ BuildInternal(t, d)
    BY <1>3, Zenon DEF Resolve
  <1>7. a = "Recursion" => s \in Reach(s)
    BY <1>2, <1>5, <1>6, <1>3, FoundOnStack, Zenon
  <1>8. /\ state' \in [Stores -> {"Config", "InProgress"}]
        /\ owner' \in [Stores -> Threads \cup {NoThread}]
        /\ dfs' \in [Threads -> Seq(Stores)]
        /\ PathOn(dfs[t])' /\ \A q \in Threads \ {t} : dfs'[q] = dfs[q]
        /\ \A u \in Stores : state'[u] = "Config" => owner'[u] = NoThread
    <2>1. CASE a = "channel"
      BY <1>0, <1>2, <1>5, <1>6, <1>3, <2>1, BuildInternalInv, Zenon
    <2>2. CASE a # "channel"
      <3>1. UNCHANGED <<state, owner, dfs>>
        BY <1>6, <2>2, Zenon
      <3>2. PathOn(dfs[t])'
        BY <1>1, <1>2, <3>1, Zenon DEF PathOn
      <3> QED BY <1>0, <3>1, <3>2, Zenon DEF CompTypeOK, CompInv, BuilderInv
    <2> QED BY <2>1, <2>2, Zenon
  <1> DEFINE more == Append(ans[s], a)
  <1>9. /\ more \in Seq({"Recursion", "NotFound", "channel"}) /\ Len(more) = n
        /\ DOMAIN ans[s] = 1..(n - 1) /\ DOMAIN more = 1..n /\ more[n] = a
        /\ \A i \in 1..(n - 1) : more[i] = ans[s][i]
    BY <1>4, Pushed
  <1>10. ans'[s] = more /\ (\A u \in Stores \ {s} : ans'[u] = ans[u])
        /\ ans' \in [Stores -> Seq({"Recursion", "NotFound", "channel"})]
    BY <1>0, <1>2, <1>6, <1>9, Zenon DEF CompTypeOK
  <1>11. CompTypeOK'
    BY <1>0, <1>1, <1>8, <1>10, Zenon DEF CompTypeOK
  <1> HIDE DEF n, d, more
  <1>12. BuilderInv(s)'
    <2>1. a = "channel" => deps[s][n] \in Stores
      BY <1>6, Zenon DEF d
    <2>2. \A i \in DOMAIN more :
             /\ more[i] = "channel" => deps[s][i] \in Stores
             /\ more[i] = "Recursion" => s \in Reach(s)
      BY <1>4, <1>5, <1>7, <1>9, <2>1 DEF BuilderInv
    <2>3. state'[s] = "Config" => owner'[s] = NoThread
      BY <1>8
    <2>4. Len(ans'[s]) <= Len(deps'[s])
      BY <1>1, <1>5, <1>9, <1>10, Zenon
    <2>5. \A i \in DOMAIN ans'[s] :
             /\ ans'[s][i] = "channel" => deps'[s][i] \in Stores
             /\ ans'[s][i] = "Recursion" => s \in Reach(s)'
      BY <1>1, <1>10, <2>2, Zenon
    <2> QED BY <2>3, <2>4, <2>5, Zenon DEF BuilderInv
  <1>13. ASSUME NEW u \in Stores PROVE BuilderInv(u)'
    BY <1>0, <1>8, <1>10, <1>12, QuietBuilder, Zenon
  <1>14. ASSUME NEW q \in Threads PROVE ThreadInv(q)'
    <2>1. CASE q = t
      BY <1>0, <1>1, <1>2, <1>8, <2>1, Zenon DEF ThreadInv
    <2>2. CASE q # t
      BY <1>0, <1>8, <2>2, QuietThread, Zenon
    <2> QED BY <2>1, <2>2
  <1> QED BY <1>0, <1>11, <1>13, <1>14, QuietWatch, Zenon DEF CompInv

(* The first poll of a builder ends.                                       *)
LEMMA PolledInv ==
    ASSUME CompInv, NEW t \in Threads, Polled(t)
    PROVE  CompInv'
  <1> DEFINE below == Below(dfs[t])
  <1>0. CompTypeOK /\ ThreadInv(t) /\ UNCHANGED given /\ UNCHANGED <<state, watch, ans, owner, at, results>>
    BY Zenon DEF CompInv, Polled
  <1>1. deps' = deps /\ work' = work /\ GivenOK' /\ \A u : Reach(u)' = Reach(u)
    BY <1>0, GivenSame, Zenon DEF CompTypeOK
  <1>2. dfs[t] \in Seq(Stores) /\ PathOn(dfs[t]) /\ dfs[t] # <<>> /\ at[t] = "building"
    BY <1>0, Zenon DEF CompTypeOK, ThreadInv, Polled
  <1>3. below \in Seq(Stores) /\ PathOn(below)
    BY <1>2, Shortened, PopKeepsPath, Zenon
  <1>4. dfs' = [dfs EXCEPT ![t] = below]
    BY Zenon DEF Polled
  <1> HIDE DEF below
  <1>5. CompTypeOK'
    BY <1>0, <1>1, <1>3, <1>4, Zenon DEF CompTypeOK
  <1>6. PathOn(dfs[t])'
    BY <1>0, <1>1, <1>3, <1>4, Zenon DEF CompTypeOK, PathOn
  <1>7. ASSUME NEW q \in Threads PROVE ThreadInv(q)'
    <2>1. CASE q = t
      BY <1>0, <1>1, <1>2, <1>6, <2>1 DEF ThreadInv
    <2>2. CASE q # t
      BY <1>0, <1>4, <2>2, QuietThread, Zenon DEF CompTypeOK
    <2> QED BY <2>1, <2>2
  <1>8. \A s \in Stores : BuilderInv(s)'
    BY <1>0, QuietBuilder, Zenon DEF CompInv, BuilderInv
  <1> QED BY <1>0, <1>5, <1>7, <1>8, QuietWatch, Zenon DEF CompInv

(* A build call ends: with a result, dropped, or by a panic.               *)
LEMMA ReturnInv ==
    ASSUME CompInv, NEW t \in Threads, Return(t) \/ DropBuild(t) \/ WaiterPanics(t)
    PROVE  CompInv'
  <1>0. /\ CompTypeOK /\ ThreadInv(t) /\ UNCHANGED given /\ UNCHANGED <<state, watch, ans, owner, dfs>>
        /\ at[t] = "building" /\ dfs[t] = <<>>
    BY DEF CompInv, Return, DropBuild, WaiterPanics
  <1>1. deps' = deps /\ work' = work /\ GivenOK' /\ \A u : Reach(u)' = Reach(u)
    BY <1>0, GivenSame, Zenon DEF CompTypeOK
  <1>2. /\ at' \in [Threads -> {"idle", "building", "done", "cancelled", "panicked"}]
        /\ results' \in [Threads -> Seq(Results)]
        /\ \A q \in Threads \ {t} : at'[q] = at[q] /\ results'[q] = results[q]
        /\ at'[t] # "building"
        /\ at'[t] = "idle" => Len(results'[t]) < Len(work[t])
    <2>1. CASE Return(t)
      <3> DEFINE r == watch[Entrypoint(t)]
                 more == Append(results[t], r)
      <3>1. /\ results[t] \in Seq(Results) /\ work[t] \in Seq(Stores)
            /\ Len(results[t]) < Len(work[t])
        BY <1>0, Zenon DEF CompTypeOK, GivenOK, ThreadInv
      <3>2. Entrypoint(t) \in Stores /\ r \in Results
        <4>1. Entrypoint(t) \in Stores
          BY <3>1 DEF Entrypoint
        <4> QED BY <1>0, <2>1, <4>1, Zenon DEF Return, CompTypeOK
      <3>3. results' = [results EXCEPT ![t] = more]
        BY <2>1, Zenon DEF Return
      <3>4. more \in Seq(Results) /\ Len(more) = Len(results[t]) + 1
        BY <3>1, <3>2, Pushed
      <3> HIDE DEF r, more
      <3>5. /\ results' \in [Threads -> Seq(Results)] /\ results'[t] = more
            /\ \A q \in Threads \ {t} : results'[q] = results[q]
        BY <1>0, <3>3, <3>4, Zenon DEF CompTypeOK
      <3>6. /\ at' \in [Threads -> {"idle", "building", "done", "cancelled", "panicked"}]
            /\ \A q \in Threads \ {t} : at'[q] = at[q]
            /\ at'[t] \in {"idle", "done"} /\ (at'[t] = "idle" => Len(more) # Len(work[t]))
        BY <1>0, <2>1, <3>5, Zenon DEF CompTypeOK, Return
      <3> QED BY <3>1, <3>4, <3>5, <3>6
    <2>2. CASE DropBuild(t) \/ WaiterPanics(t)
      BY <1>0, <2>2, Zenon DEF CompTypeOK, DropBuild, WaiterPanics
    <2> QED BY <2>1, <2>2, Zenon
  <1>3. CompTypeOK'
    BY <1>0, <1>1, <1>2 DEF CompTypeOK
  <1>4. ASSUME NEW q \in Threads PROVE ThreadInv(q)'
    <2>1. CASE q = t
      <3>1. PathOn(dfs[t])'
        BY <1>0, <1>1, Zenon DEF PathOn, ThreadInv
      <3> QED BY <1>0, <1>1, <1>2, <2>1, <3>1 DEF ThreadInv
    <2>2. CASE q # t
      BY <1>0, <1>2, <2>2, QuietThread, Zenon
    <2> QED BY <2>1, <2>2
  <1>5. \A s \in Stores : BuilderInv(s)'
    BY <1>0, QuietBuilder, Zenon DEF CompInv, BuilderInv
  <1> QED BY <1>0, <1>3, <1>4, <1>5, QuietWatch, Zenon DEF CompInv

(* A builder sends its result: an instance if all its dependencies are     *)
(* instances, which cannot lead back to it, else the first of their errors.*)
LEMMA BuilderReturnsInv ==
    ASSUME CompInv, NEW s \in Stores, BuilderReturns(s)
    PROVE  CompInv'
  <1>0. /\ CompTypeOK /\ UNCHANGED given /\ UNCHANGED <<state, ans, owner, dfs, at, results>>
        /\ BuilderInv(s) /\ watch[s] = "none" /\ Len(ans[s]) = Len(deps[s])
    BY DEF CompInv, BuilderReturns, Explored, Live
  <1>1. deps' = deps /\ work' = work /\ GivenOK' /\ \A u : Reach(u)' = Reach(u)
    BY <1>0, GivenSame, Zenon DEF CompTypeOK
  <1>2. /\ ans[s] \in Seq({"Recursion", "NotFound", "channel"}) /\ deps[s] \in Seq(Named)
        /\ DOMAIN ans[s] = DOMAIN deps[s]
    BY <1>0 DEF CompTypeOK, GivenOK
  <1>3. PICK r \in Results :
           /\ \/ r \in {"ok", "Failed"} /\ \A i \in DOMAIN ans[s] : Answers(s)[i] = "ok"
              \/ \E i \in DOMAIN ans[s] : Answers(s)[i] # "ok" /\ r = Answers(s)[i]
           /\ watch' = [watch EXCEPT ![s] = r]
    BY Zenon DEF BuilderReturns
  <1>4. \A i \in DOMAIN ans[s] :
           \/ ans[s][i] = "channel" /\ Answers(s)[i] = watch[deps[s][i]]
           \/ ans[s][i] \in {"Recursion", "NotFound"} /\ Answers(s)[i] = ans[s][i]
    BY <1>2 DEF Answers
  <1>5. CompTypeOK'
    BY <1>0, <1>1, <1>3, Zenon DEF CompTypeOK
  <1>6. \A q \in Threads : ThreadInv(q)'
    BY <1>0, QuietThread, Zenon
  <1>7. \A u \in Stores : BuilderInv(u)'
    BY <1>0, QuietBuilder, Zenon DEF CompInv, BuilderInv
  <1>8. /\ watch'[s] = r /\ \A u \in Stores \ {s} : watch'[u] = watch[u]
    BY <1>0, <1>3, Zenon DEF CompTypeOK
  <1>9. s \notin Instances /\ Instances \subseteq Instances'
    BY <1>0, <1>8, Zenon DEF Instances
  <1>10. ClosedUnderDeps(Instances)
    BY DEF CompInv, InstanceInv, Instances, ClosedUnderDeps
  <1>11. ASSUME NEW u \in Stores PROVE InstanceInv(u)'
    <2>1. CASE u # s
      BY <1>1, <1>8, <1>9, <2>1, Zenon DEF InstanceInv, CompInv
    <2>2. CASE u = s /\ r = "ok"
      <3>1. \A i \in DOMAIN ans[s] : Answers(s)[i] = "ok"
        BY <1>3, <2>2, Zenon
      <3>2. Range(deps[s]) \subseteq Instances
        BY <1>0, <1>2, <1>4, <3>1 DEF Range, Instances, BuilderInv
      <3>3. s \notin Reach(s)
        BY <1>9, <1>10, <3>2, ReachLeast, Zenon
      <3> QED BY <1>1, <1>9, <2>2, <3>2, <3>3, Zenon DEF InstanceInv
    <2>3. CASE u = s /\ r # "ok"
      BY <1>8, <2>3 DEF InstanceInv
    <2> QED BY <2>1, <2>2, <2>3, Zenon
  <1>12. ASSUME NEW u \in Stores, watch'[u] = "Recursion" PROVE Cyclic(u)'
    <2>1. Cyclic(u)
      <3>1. CASE u # s
        BY <1>8, <1>12, <3>1, Zenon DEF CompInv
      <3>2. CASE u = s
        <4>1. PICK i \in DOMAIN ans[s] : Answers(s)[i] = "Recursion"
          BY <1>3, <1>8, <1>12, <3>2, Zenon
        <4>2. CASE ans[s][i] = "Recursion"
          BY <1>0, <3>2, <4>2, Zenon DEF BuilderInv, Cyclic
        <4>3. CASE ans[s][i] = "channel" /\ watch[deps[s][i]] = "Recursion"
          <5>1. deps[s][i] \in Stores /\ deps[s][i] \in Reach(s)
            BY <1>0, <1>2, <4>3, ReachDirect, Zenon DEF BuilderInv, Range
          <5>2. Cyclic(deps[s][i])
            BY <4>3, <5>1, Zenon DEF CompInv
          <5> QED BY <3>2, <5>1, <5>2, ReachTransitive, Zenon DEF Cyclic
        <4> QED BY <1>4, <4>1, <4>2, <4>3, Zenon
      <3> QED BY <3>1, <3>2, Zenon
    <2> QED BY <1>1, <2>1 DEF Cyclic
  <1> QED BY <1>5, <1>6, <1>7, <1>11, <1>12, Zenon DEF CompInv

-----------------------------------------------------------------------------
(* Nothing is built at first.                                              *)
LEMMA InitCompInv == CompInit => CompInv
  <1> SUFFICES ASSUME CompInit PROVE CompInv
    BY Zenon
  <1>1. PICK sc \in Scenarios : deps = sc.deps /\ work = sc.work /\ drops = sc.drops
    BY Zenon DEF CompInit
  <1>2. GivenOK
    BY <1>1, ScenariosAssumption DEF GivenOK, Named
  <1>3. /\ state = [s \in Stores |-> "Config"] /\ watch = [s \in Stores |-> "none"]
        /\ ans = [s \in Stores |-> <<>>] /\ owner = [s \in Stores |-> NoThread]
        /\ dfs = [t \in Threads |-> <<>>] /\ results = [t \in Threads |-> <<>>]
        /\ at = [t \in Threads |-> IF work[t] = <<>> THEN "done" ELSE "idle"]
    BY DEF CompInit
  <1>4. \A S : <<>> \in Seq(S)
    OBVIOUS
  <1>5. DOMAIN <<>> = {} /\ Len(<<>>) = 0
    OBVIOUS
  <1>6. CompTypeOK
    BY <1>2, <1>3, <1>4, Zenon DEF CompTypeOK
  <1>7. ASSUME NEW t \in Threads PROVE ThreadInv(t)
    <2>1. work[t] \in Seq(Stores) /\ dfs[t] = <<>> /\ results[t] = <<>>
      BY <1>2, <1>3 DEF GivenOK
    <2>2. at[t] = IF work[t] = <<>> THEN "done" ELSE "idle"
      BY <1>3
    <2>3. work[t] # <<>> => Len(work[t]) > 0
      BY <2>1
    <2>4. PathOn(dfs[t])
      BY <1>5, <2>1, Zenon DEF PathOn
    <2> QED BY <1>5, <2>1, <2>2, <2>3, <2>4, Zenon DEF ThreadInv
  <1>8. ASSUME NEW s \in Stores PROVE BuilderInv(s)
    <2>1. deps[s] \in Seq(Named) /\ ans[s] = <<>> /\ owner[s] = NoThread
      BY <1>2, <1>3, Zenon DEF GivenOK
    <2>2. Len(deps[s]) >= 0
      BY <2>1
    <2> QED BY <1>5, <2>1, <2>2 DEF BuilderInv
  <1> QED BY <1>3, <1>6, <1>7, <1>8 DEF CompInv, InstanceInv

(* CompInv is inductive: one case per action.                              *)
LEMMA NextCompInv == CompInv /\ [CompNext]_compVars => CompInv'
  <1> SUFFICES ASSUME CompInv, [CompNext]_compVars PROVE CompInv'
    BY Zenon
  <1>1. ASSUME NEW t \in Threads, ThreadStep(t) \/ DropBuild(t) PROVE CompInv'
    BY <1>1, BuildInv, ResolveInv, PolledInv, ReturnInv, Zenon DEF ThreadStep
  <1>2. ASSUME NEW s \in Stores, BuilderReturns(s) PROVE CompInv'
    BY <1>2, BuilderReturnsInv, Zenon
  <1>3. CASE UNCHANGED compVars
    <2>1. UNCHANGED given /\ UNCHANGED <<state, watch, ans, owner, dfs, at, results>>
      BY <1>3, Zenon DEF compVars
    <2>2. CompTypeOK'
      BY <2>1, GivenSame, Zenon DEF CompInv, CompTypeOK
    <2>3. \A q \in Threads : ThreadInv(q)'
      BY <2>1, QuietThread, Zenon
    <2>4. \A u \in Stores : BuilderInv(u)'
      BY <2>1, QuietBuilder, Zenon DEF CompInv, BuilderInv
    <2> QED BY <2>1, <2>2, <2>3, <2>4, QuietWatch, Zenon DEF CompInv
  <1> QED BY <1>1, <1>2, <1>3 DEF CompNext

(* A store keeps its builder, its result and what its builder learned.     *)
Kept(s) == /\ owner[s] # NoThread => owner'[s] = owner[s]
           /\ watch[s] # "none" => watch'[s] = watch[s]
           /\ Continues(ans[s], ans'[s])

(* No step gives a store a second builder or a second result.              *)
LEMMA StepKeeps ==
    ASSUME CompInv, CompNext, NEW s \in Stores
    PROVE  Kept(s)
  <1>0. CompTypeOK
    BY Zenon DEF CompInv
  <1>1. ans[s] \in Seq({"Recursion", "NotFound", "channel"})
    BY <1>0 DEF CompTypeOK
  <1>2. \A a \in {"Recursion", "NotFound", "channel"} : Continues(ans[s], ans[s]) /\ Continues(ans[s], Append(ans[s], a))
    BY <1>1, PrefixAppend
  <1>3. Continues(ans[s], ans[s])
    BY <1>2, Zenon
  <1>4. ASSUME NEW t \in Threads, Build(t) PROVE Kept(s)
    <2>1. dfs[t] = <<>> /\ Entrypoint(t) \in Stores
      <3>1. ThreadInv(t) /\ at[t] = "idle"
        BY <1>4, Zenon DEF CompInv, Build
      <3> QED BY <1>0, <3>1 DEF ThreadInv, Entrypoint, CompTypeOK, GivenOK
    <2>2. owner[s] # NoThread => owner'[s] = owner[s]
      BY <1>4, <2>1, BuildInternalInv, Zenon DEF Build
    <2> QED BY <1>3, <1>4, <2>2, Zenon DEF Build, Kept
  <1>5. ASSUME NEW t \in Threads, Resolve(t) PROVE Kept(s)
    <2>1. watch' = watch /\ UNCHANGED given
      BY <1>5, Zenon DEF Resolve
    <2>2. dfs[t] \in Seq(Stores) /\ dfs[t] # <<>>
      BY <1>0, <1>5, Zenon DEF Resolve, CompTypeOK
    <2>3. PICK u \in Stores : u = Top(dfs[t])
      BY <2>2, Shortened, Zenon
    <2>4. PICK a \in {"Recursion", "NotFound", "channel"} :
             /\ ans' = [ans EXCEPT ![u] = Append(@, a)]
             /\ \/ UNCHANGED owner
                \/ deps[u][Len(ans[u]) + 1] \in Stores /\ BuildInternal(t, deps[u][Len(ans[u]) + 1])
      BY <1>5, <2>3, Zenon DEF Resolve
    <2>5. Continues(ans[s], ans'[s])
      <3>1. ans'[s] = ans[s] \/ ans'[s] = Append(ans[s], a)
        BY <1>0, <2>4, Zenon DEF CompTypeOK
      <3> QED BY <1>2, <3>1, Zenon
    <2>6. deps[u][Len(ans[u]) + 1] \in Range(deps[u])
      <3>1. ans[u] \in Seq({"Recursion", "NotFound", "channel"}) /\ deps[u] \in Seq(Named)
        BY <1>0, Zenon DEF CompTypeOK, GivenOK
      <3>2. Len(ans[u]) < Len(deps[u])
        BY <1>5, <2>3, Zenon DEF Resolve
      <3>3. PICK n \in Nat : n = Len(ans[u])
        BY <3>1
      <3>4. n + 1 \in DOMAIN deps[u]
        BY <3>1, <3>2, <3>3
      <3> QED BY <3>3, <3>4, Zenon DEF Range
    <2>7. owner[s] # NoThread => owner'[s] = owner[s]
      BY <2>1, <2>3, <2>4, <2>6, BuildInternalInv, Zenon
    <2> QED BY <2>1, <2>5, <2>7, Zenon DEF Kept
  <1>6. ASSUME NEW t \in Threads, Polled(t) \/ Return(t) \/ WaiterPanics(t) \/ DropBuild(t) PROVE Kept(s)
    BY <1>3, <1>6, Zenon DEF Polled, Return, WaiterPanics, DropBuild, Kept
  <1>7. ASSUME NEW u \in Stores, BuilderReturns(u) PROVE Kept(s)
    <2>1. /\ UNCHANGED <<ans, owner>> /\ watch[u] = "none"
          /\ \E r \in Results : watch' = [watch EXCEPT ![u] = r]
      BY <1>7, Zenon DEF BuilderReturns, Explored, Live
    <2>2. watch[s] # "none" => watch'[s] = watch[s]
      BY <1>0, <2>1 DEF CompTypeOK
    <2> QED BY <1>3, <2>1, <2>2, Zenon DEF Kept
  <1> QED BY <1>4, <1>5, <1>6, <1>7, Zenon DEF CompNext, ThreadStep

(* Every reachable state satisfies the inductive invariant.                *)
THEOREM CompInvariance == CompSpec => []CompInv
  BY InitCompInv, NextCompInv, PTL DEF CompSpec

(* Whatever the configuration and the threads that build it: no store is   *)
(* built twice, an instance is made only from instances and its            *)
(* configuration has no cycle, and recursion is reported only of a cycle.  *)
THEOREM CompositionCorrect == CompSpec => InstancesShared
  <1>1. CompInv => InstanceComplete
    <2> SUFFICES ASSUME CompInv, NEW s \in Stores, watch[s] = "ok"
                 PROVE  s \notin Reach(s) /\ \A d \in Reach(s) : d \in Stores /\ watch[d] = "ok"
      BY DEF InstanceComplete
    <2>1. ClosedUnderDeps(Instances)
      BY DEF CompInv, InstanceInv, Instances, ClosedUnderDeps
    <2>2. Range(deps[s]) \subseteq Instances /\ s \notin Reach(s)
      BY Zenon DEF CompInv, InstanceInv
    <2>3. Reach(s) \subseteq Instances
      BY <2>1, <2>2, ReachLeast
    <2> QED BY <2>2, <2>3 DEF Instances
  <1>2. CompInv => RecursionIsReal
    BY Zenon DEF CompInv, Cyclic, RecursionIsReal
  <1>3. CompInv /\ [CompNext]_compVars =>
          [\A s \in Stores : owner[s] # NoThread =>
                   owner'[s] = owner[s] /\ (watch[s] # "none" => watch'[s] = watch[s])
                   /\ Continues(ans[s], ans'[s])]_compVars
    BY StepKeeps, Zenon DEF Kept
  <1> QED BY <1>1, <1>2, <1>3, CompInvariance, PTL DEF CompSpec, InstancesShared, BuiltOnce

-----------------------------------------------------------------------------
(* The ingestion.                                                          *)
Upload == [path : DirPaths, children : SUBSET Paths]

NarTypeOK ==
    /\ inbox \in Seq(Paths \cup {Error})
    /\ uploaded \in Seq(Upload)
    /\ cpc \in {"running", "draining", "closing", "ok", "error", "panicked"}
    /\ order \in Orders /\ pos \in 1..Len(order)
    /\ ppc \in {"produce", "upload", "send", "join", "report", "finish", "done", "cancelled", "hung"}
    /\ ppc = "upload" => order[pos] \in Files
    /\ res \in {"none", "ok", "error"}
    /\ tasks \in [Files -> {"none", "running", "done", "failed", "aborted"}]
    /\ blobs \in SUBSET Files

(* What the consumer has after the first n entries.                        *)
Taken(n) == {order[i] : i \in 1..n}

Recorded(n, q) == {p \in Taken(n) \ {Root} : Parent[p] = q}

Awaited(n) == {Parent[p] : p \in Taken(n) \ {Root}} \ Taken(n)

ConsumedInv(n) ==
    /\ directories = [q \in Awaited(n) |-> Recorded(n, q)]
    /\ {uploaded[i].path : i \in DOMAIN uploaded} = Taken(n) \cap DirPaths
    /\ PutLeavesFirst

(* Which entry comes next, and the one that ends the stream: it is sent    *)
(* when all blobs are stored.                                              *)
Stored == Files \subseteq blobs

ChannelInv(n) ==
    /\ cpc = "running" =>
          \/ inbox = <<>> /\ n = pos - 1 /\ ppc # "done"
          \/ inbox = <<Error>> /\ n = pos - 1 /\ ppc \in {"finish", "done"}
          \/ inbox = <<order[pos - 1]>> /\ n = pos - 2 /\ ppc # "done"
          \/ inbox = <<order[pos]>> /\ n = pos - 1 /\ pos = Len(order) /\ ppc = "done" /\ Stored
    /\ cpc \in {"draining", "closing", "ok"} => n = Len(order) /\ Stored

(* Where the blobs of the entries produced so far are.                     *)
ProducedTo(i) == i < pos \/ (i = pos /\ (ppc = "send" \/ res = "ok"))

Unfinished(p) == tasks[p] \in {"running", "failed", "aborted"}

UploadsInv ==
    /\ res = "ok" => pos = Len(order)
    /\ ppc \in {"produce", "upload", "send"} => res # "ok"
    /\ ppc = "send" => pos < Len(order)
    /\ \A i \in 1..Len(order) : ProducedTo(i) /\ order[i] \in Files =>
          order[i] \in blobs \/ Unfinished(order[i])
    /\ ppc \in {"produce", "upload", "send", "join"} => \A p \in Files : tasks[p] # "aborted"
    /\ ppc = "finish" /\ cpc = "running" /\ inbox # <<Error>> =>
          \A p \in Files : ~ Unfinished(p)

IngestInv ==
    /\ NarTypeOK
    /\ UploadsInv
    /\ \E n \in 0..Len(order) : ConsumedInv(n) /\ ChannelInv(n)
    /\ cpc = "ok" => persisted = TRUE

-----------------------------------------------------------------------------
(* An order names every path once, parents after their children and hence  *)
(* the root last.                                                          *)
LEMMA OrderFacts ==
    ASSUME NEW o \in Orders
    PROVE  /\ Len(o) \in Nat /\ Len(o) >= 1 /\ DOMAIN o = 1..Len(o)
           /\ \A i \in 1..Len(o) : o[i] \in Paths
           /\ \A i, j \in 1..Len(o) : o[i] = o[j] => i = j
           /\ \A p \in Paths : \E i \in 1..Len(o) : o[i] = p
           /\ \A i, j \in 1..Len(o) : o[j] # Root /\ Parent[o[j]] = o[i] => j < i
           /\ o[Len(o)] = Root
  <1> DEFINE n == Len(o)
  <1>1. /\ o \in Seq(Paths) /\ Range(o) = Paths
        /\ \A i, j \in DOMAIN o : o[i] = o[j] => i = j
        /\ \A i, j \in DOMAIN o : o[j] # Root /\ Parent[o[j]] = o[i] => j < i
    BY OrderAssumption
  <1>2. n \in Nat /\ DOMAIN o = 1..n /\ \A i \in 1..n : o[i] \in Paths
    BY <1>1
  <1>3. \A p \in Paths : \E i \in 1..n : o[i] = p
    BY <1>1, <1>2 DEF Range
  <1> HIDE DEF n
  <1>4. n >= 1
    BY <1>2, <1>3, TreeAssumption
  <1>5. o[n] = Root
    <2> SUFFICES ASSUME o[n] # Root PROVE FALSE
      OBVIOUS
    <2>1. n \in 1..n /\ o[n] \in Paths \ {Root}
      BY <1>2, <1>4
    <2>2. Parent[o[n]] \in Paths
      BY <2>1, TreeAssumption, Zenon
    <2>3. PICK i \in 1..n : o[i] = Parent[o[n]]
      BY <1>3, <2>2
    <2> QED BY <1>1, <1>2, <2>1, <2>3
  <1> QED BY <1>1, <1>2, <1>3, <1>4, <1>5, Zenon DEF n

(* One more element at the end of a sequence.                              *)
LEMMA Appended ==
    ASSUME NEW S, NEW s \in Seq(S), NEW e \in S
    PROVE  /\ Append(s, e) \in Seq(S) /\ Len(s) \in Nat
           /\ DOMAIN s = 1..Len(s) /\ DOMAIN Append(s, e) = 1..(Len(s) + 1)
           /\ Append(s, e)[Len(s) + 1] = e
           /\ \A i \in 1..Len(s) : Append(s, e)[i] = s[i]
           /\ Append(s, e) # <<>> /\ Append(s, e)[Len(Append(s, e))] = e
  OBVIOUS

(* The next entry: all its children were taken, and its parent was not.    *)
LEMMA NextEntry ==
    ASSUME NarTypeOK, NEW n \in Nat, n < Len(order), NEW p, p = order[n + 1]
    PROVE  /\ p \in Paths /\ p \notin Taken(n) /\ Taken(n + 1) = Taken(n) \cup {p}
           /\ Taken(n) \subseteq Paths /\ Children(p) = Recorded(n, p)
           /\ p # Root => Parent[p] \in DirPaths /\ Parent[p] \notin Taken(n + 1)
           /\ n + 1 = Len(order) <=> p = Root
  <1> DEFINE N == Len(order)
  <1>1. /\ N \in Nat /\ n + 1 \in 1..N /\ \A i \in 1..N : order[i] \in Paths
        /\ \A i, j \in 1..N : order[i] = order[j] => i = j
        /\ \A q \in Paths : \E i \in 1..N : order[i] = q
        /\ \A i, j \in 1..N : order[j] # Root /\ Parent[order[j]] = order[i] => j < i
        /\ order[N] = Root
    BY OrderFacts DEF NarTypeOK
  <1> HIDE DEF N
  <1>2. n < N /\ 1..n \subseteq 1..N /\ 1..(n + 1) = 1..n \cup {n + 1}
    BY <1>1 DEF N
  <1>3. p \in Paths /\ Taken(n) \subseteq Paths /\ Taken(n + 1) = Taken(n) \cup {p}
    BY <1>1, <1>2 DEF Taken
  <1>4. p \notin Taken(n)
    BY <1>1, <1>2 DEF Taken
  <1>5. ASSUME NEW c \in Children(p) PROVE c \in Taken(n) \ {Root} /\ Parent[c] = p
    <2>1. c \in Paths \ {Root} /\ Parent[c] = p
      BY Zenon DEF Children
    <2>2. PICK j \in 1..N : order[j] = c
      BY <1>1, <2>1, Zenon
    <2>3. j < n + 1
      BY <1>1, <2>1, <2>2
    <2>4. j \in 1..n
      BY <1>1, <2>3
    <2> QED BY <2>1, <2>2, <2>4, Zenon DEF Taken
  <1>6. Children(p) = Recorded(n, p)
    BY <1>3, <1>5, Zenon DEF Recorded, Children
  <1>7. ASSUME p # Root PROVE Parent[p] \in DirPaths /\ Parent[p] \notin Taken(n + 1)
    <2>1. Parent[p] \in DirPaths
      BY <1>3, <1>7, TreeAssumption
    <2>2. ASSUME NEW i \in 1..(n + 1), order[i] = Parent[p] PROVE FALSE
      <3>1. i \in 1..N
        BY <1>1, <1>2, Zenon
      <3>2. n + 1 < i
        BY <1>1, <1>7, <2>2, <3>1, Zenon
      <3> QED BY <1>2, <3>2
    <2> QED BY <2>1, <2>2, Zenon DEF Taken
  <1>8. n + 1 = N <=> p = Root
    <2>1. N \in 1..N
      BY <1>1
    <2> QED BY <1>1, <2>1, Zenon
  <1> QED BY <1>3, <1>4, <1>6, <1>7, <1>8, Zenon DEF N

-----------------------------------------------------------------------------
(* Taking entry n + 1 files it in its parent, which is still awaited, and  *)
(* no longer awaits the entry itself.                                      *)
LEMMA ConsumedDirectories ==
    ASSUME NarTypeOK, NEW n \in Nat, n < Len(order), ConsumedInv(n),
           NEW p, p = order[n + 1], Head(inbox) = p, Consume
    PROVE  /\ directories' = [q \in Awaited(n + 1) |-> Recorded(n + 1, q)]
           /\ Partial(p) = Children(p)
  <1>1. /\ p \in Paths /\ p \notin Taken(n) /\ Taken(n + 1) = Taken(n) \cup {p}
        /\ Taken(n) \subseteq Paths /\ Children(p) = Recorded(n, p)
        /\ p # Root => Parent[p] \in DirPaths /\ Parent[p] \notin Taken(n + 1)
    BY NextEntry, Zenon
  <1>2. directories = [q \in Awaited(n) |-> Recorded(n, q)]
    BY DEF ConsumedInv
  <1>3. DOMAIN directories = Awaited(n) /\ \A q \in Awaited(n) : directories[q] = Recorded(n, q)
    BY <1>2, Zenon
  <1>4. ASSUME NEW q, q \notin Awaited(n), q \notin Taken(n) PROVE Recorded(n, q) = {}
    BY <1>4 DEF Awaited, Recorded
  <1>5. Partial(p) = Children(p)
    <2>1. CASE p \in Awaited(n)
      BY <1>1, <1>3, <2>1, Zenon DEF Partial
    <2>2. CASE p \notin Awaited(n)
      BY <1>1, <1>3, <1>4, <2>2, Zenon DEF Partial
    <2> QED BY <2>1, <2>2, Zenon
  <1>6. Awaited(n) \subseteq DirPaths
    BY <1>1, TreeAssumption, Zenon DEF Awaited
  <1> DEFINE dirs == IF p \in DirPaths THEN Without(p) ELSE directories
             rest == Awaited(n) \ {p}
  <1>7. dirs = [q \in rest |-> Recorded(n, q)]
    <2>1. CASE p \in DirPaths
      BY <1>3, <2>1, Zenon DEF Without
    <2>2. CASE p \notin DirPaths
      <3>1. rest = Awaited(n)
        BY <1>6, <2>2, Zenon
      <3> QED BY <1>2, <2>2, <3>1, Zenon
    <2> QED BY <2>1, <2>2, Zenon
  <1>8. DOMAIN dirs = rest /\ \A q \in rest : dirs[q] = Recorded(n, q)
    BY <1>7, Zenon
  <1>9. IF p = Root THEN directories' = dirs ELSE directories' = Record(dirs, p)
    BY Zenon DEF Consume
  <1> HIDE DEF dirs
  <1>10. CASE p = Root
    <2>1. Awaited(n + 1) = rest
      BY <1>1, <1>10, Zenon DEF Awaited
    <2>2. \A q : Recorded(n + 1, q) = Recorded(n, q)
      BY <1>1, <1>10, Zenon DEF Recorded
    <2>3. directories' = [q \in rest |-> Recorded(n, q)]
      BY <1>7, <1>9, <1>10, Zenon
    <2>4. [q \in Awaited(n + 1) |-> Recorded(n + 1, q)] = [q \in rest |-> Recorded(n, q)]
      BY <2>1, <2>2, Zenon
    <2> QED BY <1>5, <2>3, <2>4, Zenon
  <1>11. CASE p # Root
    <2> DEFINE new == Recorded(n, Parent[p]) \cup {p}
    <2>1. Awaited(n + 1) = rest \cup {Parent[p]}
      BY <1>1, <1>11, Zenon DEF Awaited
    <2>2. \A q : q # Parent[p] => Recorded(n + 1, q) = Recorded(n, q)
      BY <1>1, <1>11, Zenon DEF Recorded
    <2>3. Recorded(n + 1, Parent[p]) = new
      BY <1>1, <1>11, Zenon DEF Recorded
    <2>4. Parent[p] \notin rest => Recorded(n, Parent[p]) = {}
      BY <1>1, <1>4, <1>11, Zenon
    <2>5. directories' = [q \in rest \cup {Parent[p]} |->
            IF q # Parent[p] THEN dirs[q] ELSE IF q \in rest THEN dirs[q] \cup {p} ELSE {p}]
      BY <1>8, <1>9, <1>11 DEF Record
    <2>6. ASSUME NEW q \in rest \cup {Parent[p]}
          PROVE  (IF q # Parent[p] THEN dirs[q] ELSE IF q \in rest THEN dirs[q] \cup {p} ELSE {p})
                    = Recorded(n + 1, q)
      BY <1>8, <2>2, <2>3, <2>4, Zenon
    <2>7. directories' = [q \in rest \cup {Parent[p]} |-> Recorded(n + 1, q)]
      BY <2>5, <2>6, Zenon
    <2> QED BY <1>5, <2>1, <2>7, Zenon
  <1> QED BY <1>10, <1>11, Zenon

(* ... and if it is a directory puts it, after the directories in it.      *)
LEMMA ConsumedUploads ==
    ASSUME NarTypeOK, NEW n \in Nat, n < Len(order), ConsumedInv(n),
           NEW p, p = order[n + 1], Head(inbox) = p, Consume
    PROVE  /\ uploaded' \in Seq(Upload)
           /\ {uploaded'[i].path : i \in DOMAIN uploaded'} = Taken(n + 1) \cap DirPaths
           /\ PutLeavesFirst'
  <1>1. /\ p \in Paths /\ p \notin Taken(n) /\ Taken(n + 1) = Taken(n) \cup {p}
        /\ Taken(n) \subseteq Paths /\ Children(p) = Recorded(n, p)
    BY NextEntry, Zenon
  <1>2. Partial(p) = Children(p)
    BY ConsumedDirectories, Zenon
  <1>3. {uploaded[i].path : i \in DOMAIN uploaded} = Taken(n) \cap DirPaths /\ PutLeavesFirst
    BY Zenon DEF ConsumedInv
  <1>4. uploaded \in Seq(Upload)
    BY Zenon DEF NarTypeOK
  <1>5. CASE p \notin DirPaths
    <2>1. uploaded' = uploaded
      BY <1>5, Zenon DEF Consume
    <2> QED BY <1>1, <1>3, <1>4, <1>5, <2>1 DEF PutLeavesFirst
  <1>6. CASE p \in DirPaths
    <2> DEFINE u == [path |-> p, children |-> Children(p)]
               m == Len(uploaded)
    <2>1. u \in Upload /\ u.path = p /\ u.children = Children(p)
      BY <1>6, Zenon DEF Upload, Children
    <2>2. uploaded' = Append(uploaded, u)
      BY <1>2, <1>6, Zenon DEF Consume
    <2> HIDE DEF u
    <2>3. /\ uploaded' \in Seq(Upload) /\ m \in Nat /\ DOMAIN uploaded = 1..m
          /\ DOMAIN uploaded' = 1..(m + 1) /\ uploaded'[m + 1] = u
          /\ \A i \in 1..m : uploaded'[i] = uploaded[i]
          /\ uploaded' # <<>> /\ uploaded'[Len(uploaded')] = u
      BY <1>4, <2>1, <2>2, Appended
    <2> HIDE DEF m
    <2>4. {uploaded'[i].path : i \in DOMAIN uploaded'}
              = {uploaded[i].path : i \in DOMAIN uploaded} \cup {p}
      <3>1. 1..(m + 1) = 1..m \cup {m + 1}
        BY <2>3
      <3> QED BY <2>1, <2>3, <3>1
    <2>5. \A c \in Children(p) \cap DirPaths : \E j \in 1..m : uploaded[j].path = c
      <3> TAKE c \in Children(p) \cap DirPaths
      <3>1. c \in Taken(n) \cap DirPaths
        BY <1>1, Zenon DEF Recorded
      <3> QED BY <1>3, <2>3, <3>1, Zenon
    <2>6. \A j \in 1..m : uploaded[j].path # p
      BY <1>1, <1>3, <2>3, Zenon
    <2>7. ASSUME NEW i \in 1..(m + 1)
          PROVE  /\ uploaded'[i].children = Children(uploaded'[i].path)
                 /\ \A c \in uploaded'[i].children \cap DirPaths :
                        \E j \in 1 .. i - 1 : uploaded'[j].path = c
                 /\ \A j \in 1 .. i - 1 : uploaded'[j].path # uploaded'[i].path
      <3>1. CASE i = m + 1
        <4>1. i - 1 = m
          BY <2>3, <3>1
        <4> QED BY <2>1, <2>3, <2>5, <2>6, <3>1, <4>1, Zenon
      <3>2. CASE i # m + 1
        <4>1. i \in 1..m /\ 1 .. i - 1 \subseteq 1..m
          BY <2>3, <3>2
        <4>2. /\ uploaded[i].children = Children(uploaded[i].path)
              /\ \A c \in uploaded[i].children \cap DirPaths :
                     \E j \in 1 .. i - 1 : uploaded[j].path = c
              /\ \A j \in 1 .. i - 1 : uploaded[j].path # uploaded[i].path
          BY <1>3, <2>3, <4>1, Zenon DEF PutLeavesFirst
        <4>3. \A j \in 1 .. i - 1 : uploaded'[j] = uploaded[j]
          BY <2>3, <4>1, Zenon
        <4> QED BY <2>3, <4>1, <4>2, <4>3
      <3> QED BY <3>1, <3>2, Zenon
    <2>8. PutLeavesFirst'
      BY <2>3, <2>7, Zenon DEF PutLeavesFirst, Children
    <2> QED BY <1>1, <1>3, <1>6, <2>1, <2>3, <2>4, <2>8
  <1> QED BY <1>5, <1>6, Zenon

(* ... so that it has what n + 1 entries leave.                            *)
LEMMA ConsumedNext ==
    ASSUME NarTypeOK, NEW n \in Nat, n < Len(order), ConsumedInv(n),
           NEW p, p = order[n + 1], Head(inbox) = p, Consume, order' = order
    PROVE  ConsumedInv(n + 1)' /\ uploaded' \in Seq(Upload)
  <1>1. directories' = [q \in Awaited(n + 1) |-> Recorded(n + 1, q)]
    BY ConsumedDirectories
  <1>2. /\ uploaded' \in Seq(Upload)
        /\ {uploaded'[i].path : i \in DOMAIN uploaded'} = Taken(n + 1) \cap DirPaths
        /\ PutLeavesFirst'
    BY ConsumedUploads, Zenon
  <1>4. Taken(n + 1)' = Taken(n + 1) /\ Awaited(n + 1)' = Awaited(n + 1)
    BY Zenon DEF Taken, Awaited
  <1>5. \A q : Recorded(n + 1, q)' = Recorded(n + 1, q)
    BY <1>4, Zenon DEF Recorded, Taken
  <1>6. [q \in Awaited(n + 1)' |-> Recorded(n + 1, q)'] = [q \in Awaited(n + 1) |-> Recorded(n + 1, q)]
    BY <1>4, <1>5
  <1> QED BY <1>1, <1>2, <1>4, <1>6, Zenon DEF ConsumedInv

-----------------------------------------------------------------------------
(* The invariant holds at first.                                           *)
LEMMA IngestStarts ==
    ASSUME NarInit PROVE IngestInv
  <1>1. /\ inbox = <<>> /\ directories = NoDirectories /\ uploaded = <<>>
        /\ cpc = "running" /\ order \in Orders /\ pos = 1 /\ ppc = "produce" /\ res = "none"
        /\ tasks = [p \in Files |-> "none"] /\ blobs = {}
    BY Zenon DEF NarInit, IngestInit
  <1>2. Len(order) \in Nat /\ Len(order) >= 1
    BY <1>1, OrderFacts
  <1>3. inbox \in Seq(Paths \cup {Error}) /\ uploaded \in Seq(Upload)
    BY <1>1
  <1>4. NarTypeOK
    BY <1>1, <1>2, <1>3 DEF NarTypeOK
  <1>5. UploadsInv
    BY <1>1, <1>2 DEF UploadsInv, ProducedTo
  <1>6. ConsumedInv(0)
    <2>1. Taken(0) = {}
      BY DEF Taken
    <2>2. Awaited(0) = {}
      BY <2>1 DEF Awaited
    <2>3. DOMAIN uploaded = {}
      BY <1>1
    <2>4. directories = [q \in Awaited(0) |-> Recorded(0, q)]
      BY <1>1, <2>2, Zenon DEF NoDirectories
    <2> QED BY <1>2, <2>1, <2>3, <2>4, Zenon DEF ConsumedInv, PutLeavesFirst
  <1>7. ChannelInv(0)
    BY <1>1 DEF ChannelInv
  <1>8. 0 \in 0..Len(order)
    BY <1>2
  <1> QED BY <1>1, <1>4, <1>5, <1>6, <1>7, <1>8, Zenon DEF IngestInv

(* Steps that leave the consumer's directories alone.                      *)
LEMMA ConsumedSame ==
    ASSUME NEW n, ConsumedInv(n), order' = order, directories' = directories, uploaded' = uploaded
    PROVE  ConsumedInv(n)'
  <1>1. Taken(n)' = Taken(n) /\ Awaited(n)' = Awaited(n)
    BY Zenon DEF Taken, Awaited
  <1>2. \A q : Recorded(n, q)' = Recorded(n, q)
    BY <1>1, Zenon DEF Recorded, Taken
  <1>3. [q \in Awaited(n)' |-> Recorded(n, q)'] = [q \in Awaited(n) |-> Recorded(n, q)]
    BY <1>1, <1>2, Zenon
  <1>4. PutLeavesFirst'
    BY DEF ConsumedInv, PutLeavesFirst
  <1> QED BY <1>1, <1>3, <1>4, Zenon DEF ConsumedInv

(* Uploads are no business of the consumer.                                *)
LEMMA UploadsSame ==
    ASSUME UploadsInv, UNCHANGED pvars,
           cpc' = "running" => cpc = "running" /\ inbox # <<Error>>
    PROVE  UploadsInv'
  BY Zenon DEF UploadsInv, pvars, ProducedTo, Unfinished

(* An entry is taken.                                                      *)
LEMMA ConsumeStep ==
    ASSUME IngestInv, Consume, UNCHANGED pvars
    PROVE  IngestInv'
  <1> USE DEF pvars
  <1>1. NarTypeOK /\ UploadsInv
    BY DEF IngestInv
  <1>2. PICK n \in 0..Len(order) : ConsumedInv(n) /\ ChannelInv(n)
    BY Zenon DEF IngestInv
  <1>3. cpc = "running" /\ inbox # <<>> /\ Head(inbox) # Error /\ inbox' = Tail(inbox)
    BY Zenon DEF Consume
  <1>4. /\ Len(order) \in Nat /\ pos \in 1..Len(order) /\ n \in Nat /\ inbox \in Seq(Paths \cup {Error})
        /\ \A i \in 1..Len(order) : order[i] \in Paths
    BY <1>1, OrderFacts DEF NarTypeOK
  <1>5. \/ inbox = <<order[pos - 1]>> /\ n = pos - 2 /\ ppc # "done"
        \/ inbox = <<order[pos]>> /\ n = pos - 1 /\ pos = Len(order) /\ ppc = "done" /\ Stored
    BY <1>2, <1>3 DEF ChannelInv
  <1>6. inbox = <<order[n + 1]>> /\ n < Len(order) /\ n + 1 \in 0..Len(order)
    BY <1>4, <1>5
  <1>7. Head(inbox) = order[n + 1] /\ inbox' = <<>>
    BY <1>3, <1>6
  <1>8. ConsumedInv(n + 1)' /\ uploaded' \in Seq(Upload)
    BY <1>1, <1>2, <1>4, <1>6, <1>7, ConsumedNext, Zenon
  <1>9. n + 1 = Len(order) <=> order[n + 1] = Root
    BY <1>1, <1>4, <1>6, NextEntry
  <1>10. IF order[n + 1] = Root THEN cpc' = "draining" ELSE cpc' = "running"
    BY <1>3, <1>7, Zenon DEF Consume
  <1>11. inbox' \in Seq(Paths \cup {Error})
    BY <1>7
  <1>12. NarTypeOK'
    BY <1>1, <1>8, <1>10, <1>11, Zenon DEF NarTypeOK
  <1>13. inbox # <<Error>>
    BY <1>3
  <1>14. UploadsInv'
    BY <1>1, <1>3, <1>13, UploadsSame, Zenon
  <1>15. ChannelInv(n + 1)'
    <2>1. CASE order[n + 1] = Root
      <3>1. n + 1 = Len(order) /\ Stored
        BY <1>4, <1>5, <1>9, <2>1
      <3> QED BY <1>10, <2>1, <3>1, Zenon DEF ChannelInv, Stored
    <2>2. CASE order[n + 1] # Root
      <3>1. n + 1 = pos - 1 /\ ppc # "done"
        BY <1>4, <1>5, <1>9, <2>2
      <3> QED BY <1>7, <1>10, <2>2, <3>1, Zenon DEF ChannelInv
    <2> QED BY <2>1, <2>2, Zenon
  <1>16. cpc' # "ok"
    BY <1>10, Zenon
  <1> QED BY <1>6, <1>8, <1>12, <1>14, <1>15, <1>16, Zenon DEF IngestInv

(* The consumer ends, well or badly.                                       *)
LEMMA ConsumerEnds ==
    ASSUME IngestInv, PutFails \/ StreamError \/ StreamEnds \/ ClosePutter, UNCHANGED pvars
    PROVE  IngestInv'
  <1> USE DEF pvars
  <1>1. NarTypeOK /\ UploadsInv
    BY DEF IngestInv
  <1>2. PICK n \in 0..Len(order) : ConsumedInv(n) /\ ChannelInv(n)
    BY Zenon DEF IngestInv
  <1>3. inbox' = inbox /\ directories' = directories /\ uploaded' = uploaded
    BY DEF PutFails, StreamError, StreamEnds, ClosePutter
  <1>4. ConsumedInv(n)'
    BY <1>2, <1>3, ConsumedSame
  <1>5. /\ cpc' \in {"error", "panicked", "ok", "closing"}
        /\ cpc' \in {"ok", "closing"} => cpc \in {"draining", "closing"}
        /\ cpc' = "ok" => persisted' = TRUE
    <2>1. CASE PutFails \/ StreamError
      BY <2>1 DEF PutFails, StreamError
    <2>2. CASE StreamEnds
      BY <2>2, Zenon DEF StreamEnds
    <2>3. CASE ClosePutter
      BY <2>3, Zenon DEF ClosePutter
    <2> QED BY <2>1, <2>2, <2>3, Zenon
  <1>6. NarTypeOK'
    BY <1>1, <1>3, <1>5, Zenon DEF NarTypeOK
  <1>7. UploadsInv'
    BY <1>1, <1>5, UploadsSame, Zenon
  <1>8. ChannelInv(n)'
    BY <1>2, <1>5, Zenon DEF ChannelInv, Stored
  <1> QED BY <1>4, <1>5, <1>6, <1>7, <1>8, Zenon DEF IngestInv

-----------------------------------------------------------------------------
(* Steps of the producer and of the uploads that leave the channel alone,  *)
(* lose no blob and forget no upload.                                      *)
LEMMA QuietStep ==
    ASSUME IngestInv, NarTypeOK', UploadsInv', UNCHANGED <<cvars, order, pos>>, blobs \subseteq blobs',
           \/ ppc' = ppc
           \/ ppc \in {"produce", "upload", "join"} /\ ppc' # "done"
           \/ cpc = "error"
    PROVE  IngestInv'
  <1> USE DEF cvars
  <1>1. PICK n \in 0..Len(order) : ConsumedInv(n) /\ ChannelInv(n)
    BY Zenon DEF IngestInv
  <1>2. ConsumedInv(n)'
    BY <1>1, ConsumedSame, Zenon
  <1>3. Stored => Stored'
    BY Zenon DEF Stored
  <1>4. ChannelInv(n)'
    BY <1>1, <1>3, Zenon DEF ChannelInv
  <1> QED BY <1>2, <1>4, Zenon DEF IngestInv

(* Dropping the uploader forgets no upload.                                *)
LEMMA AbortedFacts ==
    ASSUME NarTypeOK, tasks' = Aborted
    PROVE  /\ tasks' \in [Files -> {"none", "running", "done", "failed", "aborted"}]
           /\ \A p \in Files : Unfinished(p) => Unfinished(p)'
  BY Zenon DEF NarTypeOK, Aborted, Unfinished

(* An entry is produced, and its blob stored or its upload begun.          *)
LEMMA ProduceStep ==
    ASSUME IngestInv, ProduceNode \/ UploadInBackground \/ UploadNow, UNCHANGED cvars
    PROVE  IngestInv'
  <1>1. NarTypeOK /\ UploadsInv
    BY Zenon DEF IngestInv
  <1>2. ppc \in {"produce", "upload"} /\ order' = order /\ pos' = pos /\ Produced
    BY Zenon DEF ProduceNode, UploadInBackground, UploadNow
  <1>3. order[pos] \in Paths /\ Len(order) \in Nat /\ pos \in 1..Len(order)
    BY <1>1, OrderFacts, Zenon DEF NarTypeOK
  <1>4. /\ tasks' \in [Files -> {"none", "running", "done", "failed", "aborted"}]
        /\ blobs' \in SUBSET Files /\ blobs \subseteq blobs'
        /\ \A p \in Files : Unfinished(p) => Unfinished(p)'
        /\ order[pos] \in Files => order[pos] \in blobs' \/ Unfinished(order[pos])'
        /\ \A p \in Files : tasks'[p] = "aborted" => tasks[p] = "aborted"
    <2>1. CASE ProduceNode
      BY <1>1, <2>1, Zenon DEF ProduceNode, NarTypeOK, Unfinished
    <2>2. CASE UploadInBackground
      BY <1>1, <1>2, <2>2, Zenon DEF UploadInBackground, NarTypeOK, Unfinished
    <2>3. CASE UploadNow
      BY <1>1, <1>2, <2>3, Zenon DEF UploadNow, NarTypeOK, Unfinished
    <2> QED BY <2>1, <2>2, <2>3, Zenon
  <1>5. /\ ppc' \in {"join", "send"} /\ res' \in {"none", "ok", "error"}
        /\ res' = "ok" => pos = Len(order)
        /\ ppc' = "send" => res' # "ok" /\ pos < Len(order)
    BY <1>1, <1>2, <1>3 DEF Produced, UploadsInv, NarTypeOK
  <1>6. NarTypeOK'
    BY <1>1, <1>2, <1>4, <1>5, Zenon DEF NarTypeOK, cvars
  <1>7. ASSUME NEW i \in 1..Len(order), ProducedTo(i)', order[i] \in Files
        PROVE  order[i] \in blobs' \/ Unfinished(order[i])'
    <2>1. i < pos \/ i = pos
      BY <1>2, <1>7, Zenon DEF ProducedTo
    <2>2. CASE i = pos
      BY <1>2, <1>4, <1>7, <2>2, Zenon
    <2>3. CASE i < pos
      <3>1. order[i] \in blobs \/ Unfinished(order[i])
        BY <1>1, <1>7, <2>3, Zenon DEF UploadsInv, ProducedTo
      <3> QED BY <1>2, <1>4, <1>7, <3>1, Zenon
    <2> QED BY <2>1, <2>2, <2>3, Zenon
  <1>8. UploadsInv'
    <2>1. \A i \in 1..Len(order') : ProducedTo(i)' /\ order'[i] \in Files =>
             order'[i] \in blobs' \/ Unfinished(order[i])'
      BY <1>2, <1>7, Zenon
    <2> QED BY <1>1, <1>2, <1>4, <1>5, <2>1, Zenon DEF UploadsInv
  <1> QED BY <1>2, <1>4, <1>5, <1>6, <1>8, QuietStep, Zenon

(* A file is handed to the uploader; the NAR cannot be read, or ends       *)
(* within a name.                                                          *)
LEMMA ReadStep ==
    ASSUME IngestInv, ProduceFile \/ ProduceFails \/ ProduceHangs, UNCHANGED cvars
    PROVE  IngestInv'
  <1> USE DEF ProduceFile, ProduceFails, ProduceHangs
  <1>1. NarTypeOK /\ UploadsInv
    BY Zenon DEF IngestInv
  <1>2. /\ ppc \in {"produce", "upload"} /\ UNCHANGED <<order, pos, tasks, blobs>>
        /\ \/ ppc' = "upload" /\ order[pos] \in Files /\ res' = res
           \/ ppc' = "join" /\ res' = "error"
           \/ ppc' = "hung" /\ res' = res
    BY Zenon
  <1> HIDE DEF ProduceFile, ProduceFails, ProduceHangs
  <1>3. NarTypeOK'
    BY <1>1, <1>2 DEF NarTypeOK, cvars
  <1>4. \A i : ProducedTo(i)' => ProducedTo(i)
    BY <1>2, Zenon DEF ProducedTo
  <1>5. UploadsInv'
    BY <1>1, <1>2, <1>4, Zenon DEF UploadsInv, Unfinished
  <1> QED BY <1>2, <1>3, <1>5, QuietStep, Zenon

(* join() waits for all uploads, or drops them.                            *)
LEMMA JoinStep ==
    ASSUME IngestInv, Join, UNCHANGED cvars
    PROVE  IngestInv'
  <1>1. NarTypeOK /\ UploadsInv
    BY DEF IngestInv
  <1>2. /\ ppc = "join" /\ order' = order /\ pos' = pos /\ res' = res /\ blobs' = blobs
        /\ ppc' \in {"finish", "report"}
    BY Zenon DEF Join
  <1>3. /\ tasks' \in [Files -> {"none", "running", "done", "failed", "aborted"}]
        /\ \A p \in Files : Unfinished(p) => Unfinished(p)'
        /\ ppc' = "finish" => \A p \in Files : ~ Unfinished(p)'
    <2>1. CASE tasks' = Aborted /\ ppc' = "report"
      BY <1>1, <2>1, AbortedFacts, Zenon
    <2>2. CASE tasks' = tasks /\ \A p \in Files : tasks[p] \notin {"running", "failed"}
      <3>1. \A p \in Files : tasks[p] # "aborted"
        BY <1>1, <1>2, Zenon DEF UploadsInv
      <3> QED BY <1>1, <2>2, <3>1, Zenon DEF Unfinished, NarTypeOK
    <2> QED BY <2>1, <2>2, Zenon DEF Join
  <1>4. NarTypeOK'
    BY <1>1, <1>2, <1>3, Zenon DEF NarTypeOK, cvars
  <1>5. \A i : ProducedTo(i)' => ProducedTo(i)
    BY <1>2, Zenon DEF ProducedTo
  <1>6. \A i \in 1..Len(order') : ProducedTo(i)' /\ order'[i] \in Files =>
           order'[i] \in blobs' \/ Unfinished(order[i])'
    BY <1>1, <1>2, <1>3, <1>5, Zenon DEF UploadsInv
  <1>7. UploadsInv'
    BY <1>1, <1>2, <1>3, <1>6, Zenon DEF UploadsInv
  <1> QED BY <1>2, <1>4, <1>7, QuietStep, Zenon

(* The producer is dropped after an error.                                 *)
LEMMA CancelStep ==
    ASSUME IngestInv, Cancel, UNCHANGED cvars
    PROVE  IngestInv'
  <1>1. NarTypeOK /\ UploadsInv
    BY DEF IngestInv
  <1>2. /\ ppc' = "cancelled" /\ order' = order /\ pos' = pos /\ res' = res /\ blobs' = blobs
        /\ tasks' = Aborted /\ cpc = "error"
    BY DEF Cancel
  <1>3. /\ tasks' \in [Files -> {"none", "running", "done", "failed", "aborted"}]
        /\ \A p \in Files : Unfinished(p) => Unfinished(p)'
    BY <1>1, <1>2, AbortedFacts, Zenon
  <1>4. NarTypeOK'
    BY <1>1, <1>2, <1>3, Zenon DEF NarTypeOK, cvars
  <1>5. \A i : ProducedTo(i)' => ProducedTo(i)
    BY <1>2, Zenon DEF ProducedTo
  <1>6. \A i \in 1..Len(order') : ProducedTo(i)' /\ order'[i] \in Files =>
           order'[i] \in blobs' \/ Unfinished(order[i])'
    BY <1>1, <1>2, <1>3, <1>5, Zenon DEF UploadsInv
  <1>7. UploadsInv'
    BY <1>1, <1>2, <1>3, <1>6, Zenon DEF UploadsInv
  <1> QED BY <1>2, <1>4, <1>7, QuietStep, Zenon

(* A background upload ends.                                               *)
LEMMA TaskStep ==
    ASSUME IngestInv, NEW p \in Files, TaskDone(p) \/ TaskFails(p), UNCHANGED cvars
    PROVE  IngestInv'
  <1>1. NarTypeOK /\ UploadsInv
    BY Zenon DEF IngestInv
  <1>2. ppc' = ppc /\ order' = order /\ pos' = pos /\ res' = res /\ tasks[p] = "running"
    BY Zenon DEF TaskDone, TaskFails
  <1>3. /\ tasks' \in [Files -> {"none", "running", "done", "failed", "aborted"}]
        /\ blobs' \in SUBSET Files /\ blobs \subseteq blobs'
        /\ \A q \in Files : Unfinished(q) => q \in blobs' \/ Unfinished(q)'
        /\ \A q \in Files : tasks'[q] = "aborted" => tasks[q] = "aborted"
    <2>1. CASE TaskDone(p)
      BY <1>1, <2>1, Zenon DEF TaskDone, NarTypeOK, Unfinished
    <2>2. CASE TaskFails(p)
      BY <1>1, <2>2, Zenon DEF TaskFails, NarTypeOK, Unfinished
    <2> QED BY <2>1, <2>2, Zenon
  <1>4. NarTypeOK'
    BY <1>1, <1>2, <1>3, Zenon DEF NarTypeOK, cvars
  <1>5. \A i : ProducedTo(i)' => ProducedTo(i)
    BY <1>2, Zenon DEF ProducedTo
  <1>6. \A i \in 1..Len(order') : ProducedTo(i)' /\ order'[i] \in Files =>
           order'[i] \in blobs' \/ Unfinished(order[i])'
    BY <1>1, <1>2, <1>3, <1>5, Zenon DEF UploadsInv
  <1>7. Unfinished(p)
    BY <1>2, Zenon DEF Unfinished
  <1>8. UploadsInv'
    BY <1>1, <1>2, <1>3, <1>6, <1>7, Zenon DEF UploadsInv, cvars
  <1> QED BY <1>2, <1>3, <1>4, <1>8, QuietStep, Zenon

-----------------------------------------------------------------------------
(* An entry before the last is sent.                                       *)
LEMMA SendStep ==
    ASSUME IngestInv, Send
    PROVE  IngestInv'
  <1>1. NarTypeOK /\ UploadsInv
    BY DEF IngestInv
  <1>2. PICK n \in 0..Len(order) : ConsumedInv(n) /\ ChannelInv(n)
    BY Zenon DEF IngestInv
  <1>3. /\ ppc = "send" /\ inbox = <<>> /\ inbox' = <<order[pos]>> /\ pos' = pos + 1 /\ ppc' = "produce"
        /\ UNCHANGED <<sender, directories, uploaded, cpc, persisted, order, res, tasks, blobs>>
    BY Zenon DEF Send
  <1>4. Len(order) \in Nat /\ pos \in 1..Len(order) /\ order[pos] \in Paths
    BY <1>1, OrderFacts, Zenon DEF NarTypeOK
  <1>5. pos < Len(order) /\ res # "ok"
    BY <1>1, <1>3, Zenon DEF UploadsInv
  <1>6. inbox' \in Seq(Paths \cup {Error}) /\ pos' \in 1..Len(order) /\ pos' - 1 = pos /\ pos' - 2 = pos - 1
    BY <1>3, <1>4, <1>5
  <1>7. NarTypeOK'
    BY <1>1, <1>3, <1>6, Zenon DEF NarTypeOK
  <1>8. \A i \in 1..Len(order) : ProducedTo(i)' => ProducedTo(i)
    BY <1>3, <1>4, <1>5 DEF ProducedTo
  <1>9. UploadsInv'
    BY <1>1, <1>3, <1>5, <1>8, Zenon DEF UploadsInv, Unfinished
  <1>10. ConsumedInv(n)'
    BY <1>2, <1>3, ConsumedSame, Zenon
  <1>11. cpc = "running" => n = pos - 1
    BY <1>2, <1>3, Zenon DEF ChannelInv
  <1>12. ChannelInv(n)'
    <2>1. cpc' = "running" => inbox' = <<order'[pos' - 1]>> /\ n = pos' - 2 /\ ppc' # "done"
      BY <1>3, <1>6, <1>11, Zenon
    <2>2. cpc' \in {"draining", "closing", "ok"} => n = Len(order') /\ Stored'
      BY <1>2, <1>3, Zenon DEF ChannelInv, Stored
    <2> QED BY <2>1, <2>2, Zenon DEF ChannelInv
  <1> QED BY <1>3, <1>7, <1>9, <1>10, <1>12, Zenon DEF IngestInv

(* The failure of an upload is sent.                                       *)
LEMMA ReportStep ==
    ASSUME IngestInv, Report
    PROVE  IngestInv'
  <1>1. NarTypeOK /\ UploadsInv
    BY DEF IngestInv
  <1>2. PICK n \in 0..Len(order) : ConsumedInv(n) /\ ChannelInv(n)
    BY DEF IngestInv
  <1>3. /\ ppc = "report" /\ inbox = <<>> /\ inbox' = <<Error>> /\ ppc' = "finish"
        /\ UNCHANGED <<sender, directories, uploaded, cpc, persisted, order, pos, res, tasks, blobs>>
    BY Zenon DEF Report
  <1>4. inbox' \in Seq(Paths \cup {Error})
    BY <1>3
  <1>5. NarTypeOK'
    BY <1>1, <1>3, <1>4, Zenon DEF NarTypeOK
  <1>6. \A i : ProducedTo(i)' => ProducedTo(i)
    BY <1>3, Zenon DEF ProducedTo
  <1>7. UploadsInv'
    BY <1>1, <1>3, <1>6, Zenon DEF UploadsInv, Unfinished
  <1>8. ConsumedInv(n)'
    BY <1>2, <1>3, ConsumedSame, Zenon
  <1>9. ChannelInv(n)'
    BY <1>2, <1>3, Zenon DEF ChannelInv, Stored
  <1> QED BY <1>3, <1>5, <1>7, <1>8, <1>9, Zenon DEF IngestInv

(* The last entry is sent: all entries were produced and no upload is left.*)
LEMMA FinishStep ==
    ASSUME IngestInv, Finish
    PROVE  IngestInv'
  <1>1. NarTypeOK /\ UploadsInv
    BY DEF IngestInv
  <1>2. PICK n \in 0..Len(order) : ConsumedInv(n) /\ ChannelInv(n)
    BY DEF IngestInv
  <1>3. /\ ppc = "finish" /\ inbox = <<>> /\ ppc' = "done"
        /\ inbox' = IF res = "ok" THEN <<order[pos]>> ELSE <<Error>>
        /\ UNCHANGED <<directories, uploaded, cpc, persisted, order, pos, res, tasks, blobs>>
    BY Zenon DEF Finish
  <1>4. /\ Len(order) \in Nat /\ pos \in 1..Len(order) /\ order[pos] \in Paths
        /\ \A p \in Paths : \E i \in 1..Len(order) : order[i] = p
    BY <1>1, OrderFacts DEF NarTypeOK
  <1>5. inbox' \in Seq(Paths \cup {Error})
    <2>1. CASE res = "ok"
      BY <1>3, <1>4, <2>1
    <2>2. CASE res # "ok"
      BY <1>3, <2>2
    <2> QED BY <2>1, <2>2, Zenon
  <1>6. NarTypeOK'
    BY <1>1, <1>3, <1>5, Zenon DEF NarTypeOK
  <1>7. \A i : ProducedTo(i)' => ProducedTo(i)
    BY <1>3, Zenon DEF ProducedTo
  <1>8. UploadsInv'
    BY <1>1, <1>3, <1>7, Zenon DEF UploadsInv, Unfinished
  <1>9. ConsumedInv(n)'
    BY <1>2, <1>3, ConsumedSame
  <1>10. ASSUME cpc = "running", res = "ok" PROVE pos = Len(order) /\ Stored
    <2>1. pos = Len(order)
      BY <1>1, <1>10, Zenon DEF UploadsInv
    <2>2. inbox # <<Error>>
      BY <1>3, Zenon
    <2>3. \A p \in Files : ~ Unfinished(p)
      BY <1>1, <1>3, <1>10, <2>2, Zenon DEF UploadsInv
    <2>4. ASSUME NEW p \in Files PROVE p \in blobs
      <3>1. PICK i \in 1..Len(order) : order[i] = p
        BY <1>4, FilesAssumption, Zenon DEF Files
      <3>2. ProducedTo(i)
        BY <1>4, <1>10, <2>1 DEF ProducedTo
      <3> QED BY <1>1, <2>3, <3>1, <3>2, Zenon DEF UploadsInv
    <2> QED BY <2>1, <2>4, Zenon DEF Stored
  <1>11. cpc = "running" => n = pos - 1
    BY <1>2, <1>3, Zenon DEF ChannelInv
  <1>12. ChannelInv(n)'
    <2>1. ASSUME cpc' = "running", res = "ok"
          PROVE  /\ inbox' = <<order'[pos']>> /\ n = pos' - 1 /\ pos' = Len(order')
                 /\ ppc' = "done" /\ Stored'
      BY <1>3, <1>10, <1>11, <2>1, Zenon DEF Stored
    <2>2. ASSUME cpc' = "running", res # "ok"
          PROVE  inbox' = <<Error>> /\ n = pos' - 1 /\ ppc' \in {"finish", "done"}
      BY <1>3, <1>11, <2>2, Zenon
    <2>3. cpc' \in {"draining", "closing", "ok"} => n = Len(order') /\ Stored'
      BY <1>2, <1>3, Zenon DEF ChannelInv, Stored
    <2> QED BY <2>1, <2>2, <2>3, Zenon DEF ChannelInv
  <1> QED BY <1>3, <1>6, <1>8, <1>9, <1>12, Zenon DEF IngestInv

-----------------------------------------------------------------------------
(* No step of the ingestion leaves the invariant.                          *)
LEMMA IngestPreserved ==
    ASSUME IngestInv, [NarNext]_narvars
    PROVE  IngestInv'
  <1>1. CASE ProducerNext
    BY <1>1, ProduceStep, ReadStep, JoinStep, SendStep, ReportStep, FinishStep, Zenon
    DEF ProducerNext
  <1>2. CASE TaskNext
    BY <1>2, TaskStep DEF TaskNext
  <1>3. CASE Cancel /\ UNCHANGED cvars
    BY <1>3, CancelStep
  <1>4. CASE ConsumerNext /\ UNCHANGED pvars
    BY <1>4, ConsumeStep, ConsumerEnds, Zenon DEF ConsumerNext
  <1>5. CASE UNCHANGED narvars
    <2>1. NarTypeOK' /\ UploadsInv'
      BY <1>5 DEF IngestInv, NarTypeOK, UploadsInv, ProducedTo, Unfinished, narvars, cvars, pvars
    <2> QED BY <1>5, <2>1, QuietStep, Zenon DEF narvars, pvars
  <1> QED BY <1>1, <1>2, <1>3, <1>4, <1>5, Zenon DEF NarNext

(* What the consumer has is at every moment what the entries it took       *)
(* leave, and the stream ends only after the last blob is stored.          *)
THEOREM IngestInvariance == NarSpec => []IngestInv
  BY IngestStarts, IngestPreserved, PTL DEF NarSpec

(* ingest_nar: directories reach the putter leaves first, once and with    *)
(* all their children, and Ok(root) means that every blob, also those      *)
(* uploaded in the background, and every directory is stored.              *)
THEOREM IngestCorrect == NarSpec => []IngestedMeansStored
  <1>1. ASSUME IngestInv PROVE IngestedMeansStored
    <2>1. PICK n \in 0..Len(order) : ConsumedInv(n) /\ ChannelInv(n)
      BY <1>1, Zenon DEF IngestInv
    <2>2. PutLeavesFirst
      BY <2>1, Zenon DEF ConsumedInv
    <2>3. ASSUME cpc = "ok"
          PROVE  /\ blobs = Files /\ persisted
                 /\ {uploaded[i].path : i \in DOMAIN uploaded} = DirPaths
                 /\ DirPaths # {} => uploaded[Len(uploaded)].path = Root
      <3>1. n = Len(order) /\ Stored
        BY <2>1, <2>3, SMTT(40) DEF ChannelInv
      <3>2. /\ \A i \in 1..Len(order) : order[i] \in Paths
            /\ \A p \in Paths : \E i \in 1..Len(order) : order[i] = p
        BY <1>1, OrderFacts, Zenon DEF IngestInv, NarTypeOK
      <3>3. Taken(n) = Paths
        BY <3>1, <3>2 DEF Taken
      <3>4. blobs = Files
        BY <1>1, <3>1, Zenon DEF Stored, IngestInv, NarTypeOK
      <3>5. {uploaded[i].path : i \in DOMAIN uploaded} = DirPaths
        BY <2>1, <3>3, TreeAssumption, Zenon DEF ConsumedInv
      <3>6. ASSUME DirPaths # {} PROVE uploaded[Len(uploaded)].path = Root
        <4> DEFINE m == Len(uploaded)
        <4>1. m \in Nat /\ m = Len(uploaded) /\ DOMAIN uploaded = 1..m
          BY <1>1 DEF IngestInv, NarTypeOK
        <4> HIDE DEF m
        <4>2. m \in 1..m
          BY <3>5, <3>6, <4>1
        <4>3. SUFFICES ASSUME uploaded[m].path # Root PROVE FALSE
          BY <4>1, Zenon
        <4> DEFINE d == uploaded[m].path
        <4>4. d \in DirPaths
          BY <3>5, <4>1, <4>2, Zenon
        <4>5. d \in Paths \ {Root} /\ Parent[d] \in DirPaths
          BY <4>3, <4>4, TreeAssumption, Zenon
        <4>6. PICK i \in 1..m : uploaded[i].path = Parent[d]
          BY <3>5, <4>1, <4>5, Zenon
        <4>7. d \in uploaded[i].children
          BY <2>2, <4>1, <4>5, <4>6 DEF PutLeavesFirst, Children
        <4>8. PICK j \in 1 .. i - 1 : uploaded[j].path = d
          BY <2>2, <4>1, <4>4, <4>7 DEF PutLeavesFirst
        <4>9. j \in 1 .. m - 1
          BY <4>1
        <4> QED BY <2>2, <4>1, <4>2, <4>8, <4>9, Zenon DEF PutLeavesFirst
      <3> QED BY <1>1, <2>3, <3>4, <3>5, <3>6, Zenon DEF IngestInv
    <2> QED BY <2>2, <2>3, Zenon DEF IngestedMeansStored
  <1> QED BY <1>1, IngestInvariance, PTL

=============================================================================
