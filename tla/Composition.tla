---------------------------- MODULE Composition ----------------------------
(***************************************************************************)
(* Instantiating the services of a store composition (castore              *)
(* composition.rs).  A composition maps names to configurations; building  *)
(* one resolves the services it names, builds each at most once, shares    *)
(* the instance through a watch channel, and rejects recursion by the      *)
(* stack of names its context carries.                                     *)
(*                                                                         *)
(* The builders of the repository resolve all their dependencies with      *)
(* join! before they await anything else, so the first poll of a build     *)
(* explores them depth first, on one thread: the stack of the context is   *)
(* the path of that exploration.                                           *)
(***************************************************************************)
EXTENDS Integers, Sequences, Functions

CONSTANTS
    Stores,       \* the names in the composition
    Threads,      \* threads that build entrypoints concurrently
    Scenarios     \* the configurations, and what is asked of them

NoThread == "no thread"

\* Entrypoints are names of the composition; a configuration may name others.
ASSUME ScenariosAssumption ==
    /\ NoThread \notin Threads
    /\ \A sc \in Scenarios :
          /\ sc.deps \in [Stores -> Seq(UNION {Range(sc.deps[s]) : s \in Stores})]
          /\ sc.work \in [Threads -> Seq(Stores)]
          /\ sc.drops \subseteq Threads

VARIABLES
    deps,     \* deps[s]: the configuration, the names the builder of s resolves
    work,     \* work[t]: the entrypoints thread t builds, in order
    drops,    \* the threads whose builds may be dropped half-way
    state,    \* InstantiationState; its Done is written by nobody
    watch,     \* watch[s]: the value in the watch channel, "none" before it is sent
    ans,      \* ans[s]: what the resolves of the builder of s led to, in order
    owner,    \* owner[s]: the thread whose future builds s
    dfs,      \* dfs[t]: the builders being polled for the first time (the stack)
    at,       \* at[t]: the thread's build call
    results   \* results[t]: what the build calls of t returned

given == <<deps, work, drops>>
compVars == <<given, state, watch, ans, owner, dfs, at, results>>

Errors == {"NotFound", "Recursion", "Failed"}
Results == {"ok"} \cup Errors

CompInit ==
    /\ \E sc \in Scenarios : deps = sc.deps /\ work = sc.work /\ drops = sc.drops
    /\ state = [s \in Stores |-> "Config"]
    /\ watch = [s \in Stores |-> "none"]
    /\ ans = [s \in Stores |-> <<>>]
    /\ owner = [s \in Stores |-> NoThread]
    /\ dfs = [t \in Threads |-> <<>>]
    /\ at = [t \in Threads |-> IF work[t] = <<>> THEN "done" ELSE "idle"]
    /\ results = [t \in Threads |-> <<>>]

-----------------------------------------------------------------------------
Entrypoint(t) == work[t][Len(results[t]) + 1]

\* The first caller moves the entry to InProgress and starts the builder.
BuildInternal_unmarked(t, s) ==
    IF state[s] = "Config"
    THEN /\ owner' = [owner EXCEPT ![s] = t]
         /\ dfs' = [dfs EXCEPT ![t] = Append(@, s)]
         /\ UNCHANGED state
    ELSE UNCHANGED <<state, owner, dfs>>

BuildInternal(t, s) ==
    IF state[s] = "Config"
    THEN /\ state' = [state EXCEPT ![s] = "InProgress"]
         /\ owner' = [owner EXCEPT ![s] = t]
         /\ dfs' = [dfs EXCEPT ![t] = Append(@, s)]
    ELSE UNCHANGED <<state, owner, dfs>>

(* Composition::build, with an empty stack.                                *)
Build(t) ==
    /\ at[t] = "idle"
    /\ at' = [at EXCEPT ![t] = "building"]
    /\ BuildInternal(t, Entrypoint(t))
    /\ UNCHANGED <<given, watch, ans, results>>

Top(stack) == stack[Len(stack)]
Below(stack) == SubSeq(stack, 1, Len(stack) - 1)

(* CompositionContext::resolve of the next dependency of the builder on    *)
(* top of the stack.                                                       *)
Resolve(t) ==
    /\ dfs[t] # <<>>
    /\ LET s == Top(dfs[t])
           d == deps[s][Len(ans[s]) + 1] IN
          /\ Len(ans[s]) < Len(deps[s])
          /\ \/ /\ d \in Range(dfs[t])
                /\ ans' = [ans EXCEPT ![s] = Append(@, "Recursion")]
                /\ UNCHANGED <<state, owner, dfs>>
             \/ /\ d \notin Stores
                /\ ans' = [ans EXCEPT ![s] = Append(@, "NotFound")]
                /\ UNCHANGED <<state, owner, dfs>>
             \/ /\ d \in Stores \ Range(dfs[t])
                /\ ans' = [ans EXCEPT ![s] = Append(@, "channel")]
                /\ BuildInternal(t, d)
    /\ UNCHANGED <<given, watch, at, results>>

\* The first poll of a builder ends: the builder below it is polled further.
Polled(t) ==
    /\ dfs[t] # <<>>
    /\ Len(ans[Top(dfs[t])]) = Len(deps[Top(dfs[t])])
    /\ dfs' = [dfs EXCEPT ![t] = Below(@)]
    /\ UNCHANGED <<given, state, watch, ans, owner, at, results>>

-----------------------------------------------------------------------------
Answers(s) == [i \in DOMAIN ans[s] |-> IF ans[s][i] = "channel" THEN watch[deps[s][i]] ELSE ans[s][i]]

Live(s) == owner[s] \in Threads /\ at[owner[s]] = "building" /\ watch[s] = "none"

\* All dependencies were explored (those of s, and of the builders above it).
Explored(s) == Live(s) /\ Len(ans[s]) = Len(deps[s]) /\ s \notin Range(dfs[owner[s]])

(* The builder returns: the first error of its dependencies, in the order  *)
(* it unpacks them, else its own result; it is sent to all waiters.        *)
BuilderReturns(s) ==
    /\ Explored(s)
    /\ "none" \notin Range(Answers(s))
    /\ LET bad == {i \in DOMAIN ans[s] : Answers(s)[i] # "ok"} IN
          \E r \in Results :
             /\ \/ bad = {} /\ r \in {"ok", "Failed"}
                \/ \E i \in bad : r = Answers(s)[i] /\ \A j \in bad : i <= j
             /\ watch' = [watch EXCEPT ![s] = r]
    /\ UNCHANGED <<given, state, ans, owner, dfs, at, results>>

(* The build call returns; an error ends the construction of the services. *)
Return(t) ==
    /\ at[t] = "building" /\ dfs[t] = <<>>
    /\ LET r == watch[Entrypoint(t)] IN
          /\ r # "none"
          /\ results' = [results EXCEPT ![t] = Append(@, r)]
          /\ at' = [at EXCEPT ![t] =
                      IF r # "ok" \/ Len(results'[t]) = Len(work[t]) THEN "done" ELSE "idle"]
    /\ UNCHANGED <<given, state, watch, ans, owner, dfs>>

-----------------------------------------------------------------------------
\* A dropped builder drops its sender; the entry stays InProgress.
Orphaned(s) == state[s] = "InProgress" /\ watch[s] = "none" /\ ~ Live(s)

(* The future of a build call is dropped between two polls.                *)
DropBuild(t) ==
    /\ t \in drops /\ at[t] = "building" /\ dfs[t] = <<>>
    /\ at' = [at EXCEPT ![t] = "cancelled"]
    /\ UNCHANGED <<given, state, watch, ans, owner, dfs, results>>

\* What the build call of t waits for: its entrypoint, or a channel of one
\* of the builders it drives.
WaitsFor(t) ==
    {Entrypoint(t)} \cup
    UNION {{deps[s][i] : i \in {j \in DOMAIN ans[s] : ans[s][j] = "channel"}} :
              s \in {u \in Stores : owner[u] = t /\ Live(u)}}

(* recv.changed().await.unwrap() of a waiter whose sender is gone.         *)
WaiterPanics(t) ==
    /\ at[t] = "building" /\ dfs[t] = <<>>
    /\ \E s \in WaitsFor(t) : Orphaned(s)
    /\ at' = [at EXCEPT ![t] = "panicked"]
    /\ UNCHANGED <<given, state, watch, ans, owner, dfs, results>>

-----------------------------------------------------------------------------
ThreadStep(t) == Build(t) \/ Resolve(t) \/ Polled(t) \/ Return(t) \/ WaiterPanics(t)

CompNext == (\E t \in Threads : ThreadStep(t) \/ DropBuild(t)) \/ (\E s \in Stores : BuilderReturns(s))

CompSpec == CompInit /\ [][CompNext]_compVars

-----------------------------------------------------------------------------
\* The names s refers to, directly or not: the least set that holds those of
\* its configuration and those of every store in it.
Named == UNION {Range(deps[s]) : s \in Stores}

ClosedUnderDeps(S) == \A u \in S \cap Stores : Range(deps[u]) \subseteq S

Reach(s) ==
    {d \in Named : \A S \in SUBSET Named : Range(deps[s]) \subseteq S /\ ClosedUnderDeps(S) => d \in S}

Continues(s, t) == Len(s) <= Len(t) /\ SubSeq(t, 1, Len(s)) = s

\* Once a thread builds s, no other does, and what was sent is not replaced.
BuiltOnce == [][\A s \in Stores : owner[s] # NoThread =>
                   owner'[s] = owner[s] /\ (watch[s] # "none" => watch'[s] = watch[s])
                   /\ Continues(ans[s], ans'[s])]_compVars

\* Everything an instance depends on was built.
InstanceComplete ==
    \A s \in Stores : watch[s] = "ok" =>
        /\ s \notin Reach(s)
        /\ \A d \in Reach(s) : d \in Stores /\ watch[d] = "ok"

\* A store referred to twice, or being built by another thread, is no recursion.
RecursionIsReal ==
    \A s \in Stores : watch[s] = "Recursion" => \E d \in {s} \cup Reach(s) : d \in Stores /\ d \in Reach(d)

(* InstancesShared: no store is built by two builders, whatever threads    *)
(* ask for it ("Instantiating the same entrypoint twice" gives the same    *)
(* instance); an instance is made only from instances, so its              *)
(* configuration has no recursion and names no missing store; and          *)
(* recursion is reported only of a store whose configuration has a cycle.  *)
InstancesShared == BuiltOnce /\ []InstanceComplete /\ []RecursionIsReal

\* t needs a store whose builder went away with the call that drove it.
LostBuilder(t) ==
    \E s \in Stores \cap ({Entrypoint(t)} \cup Reach(Entrypoint(t))) : owner[s] # t /\ Orphaned(s)

(* Every build call of every thread has returned, or its future was        *)
(* dropped.  A call panics, instead of returning, only when another one    *)
(* was dropped while it built a store that this one needs: the entry stays *)
(* InProgress and recv.changed().await.unwrap() finds its sender gone.     *)
AllBuilt ==
    \A t \in Threads :
       \/ at[t] \in {"done", "cancelled"}
       \/ at[t] = "panicked" /\ LostBuilder(t) /\ \E u \in Threads : at[u] = "cancelled"
=============================================================================
