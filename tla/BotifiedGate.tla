---------------------------- MODULE BotifiedGate ----------------------------
(***************************************************************************)
(* BotifiedEventMapper of botified_output.py: which of the events that the *)
(* server reports are written to Botified, and when.  The gate runs on the *)
(* event loop and does a whole visual_state in one go; the steps of this   *)
(* module are the events of that visual_state, one after the other, and    *)
(* then the waiting events that are due.  The clock is read once a frame.  *)
(***************************************************************************)
EXTENDS Integers, SequencesExt

CONSTANTS
    Catalogue,       \* events the server can report, see EventOK
    Contexts,        \* what the gate can read of the rest of a visual_state
    MaxBatch,        \* most events in one visual_state
    CoalesceWindow,  \* coalesce_window_ms
    SameKeyGap,      \* same_key_min_gap_ms
    Minute,          \* the 60_000 of _rate_limit_allows
    MinuteLimit,     \* global_60s_limit
    Second,          \* the 1000 of _rate_limit_allows
    SecondLimit,     \* burst_1s_limit
    MaxSeen,         \* max_seen_event_ids
    MaxTime          \* bound on the clock

DeferredKinds == {"approaching", "passing"}
ImmediateKinds == {"waving", "stopped", "memory"}
Kinds == DeferredKinds \cup ImmediateKinds \cup {"left", "appeared"}

Priority == [kind \in Kinds |->
    CASE kind = "waving" -> 50      [] kind = "stopped" -> 40
      [] kind = "memory" -> 35      [] kind = "left" -> 30
      [] kind = "approaching" -> 20 [] kind = "passing" -> 10
      [] kind = "appeared" -> 0]

\* An event: its id, what it says, the key it is filed under (person slot,
\* else track; or the identity of a memory event), its own aliases (its track,
\* the tracks its evidence says were reacquired), and how fast it passes.
EventOK(e) ==
    /\ DOMAIN e = {"id", "kind", "key", "own", "pace"}
    /\ e.kind \in Kinds
    /\ e.pace \in {"slow", "fast"}

\* The tracks scene_context says were reacquired, and whether its reasons name
\* a fast passer-by.
ContextOK(c) == DOMAIN c = {"reacquired", "pace"} /\ c.pace \in {"slow", "fast"}
NoContext == [reacquired |-> {}, pace |-> "slow"]

ASSUME CatalogueAssumption == \A e \in Catalogue : EventOK(e)
ASSUME ContextsAssumption == \A c \in Contexts : ContextOK(c)
ASSUME BoundsAssumption ==
    /\ {MaxBatch, CoalesceWindow, SameKeyGap, MinuteLimit, SecondLimit,
        MaxSeen, MaxTime} \subseteq Nat
    /\ {Minute, Second} \subseteq Nat \ {0} /\ Second <= Minute

Ids == {e.id : e \in Catalogue}
AllKeys == {e.key : e \in Catalogue} \cup (UNION {e.own : e \in Catalogue})
             \cup (UNION {c.reacquired : c \in Contexts})

VARIABLES
    now,          \* clock_ms()
    phase,        \* "idle", or "frame" inside frames_from_visual_state
    todo,         \* events of this visual_state not handled yet
    inFrame,      \* emitted_this_frame
    context,      \* what the gate reads of this visual_state
    seen,         \* _seen_order; _seen_event_ids is its range
    pending,      \* _pending_by_key, in insertion order
    lastEmitted,  \* _last_emitted_by_key
    leftMark,     \* the keys _left_emitted_by_key maps to True
    recent,       \* _emitted_timestamps
    log,          \* history: what was written, in order
    forgotten     \* history: ids that were dropped from the seen ones, or never kept

frameVars == <<phase, todo, inFrame, context>>
keyVars == <<lastEmitted, leftMark>>
vars == <<now, phase, todo, inFrame, context, seen, pending, lastEmitted,
          leftMark, recent, log, forgotten>>

Pending == [event : Catalogue, aliases : SUBSET AllKeys, created : 0..MaxTime]
Emission == [event : Catalogue, key : AllKeys, marks : SUBSET AllKeys,
             at : 0..MaxTime]

TypeOK ==
    /\ now \in 0..MaxTime
    /\ phase \in {"idle", "frame"}
    /\ todo \in SUBSET Catalogue
    /\ inFrame \in SUBSET Ids
    /\ context \in Contexts \cup {NoContext}
    /\ seen \in Seq(Ids) /\ Len(seen) <= MaxSeen
    /\ pending \in Seq(Pending)
    /\ DOMAIN lastEmitted \subseteq AllKeys
    /\ \A k \in DOMAIN lastEmitted : lastEmitted[k] \in 0..now
    /\ leftMark \in SUBSET AllKeys
    /\ recent \in Seq(0..MaxTime) /\ Len(recent) <= MinuteLimit
    /\ log \in Seq(Emission)
    /\ forgotten \in SUBSET Ids

Init ==
    /\ now = 0 /\ phase = "idle" /\ todo = {} /\ inFrame = {}
    /\ context = NoContext
    /\ seen = <<>> /\ pending = <<>>
    /\ lastEmitted = <<>> /\ leftMark = {} /\ recent = <<>>
    /\ log = <<>> /\ forgotten = {}

-----------------------------------------------------------------------------
(* What the handlers ask *)

\* scene_context.target_reacquired is an alias of every event of its frame.
Aliases(e) == IF e.kind = "memory" THEN e.own ELSE e.own \cup context.reacquired
KeysOf(e) == {e.key} \cup Aliases(e)

GapActive(keys) ==
    \E k \in keys \cap DOMAIN lastEmitted : now - lastEmitted[k] < SameKeyGap

IsFastPassing(e) == e.kind = "passing" /\ "fast" \in {e.pace, context.pace}

Matches(keys) ==
    {i \in DOMAIN pending : ({pending[i].event.key} \cup pending[i].aliases)
                              \cap keys # {}}
First(S) == CHOOSE i \in S : \A j \in S : i <= j
WithoutMatch(keys) ==
    IF Matches(keys) = {} THEN pending ELSE RemoveAt(pending, First(Matches(keys)))

\* A dict: a key that is there already keeps its place.
Put(waiting, p) ==
    IF \E i \in DOMAIN waiting : waiting[i].event.key = p.event.key
    THEN [i \in DOMAIN waiting |->
            IF waiting[i].event.key = p.event.key THEN p ELSE waiting[i]]
    ELSE Append(waiting, p)

KnownKeys(e) ==
    IF Matches(KeysOf(e)) # {}
    THEN {pending[First(Matches(KeysOf(e)))].event.key}
    ELSE KeysOf(e) \cap DOMAIN lastEmitted

Due == {i \in DOMAIN pending : now - pending[i].created >= CoalesceWindow}

-----------------------------------------------------------------------------
(* _emit_event and _rate_limit_allows *)

MinuteOver(t) == now - t >= Minute
\* How many timestamps the loop of _rate_limit_allows pops.
Popped(n) ==
    /\ \A i \in 1..n : MinuteOver(recent[i])
    /\ n < Len(recent) => ~ MinuteOver(recent[n + 1])

BurstCount(times) == Cardinality({i \in DOMAIN times : now - times[i] < Second})

AllowsOneMore(times) ==                                           \* mutant
    Len(times) <= MinuteLimit /\ BurstCount(times) <= SecondLimit
RateAllows(times) ==
    Len(times) < MinuteLimit /\ BurstCount(times) < SecondLimit

Write(e, key, marks, leftAfter) ==
    /\ lastEmitted' = [k \in DOMAIN lastEmitted \cup marks |->
                          IF k \in marks THEN now ELSE lastEmitted[k]]
    /\ leftMark' = (leftMark \ marks) \cup leftAfter
    /\ log' = Append(log, [event |-> e, key |-> key, marks |-> marks, at |-> now])

\* leftAfter: the keys whose visit this emission ends.
TryEmit(e, key, leftAfter) ==
    \E n \in 0..Len(recent) :
        /\ Popped(n)
        /\ LET kept == SubSeq(recent, n + 1, Len(recent)) IN
             \/ /\ RateAllows(kept)
                /\ recent' = Append(kept, now)
                /\ Write(e, key, {key} \cup Aliases(e), leftAfter)
             \/ /\ ~ RateAllows(kept)
                /\ recent' = kept
                /\ UNCHANGED <<keyVars, log>>

-----------------------------------------------------------------------------
(* frames_from_visual_state *)

BeginFrame ==
    /\ phase = "idle"
    /\ \E events \in SUBSET Catalogue :
         /\ Cardinality(events) <= MaxBatch
         /\ todo' = events
    /\ context' \in Contexts \cup {NoContext}
    /\ phase' = "frame"
    /\ inFrame' = {}
    /\ UNCHANGED <<now, seen, pending, keyVars, recent, log, forgotten>>

IsNext(e) == e \in todo /\ \A f \in todo : Priority[f.kind] <= Priority[e.kind]

Known(e) == e.id \in inFrame \cup ToSet(seen)

SkipDuplicate(e) ==
    /\ IsNext(e) /\ Known(e)
    /\ todo' = todo \ {e}
    /\ UNCHANGED <<now, phase, inFrame, context, seen, pending, keyVars,
                   recent, log, forgotten>>

Remember(id) ==
    \/ MaxSeen = 0 /\ forgotten' = forgotten \cup {id} /\ UNCHANGED seen
    \/ /\ MaxSeen > Len(seen)
       /\ seen' = Append(seen, id)
       /\ UNCHANGED forgotten
    \/ /\ MaxSeen > 0 /\ MaxSeen = Len(seen)
       /\ seen' = Append(Tail(seen), id)
       /\ forgotten' = forgotten \cup {Head(seen)}

\* What every event that is not a duplicate does before _handle_event.
Take(e) ==
    /\ IsNext(e) /\ ~ Known(e)
    /\ todo' = todo \ {e}
    /\ inFrame' = inFrame \cup {e.id}
    /\ Remember(e.id)
    /\ UNCHANGED <<now, phase, context>>

\* person_appeared, a fast passer-by, somebody leaving nobody was told of.
Silence(e) ==
    /\ Take(e)
    /\ \/ e.kind = "appeared"
       \/ IsFastPassing(e)
       \/ e.kind \in DeferredKinds /\ GapActive(KeysOf(e))
       \/ e.kind = "left" /\ KnownKeys(e) = {}
    /\ UNCHANGED <<pending, keyVars, recent, log>>

Defer(e) ==
    /\ Take(e)
    /\ e.kind \in DeferredKinds /\ ~ IsFastPassing(e)
    /\ ~ GapActive(KeysOf(e))
    /\ pending' = Put(WithoutMatch(KeysOf(e)),
                      [event |-> e, aliases |-> Aliases(e), created |-> now])
    /\ UNCHANGED <<keyVars, recent, log>>

Immediate(e) ==
    /\ Take(e)
    /\ e.kind \in ImmediateKinds
    /\ pending' = WithoutMatch(KeysOf(e))
    /\ \/ GapActive(KeysOf(e)) /\ UNCHANGED <<keyVars, recent, log>>
       \/ ~ GapActive(KeysOf(e)) /\ TryEmit(e, e.key, {})

EndsOneKey(e, k) == {k}                                           \* mutant
EndsVisit(e, k) == {k} \cup KeysOf(e)

\* _find_known_key walks a set of keys: any of the known ones can come first.
Left(e) ==
    /\ Take(e)
    /\ e.kind = "left"
    /\ \E k \in KnownKeys(e) :
         /\ pending' = WithoutMatch(KeysOf(e))
         /\ \/ k \in leftMark /\ UNCHANGED <<keyVars, recent, log>>
            \/ k \notin leftMark /\ TryEmit(e, k, EndsVisit(e, k))

\* One turn of _flush_expired_pending, in the order of the dict.
Flush ==
    /\ phase = "frame" /\ todo = {} /\ Due # {}
    /\ LET p == pending[First(Due)] IN
         \/ /\ GapActive({p.event.key} \cup p.aliases \cup Aliases(p.event))
            /\ UNCHANGED <<keyVars, recent, log>>
         \/ /\ ~ GapActive({p.event.key} \cup p.aliases \cup Aliases(p.event))
            /\ TryEmit(p.event, p.event.key, {})
    /\ pending' = RemoveAt(pending, First(Due))
    /\ UNCHANGED <<now, frameVars, seen, forgotten>>

EndFrame ==
    /\ phase = "frame" /\ todo = {} /\ Due = {}
    /\ phase' = "idle"
    /\ inFrame' = {}
    /\ context' = NoContext
    /\ UNCHANGED <<now, todo, seen, pending, keyVars, recent, log, forgotten>>

Tick ==
    /\ phase = "idle" /\ now < MaxTime
    /\ now' = now + 1
    /\ UNCHANGED <<frameVars, seen, pending, keyVars, recent, log, forgotten>>

Handle == \E e \in Catalogue :
    SkipDuplicate(e) \/ Silence(e) \/ Defer(e) \/ Immediate(e) \/ Left(e)

Next == BeginFrame \/ Handle \/ Flush \/ EndFrame \/ Tick

Spec == Init /\ [][Next]_vars

-----------------------------------------------------------------------------
(* Properties *)

\* An event id is written at most once, as long as the gate remembers it
\* (_seen_event_ids, also while the event waits in _pending_by_key).
EmittedOnce ==
    \A i, j \in DOMAIN log :
        i < j /\ log[i].event.id = log[j].event.id => log[i].event.id \in forgotten

\* Two frames that share a key or an alias are same_key_min_gap_ms apart, unless
\* the later one says that the person left.
GapKept ==
    \A i, j \in DOMAIN log :
        i < j /\ log[j].event.kind # "left" /\ log[i].marks \cap log[j].marks # {}
            => log[j].at - log[i].at >= SameKeyGap

\* No minute has more than global_60s_limit frames and no second more than
\* burst_1s_limit, whatever was dropped, deferred or flushed in between.
RateLimits ==
    /\ \A i, j \in DOMAIN log :
         j - i >= MinuteLimit => log[j].at - log[i].at >= Minute
    /\ \A i, j \in DOMAIN log :
         j - i >= SecondLimit => log[j].at - log[i].at >= Second

\* What the gate lets through is within every limit at once (_gap_active,
\* _rate_allows), and its memory within its bounds.
Limits == TypeOK /\ GapKept /\ RateLimits

\* Between two frames that say the same person left there is one that says
\* something else about that person (_left_emitted_by_key).
LeftOnce ==
    \A i, j \in DOMAIN log :
        /\ i < j
        /\ log[i].event.kind = "left" /\ log[j].event.kind = "left"
        /\ log[j].key \in log[i].marks \cup {log[i].event.key}
        => \E m \in i+1..j-1 :
              log[m].event.kind # "left" /\ log[j].key \in log[m].marks

\* Nothing is said twice: no event, and no departure of one person.
SaidOnce == EmittedOnce /\ LeftOnce
=============================================================================
