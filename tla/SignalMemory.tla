---------------------------- MODULE SignalMemory ----------------------------
(***************************************************************************)
(* The memory of market signals (market_signals/service.py, tools.py): a   *)
(* person's agents, the news judge and the capture write notes on symbols, *)
(* sectors and tags, archive them, and look them up again.  A search takes *)
(* the newest rows first and looks at their topics afterwards.  Nothing is *)
(* deleted: mark_expired_stale and delete_archived_before have no caller.  *)
(* The capture's search and write are one step here; what other threads do *)
(* between the two is in Monitors.                                         *)
(***************************************************************************)
EXTENDS Integers, Sequences, FiniteSets, FiniteSetsExt

CONSTANTS
    SignalNotes,    \* what is written: title, topics, nature and end
    Searches,       \* what is asked
    MemoryWindow,   \* rows a search looks at, 250
    MostShown,      \* signals a search returns at most, 50
    UsuallyShown,   \* and if no limit is given, 8
    MaxSignalsKept, \* bound: signals written
    LastHour        \* bound: how long it goes on

VARIABLES
    memory,     \* the rows, in the order they were written
    hour,       \* the time of day
    found       \* the last search and what it returned

signalVars == <<memory, hour, found>>

Topics == {"symbols", "sectors", "tags"}

\* market_signal_create's arguments. The nature stands for type, direction,
\* horizon and source, each of which is compared for equality; an end is the
\* time on the wall and its distance from UTC, and negative if no time.
SignalNote(n) ==
    /\ DOMAIN n = Topics \cup {"title", "nature", "end"}
    /\ n.end \subseteq [wall : Int, offset : Int] /\ Cardinality(n.end) <= 1
\* market_signal_search's: an empty set of a topic or a nature is no filter.
SignalQuery(q) ==
    /\ DOMAIN q = Topics \cup {"nature", "active", "expired", "limit"}
    /\ q.limit \in Int

ASSUME SearchesAreWellFormed ==
    /\ \A n \in SignalNotes : SignalNote(n)
    /\ \A q \in Searches : SignalQuery(q)
    /\ {MemoryWindow, MostShown} \subseteq Nat \ {0} /\ UsuallyShown \in 1..MostShown

Stored == DOMAIN memory
NothingFound == [by |-> "nobody", query |-> {}, shown |-> {}, added |-> {}]

SignalInit == memory = <<>> /\ hour = 0 /\ found = NothingFound

-----------------------------------------------------------------------------
(* create_signal and archive_signal *)

NoteRefused(n) ==
    \/ n.title = ""
    \/ \A t \in Topics : n[t] = {}
    \/ \E e \in n.end : e.wall < 0

\* The end is kept as it stands on the wall: SQLite has no time zones. How far it
\* was ahead of UTC is not stored, and only told here for the property.
Row(n) ==
    [title |-> n.title, topics |-> [t \in Topics |-> n[t]], nature |-> n.nature,
     end |-> {e.wall : e \in n.end}, ahead |-> {e.offset : e \in n.end},
     status |-> "active", updated |-> hour]

CreateSignal(n) ==
    /\ ~NoteRefused(n) /\ Len(memory) < MaxSignalsKept
    /\ memory' = Append(memory, Row(n))
    /\ found' = NothingFound
    /\ UNCHANGED hour

\* One that is archived already counts as changed again.
Archived(i) == [memory[i] EXCEPT !.status = "archived", !.updated = hour]

ArchiveSignal(i) ==
    /\ memory' = [memory EXCEPT ![i] = Archived(i)]
    /\ found' = NothingFound
    /\ UNCHANGED hour

-----------------------------------------------------------------------------
(* search_signals *)

Limit(q) ==
    IF q.limit = 0 THEN UsuallyShown ELSE Max({1, Min({MostShown, q.limit})})

\* The ways to take the first n of a set, by the pairs that are in order: which of
\* two equals is left to the database, or to the ids, which are random.
First(S, n, ahead) ==
    {T \in SUBSET S : /\ Cardinality(T) = Min({n, Cardinality(S)})
                      /\ ((S \ T) \X T) \cap ahead = {}}

Newer == {p \in Stored \X Stored : memory[p[1]].updated > memory[p[2]].updated}

\* The rows the query selects, and the newest of them.
Visible(q) ==
    {i \in Stored : /\ q.active => memory[i].status = "active"
                    /\ q.expired \/ \A e \in memory[i].end : e > hour}
\* For mutation testing: the limit is the query's.
CandidatesToLimit(q) == First(Visible(q), Limit(q), Newer)
Candidates(q) == First(Visible(q), MemoryWindow, Newer)

\* _matched_topical_fields, and _rank_for_match by the first of them.
MatchedTopics(q, i) == {t \in Topics : q[t] \cap memory[i].topics[t] # {}}
Rank(q, i) ==
    LET matched == MatchedTopics(q, i)
    IN  IF "symbols" \in matched THEN 30
        ELSE IF "sectors" \in matched THEN 20
        ELSE IF "tags" \in matched THEN 10 ELSE 0

Matches(q, i) ==
    /\ q.nature = {} \/ memory[i].nature \in q.nature
    /\ (\E t \in Topics : q[t] # {}) => MatchedTopics(q, i) # {}

Results(q) ==
    LET better == {p \in Stored \X Stored :
                     \/ Rank(q, p[1]) > Rank(q, p[2])
                     \/ Rank(q, p[1]) = Rank(q, p[2]) /\ p \in Newer}
    IN  UNION {First({i \in rows : Matches(q, i)}, Limit(q), better) : rows \in Candidates(q)}

SearchSignal(q) ==
    /\ \E shown \in Results(q) :
          found' = [by |-> "agent", query |-> q, shown |-> shown, added |-> {}]
    /\ UNCHANGED <<memory, hour>>

\* _write_signals, for one candidate: those that share a topic are looked up, and
\* it is written unless one of them is the same (_duplicate_reason).
CaptureQuery(n) ==
    [symbols |-> n.symbols, sectors |-> n.sectors, tags |-> n.tags, nature |-> {},
     active |-> TRUE, expired |-> FALSE, limit |-> MostShown]

CaptureSignal(n) ==
    /\ ~NoteRefused(n) /\ Len(memory) < MaxSignalsKept
    /\ \E shown \in Results(CaptureQuery(n)) :
          LET known == \E i \in shown : memory[i].title = n.title
          IN  /\ memory' = IF known THEN memory ELSE Append(memory, Row(n))
              /\ found' = [by |-> "capture", query |-> CaptureQuery(n), shown |-> shown,
                           added |-> IF known THEN {} ELSE {Len(memory) + 1}]
    /\ UNCHANGED hour

HourPasses ==
    /\ hour < LastHour
    /\ hour' = hour + 1
    /\ found' = NothingFound
    /\ UNCHANGED memory

SignalNext ==
    \/ \E n \in SignalNotes : CreateSignal(n) \/ CaptureSignal(n)
    \/ \E i \in Stored : ArchiveSignal(i)
    \/ \E q \in Searches : SearchSignal(q)
    \/ HourPasses

SignalSpec == SignalInit /\ [][SignalNext]_signalVars

-----------------------------------------------------------------------------
(* Properties *)

\* What a search is for: the signal is about what was asked, and neither archived
\* nor past its end unless those were asked for as well.
Meant(q, i) ==
    LET m == memory[i]
    IN  /\ (\A t \in Topics : q[t] = {}) \/ \E t \in Topics : q[t] \cap m.topics[t] # {}
        /\ q.nature = {} \/ m.nature \in q.nature
        /\ m.status = "archived" => ~q.active
        /\ (\E e \in m.end, o \in m.ahead : e - o <= hour) => q.expired

\* So many rows have been written or archived since that the search never saw it.
CrowdedOut(i, others) ==
    Cardinality({j \in others \ {i} : <<i, j>> \notin Newer}) >= MemoryWindow

\* The answer is full of signals on what comes first in the question, or newer.
Outranked(i, q, shown) ==
    /\ Cardinality(shown) = Limit(q)
    /\ \A j \in shown : \/ Rank(q, j) > Rank(q, i)
                        \/ Rank(q, j) = Rank(q, i) /\ <<i, j>> \notin Newer

\* A search shows only what was meant, and all of it except what was crowded out
\* or outranked; and the capture adds no signal there already is one of, with the
\* same exceptions. Only ends given in UTC are kept: one with another offset is
\* stored without it.
SignalsAreFound ==
    found.by # "nobody" =>
      LET q == found.query
          before == Stored \ found.added
          inUtc == {i \in before : memory[i].ahead \subseteq {0}}
      IN  /\ \A i \in found.shown \cap inUtc : Meant(q, i)
          /\ \A i \in inUtc \ found.shown :
                Meant(q, i) => CrowdedOut(i, before) \/ Outranked(i, q, found.shown)
          /\ \A i \in inUtc, j \in found.added :
                Meant(q, i) /\ memory[i].title = memory[j].title =>
                   CrowdedOut(i, before) \/ Outranked(i, q, found.shown)

=============================================================================
