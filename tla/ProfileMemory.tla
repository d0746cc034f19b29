---------------------------- MODULE ProfileMemory ----------------------------
(***************************************************************************)
(* services/profile-memory-service for one user of one workspace: a signal  *)
(* arrives as an event of the queue or in a request, is recorded as a       *)
(* behaviour event, may change preferences and facts, and ends with a new   *)
(* behaviour summary and a published update.  Every statement is an await   *)
(* of its own: rows are looked up, and then inserted or updated.            *)
(*                                                                          *)
(* The tables have the keys of the migration (one profile of a user, one    *)
(* preference and one fact of a key), under the names the statements use.   *)
(* Confidences are thousandths.                                             *)
(***************************************************************************)
EXTENDS Integers, Sequences, FiniteSets, FiniteSetsExt, SequencesExt, TLC

CONSTANTS
    Signals,
    SignalOf,      \* [via, type, words, settings, category, rating, topics, hour]
    Posted,        \* the signals of one POST, in order
    Indicators,    \* the word lists of preference-tracker.ts
    DomainsOf,     \* the domains that each word stands for
    Threshold,     \* inferenceConfidenceThreshold
    RecentLimit,   \* 50: the events a summary is made of
    MaxProfileFaults

VARIABLES
    profile,       \* is there a profile
    preferences, facts,
    behavior,      \* behavior_events in the order of insertion: [of, at]
    summary,       \* user_profiles.behaviour_summary
    handling,      \* what each signal's handler is at
    published,
    context,       \* a GET of the user's context: what it was promised by the
                   \* updates before it, and what it has read
    profileFaults

rowVars == <<profile, preferences, facts, behavior, summary>>
profileVars == <<rowVars, handling, published, context, profileFaults>>

ProfileAssumption ==
    /\ IsFiniteSet(Signals)
    /\ \A s \in Signals : IsFiniteSet(SignalOf[s].settings)
    /\ \A list \in {"concise", "detailed", "id", "en"} : IsFiniteSet(Indicators[list])
    /\ Threshold \in 0..1000
    /\ RecentLimit \in Nat \ {0}
    /\ MaxProfileFaults \in Nat

ASSUME ProfileConstants == ProfileAssumption

-----------------------------------------------------------------------------
(* preference-tracker.ts                                                    *)
Pref(key, value, source, confidence) ==
    [key |-> key, value |-> value, source |-> source, confidence |-> confidence]

Least(a, b) == IF a <= b THEN a ELSE b
When(condition, S) == IF condition THEN S ELSE {}

(* Of two lists of indicators, the one with more hits wins, if it has       *)
(* enough of them; its confidence is its share of a whole, up to a limit.    *)
Hits(words, list) == Cardinality(words \cap Indicators[list])
Leaning(words, key, options, enough, whole, limit) ==
    {Pref(key, o, "inferred", Least((Hits(words, o) * 1000) \div whole, limit)) :
        o \in {o \in options : /\ Hits(words, o) >= enough
                              /\ \A p \in options \ {o} : Hits(words, o) > Hits(words, p)}}

LanguageHits(words) == Hits(words, "id") + Hits(words, "en")

AnalyzeSearchQueries(queries) ==
    LET words == UNION Range(queries)
        domains == UNION {DomainsOf[w] : w \in words \cap DOMAIN DomainsOf}
    IN  IF queries = <<>> THEN {}
        ELSE Leaning(words, "response_style", {"concise", "detailed"}, 2, Len(queries), 900)
             \cup Leaning(words, "language", {"id", "en"}, 3, LanguageHits(words), 950)
             \cup When(domains # {}, {Pref("domain_interests", domains, "inferred", 600)})

(* Both callers pass the one rating at hand, and three are needed.          *)
AnalyzeFeedback(entries) ==
    IF Len(entries) >= 3
         /\ Cardinality(UNION {e.words : e \in Range(entries)} \cap Indicators["concise"]) >= 2
    THEN {Pref("response_style", "concise", "inferred", 750)}
    ELSE {}

AnalyzeExplicitSettings(settings) == {Pref(s[1], s[2], "explicit", 1000) : s \in settings}

-----------------------------------------------------------------------------
(* behavior-analyzer.ts, on the recent signals, newest first: the summary,  *)
(* and the categories of the patterns it detects.  last_active_at is the    *)
(* time of the last in the list.                                            *)
Of(recent, type) == {i \in DOMAIN recent : SignalOf[recent[i]].type = type}

AnalyzeRecentEvents(recent) ==
    LET telling == {i \in DOMAIN recent : SignalOf[recent[i]].type \in {"search", "document_view"}}
        categories == {SignalOf[recent[i]].category : i \in telling} \ {"none"}
    IN  [total_searches |-> Cardinality(Of(recent, "search")),
         total_document_views |-> Cardinality(Of(recent, "document_view")),
         top_categories |-> categories,
         last_active_at |-> recent[Len(recent)]]

Patterns(recent) ==
    LET searches == Of(recent, "search")
        rated == Of(recent, "feedback")
        hour(i) == SignalOf[recent[i]].hour
        rating(i) == SignalOf[recent[i]].rating
        often == {t \in UNION {SignalOf[s].topics : s \in Range(recent)} :
                    LET n == Cardinality({i \in DOMAIN recent : t \in SignalOf[recent[i]].topics})
                    IN  n >= 3 /\ 10 * n > 3 * Len(recent)}
        during(a, b) == Cardinality({i \in DOMAIN recent : hour(i) \in a..b})
        span == Max({hour(i) : i \in searches}) - Min({hour(i) : i \in searches})
        total == MapThenSumSet(rating, rated)
    IN  When(Cardinality(searches) >= 5 /\ span < 4 * (Cardinality(searches) - 1),
             {"search_frequency"})
        \cup When(Len(recent) >= 10 /\ \E h \in {6, 12, 18} : 10 * during(h, h + 5) > 4 * Len(recent),
                  {"active_hours"})
        \cup When(often # {}, {"topic_interest"})
        \cup When(Cardinality(rated) >= 3
                    /\ (total >= 4 * Cardinality(rated) \/ total <= 2 * Cardinality(rated)),
                  {"feedback_sentiment"})

-----------------------------------------------------------------------------
(* The order in which a handler does its work: the three handlers of the    *)
(* worker, and processSignal of the route.                                  *)
Plan(s) ==
    LET type == SignalOf[s].type
    IN  IF SignalOf[s].via = "http"
        THEN <<"profile", "record", "prefs", "fact", "read", "summary", "count", "update">>
        ELSE IF type = "search"
        THEN <<"profile", "record", "read", "summary", "prefs", "count", "update">>
        ELSE IF type = "document_view"
        THEN <<"profile", "record", "read", "summary", "fact", "count", "update">>
        ELSE <<"profile", "record", "prefs", "read", "summary", "count", "update">>

(* The preferences a signal leads to: the worker looks at the searches      *)
(* among the recent events, once there are three; the route at the query    *)
(* of the signal itself.                                                    *)
QueriesOf(s, recent) ==
    LET searches == SelectSeq(recent, LAMBDA r : SignalOf[r].type = "search")
    IN  IF SignalOf[s].via = "http" THEN <<SignalOf[s].words>>
        ELSE IF Len(searches) < 3 THEN <<>>
        ELSE [i \in 1..Len(searches) |-> SignalOf[searches[i]].words]

FromRecentSearches(s) == SignalOf[s].type = "search" /\ SignalOf[s].via # "http"

PreferencesOf(s, recent) ==
    LET sig == SignalOf[s]
    IN  IF sig.type = "search" THEN AnalyzeSearchQueries(QueriesOf(s, recent))
        ELSE IF sig.type = "feedback" THEN AnalyzeFeedback(<<sig>>)
        ELSE IF sig.type = "setting_change" THEN AnalyzeExplicitSettings(sig.settings)
        ELSE {}

(* ... and the fact, if a document with a category is viewed.               *)
FactsOf(s) ==
    When(SignalOf[s].type = "document_view" /\ SignalOf[s].category # "none",
         {Pref("document_category_interest", SignalOf[s].category, s, 500)})

(* "conflict": a statement of the handler broke a key; "failed": one was    *)
(* rejected.                                                                *)
HandlerEnded == {"done", "conflict", "failed"}

NoHandler == [pc |-> "waiting", at |-> 0, found |-> FALSE, todo |-> <<>>, recent |-> <<>>,
              counts |-> <<>>]

NoContext == [pc |-> "none", promised |-> {}, read |-> <<>>]

ProfileInit ==
    /\ profile = FALSE
    /\ preferences = {} /\ facts = {}
    /\ behavior = <<>> /\ summary = <<>>
    /\ handling = [s \in Signals |-> NoHandler]
    /\ published = {}
    /\ context = NoContext
    /\ profileFaults = 0

Pc(s) == handling[s].pc
Sets(s, h) == handling' = [handling EXCEPT ![s] = h]
Ends(s, pc) == Sets(s, [NoHandler EXCEPT !.pc = pc, !.at = handling[s].at])

(* The time that a handler reads before it records its event.               *)
Stamped(s) == [handling[s] EXCEPT !.pc = "record",
                                  !.at = Max({handling[r].at : r \in Signals}) + 1]

(* The handler goes on with the stage after the present one.                *)
NextStage(s) ==
    LET plan == Plan(s)
        i == CHOOSE i \in DOMAIN plan : plan[i] = Pc(s)
    IN  plan[i + 1]

(* ... with what there is to upsert there.                                  *)
Onward(s, h) ==
    LET stage == NextStage(s)
        items == IF stage = "prefs" THEN PreferencesOf(s, h.recent)
                 ELSE IF stage = "fact" THEN FactsOf(s) ELSE {}
    IN  Sets(s, [h EXCEPT !.pc = stage, !.todo = SetToSeq(items), !.found = FALSE])

-----------------------------------------------------------------------------
(* getOrCreateProfile: the lookup, and the insertion.  The signals of a     *)
(* POST are processed in turn, whether the one before failed or not.        *)
LookUpProfile(s) ==
    /\ Pc(s) = "waiting"
    /\ \A i \in DOMAIN Posted, j \in DOMAIN Posted :
          i < j /\ Posted[j] = s => Pc(Posted[i]) \in HandlerEnded
    /\ Sets(s, IF profile THEN Stamped(s) ELSE [handling[s] EXCEPT !.pc = "profile"])
    /\ UNCHANGED <<rowVars, published, context, profileFaults>>

InsertProfile(s) ==
    /\ Pc(s) = "profile"
    /\ IF profile
       THEN Ends(s, "conflict") /\ UNCHANGED <<profile, summary>>
       ELSE /\ profile' = TRUE
            /\ summary' = [total_searches |-> 0, total_document_views |-> 0,
                           top_categories |-> {}, last_active_at |-> "never"]
            /\ Sets(s, Stamped(s))
    /\ UNCHANGED <<preferences, facts, behavior, published, context, profileFaults>>

RecordBehaviorEvent(s) ==
    /\ Pc(s) = "record"
    /\ behavior' = Append(behavior, [of |-> s, at |-> handling[s].at])
    /\ Onward(s, handling[s])
    /\ UNCHANGED <<profile, preferences, facts, summary, published, context, profileFaults>>

(* getBehaviorEvents: the most recent ones, newest first.                   *)
RecentOf(events) ==
    LET newest == SortSeq(events, LAMBDA a, b : a.at > b.at)
    IN  [i \in 1..Least(Len(events), RecentLimit) |-> newest[i].of]

GetBehaviorEvents(s) ==
    /\ Pc(s) = "read"
    /\ Onward(s, [handling[s] EXCEPT !.recent = RecentOf(behavior)])
    /\ UNCHANGED <<rowVars, published, context, profileFaults>>

(* Mutant: the counters of the row are added to.                            *)
AddToBehaviourSummary(s) ==
    /\ Pc(s) = "summary"
    /\ LET analysis == AnalyzeRecentEvents(handling[s].recent)
       IN  summary' = [analysis EXCEPT !.total_searches = @ + summary.total_searches]
    /\ Onward(s, handling[s])
    /\ UNCHANGED <<profile, preferences, facts, behavior, published, context, profileFaults>>

(* updateBehaviourSummary: all fields are replaced.                         *)
UpdateBehaviourSummary(s) ==
    /\ Pc(s) = "summary"
    /\ summary' = AnalyzeRecentEvents(handling[s].recent)
    /\ Onward(s, handling[s])
    /\ UNCHANGED <<profile, preferences, facts, behavior, published, context, profileFaults>>

-----------------------------------------------------------------------------
(* upsertPreference and upsertProfileFact: the lookup, then an update of    *)
(* the row that was found, or an insertion.                                 *)
Rows(stage) == IF stage = "prefs" THEN preferences ELSE facts
RowOf(stage, key) == {r \in Rows(stage) : r.key = key}

Upserting(s) == Pc(s) \in {"prefs", "fact"} /\ handling[s].todo # <<>>
Item(s) == Head(handling[s].todo)

LookUpRow(s) ==
    /\ Upserting(s)
    /\ Sets(s, [handling[s] EXCEPT !.pc = IF @ = "prefs" THEN "writePref" ELSE "writeFact",
                                   !.found = RowOf(Pc(s), Item(s).key) # {}])
    /\ UNCHANGED <<rowVars, published, context, profileFaults>>

(* The evidence of a fact is to be merged with what the row has, but the    *)
(* lookup selects the id alone: the new evidence replaces it.               *)
StoreRow(stage, row) ==
    IF stage = "prefs"
    THEN preferences' = (preferences \ RowOf(stage, row.key)) \cup {row} /\ UNCHANGED facts
    ELSE facts' = (facts \ RowOf(stage, row.key)) \cup {row} /\ UNCHANGED preferences

(* The worker and the route announce what a search let them infer.          *)
IsAnnounced(s, row) ==
    SignalOf[s].type = "search" /\ row.source = "inferred" /\ row.confidence >= Threshold

WriteRow(s) ==
    /\ Pc(s) \in {"writePref", "writeFact"}
    /\ LET stage == IF Pc(s) = "writePref" THEN "prefs" ELSE "fact"
           rest == [handling[s] EXCEPT !.pc = stage, !.todo = Tail(@)]
       IN  IF ~handling[s].found /\ RowOf(stage, Item(s).key) # {}
           THEN Ends(s, "conflict") /\ UNCHANGED <<preferences, facts>>
           ELSE /\ StoreRow(stage, Item(s))
                /\ Sets(s, IF IsAnnounced(s, Item(s))
                           THEN [handling[s] EXCEPT !.pc = "detected"] ELSE rest)
    /\ UNCHANGED <<profile, behavior, summary, published, context, profileFaults>>

(* publishPreferenceDetected.                                               *)
PublishPreference(s) ==
    /\ Pc(s) = "detected"
    /\ published' = published \cup {[type |-> "preference", of |-> s, row |-> Item(s)]}
    /\ Sets(s, [handling[s] EXCEPT !.pc = "prefs", !.todo = Tail(@)])
    /\ UNCHANGED <<rowVars, context, profileFaults>>

UpsertsDone(s) ==
    /\ Pc(s) \in {"prefs", "fact"} /\ handling[s].todo = <<>>
    /\ Onward(s, handling[s])
    /\ UNCHANGED <<rowVars, published, context, profileFaults>>

-----------------------------------------------------------------------------
(* The counts are read one after the other, then the update is published.   *)
CountRows(s) ==
    /\ Pc(s) = "count"
    /\ LET h == [handling[s] EXCEPT !.counts = Append(@, Cardinality(IF @ = <<>> THEN preferences
                                                                     ELSE facts))]
       IN  IF Len(h.counts) = 2 THEN Onward(s, h) ELSE Sets(s, h)
    /\ UNCHANGED <<rowVars, published, context, profileFaults>>

PublishProfileUpdated(s) ==
    /\ Pc(s) = "update"
    /\ published' = published \cup {[type |-> "updated", of |-> s, counts |-> handling[s].counts,
                                     changed |-> {SignalOf[s].type} \cup Patterns(handling[s].recent)]}
    /\ Ends(s, "done")
    /\ UNCHANGED <<rowVars, context, profileFaults>>

(* Mutant: the failed signal is processed again from the start.             *)
HandlerStartsOver(s) ==
    /\ Pc(s) \notin {"waiting"} \cup HandlerEnded
    /\ profileFaults < MaxProfileFaults
    /\ profileFaults' = profileFaults + 1
    /\ Ends(s, "waiting")
    /\ UNCHANGED <<rowVars, published, context>>

(* An awaited call rejects: what was done stays done.  (A lost answer is    *)
(* the call and then this.)                                                 *)
HandlerFails(s) ==
    /\ Pc(s) \notin {"waiting"} \cup HandlerEnded
    /\ profileFaults < MaxProfileFaults
    /\ profileFaults' = profileFaults + 1
    /\ Ends(s, "failed")
    /\ UNCHANGED <<rowVars, published, context>>

-----------------------------------------------------------------------------
(* buildProfileContext for the GET: the profile, or 404; then preferences   *)
(* and facts, side by side.                                                 *)
GetProfile ==
    /\ context.pc = "none"
    /\ context' = [context EXCEPT
          !.pc = IF profile THEN "reading" ELSE "not found",
          !.promised = {e.counts : e \in {e \in published : e.type = "updated"}}]
    /\ UNCHANGED <<rowVars, handling, published, profileFaults>>

GetRows(stage) ==
    /\ context.pc = "reading"
    /\ stage \notin DOMAIN context.read
    /\ context' = [context EXCEPT
          !.read = [x \in DOMAIN @ \cup {stage} |-> IF x = stage THEN Rows(stage) ELSE @[x]],
          !.pc = IF context.read = <<>> THEN @ ELSE "answered"]
    /\ UNCHANGED <<rowVars, handling, published, profileFaults>>

ProfileNext ==
    \/ \E s \in Signals :
          \/ LookUpProfile(s) \/ InsertProfile(s) \/ RecordBehaviorEvent(s)
          \/ GetBehaviorEvents(s) \/ UpdateBehaviourSummary(s)
          \/ LookUpRow(s) \/ WriteRow(s) \/ PublishPreference(s) \/ UpsertsDone(s)
          \/ CountRows(s) \/ PublishProfileUpdated(s) \/ HandlerFails(s)
    \/ GetProfile
    \/ \E stage \in {"prefs", "fact"} : GetRows(stage)

ProfileSpec == ProfileInit /\ [][ProfileNext]_profileVars

-----------------------------------------------------------------------------
ProfileTypeOK ==
    /\ profile \in BOOLEAN
    /\ \A r \in preferences \cup facts : r.confidence \in 0..1000
    /\ \A s \in Signals : Pc(s) \in {"waiting", "profile", "record", "read", "summary", "prefs",
                                     "fact", "writePref", "writeFact", "detected", "count",
                                     "update"} \cup HandlerEnded
    /\ \A e \in published : e.type \in {"updated", "preference"} /\ e.of \in Signals
    /\ profileFaults \in 0..MaxProfileFaults

(* Two first signals of a user race for the profile.  The one that loses    *)
(* the race for a row leaves nothing half done that it had not done before: *)
(* it fails, and the profile is there.  A signal is recorded at most once,  *)
(* and every one that completes, once.                                      *)
SignalsRecordedOnce ==
    /\ \A s \in Signals :
          LET times == Cardinality({i \in DOMAIN behavior : behavior[i].of = s})
          IN  /\ times <= 1
              /\ Pc(s) = "done" => times = 1
    /\ behavior # <<>> \/ (\E s \in Signals : Pc(s) = "conflict") => profile

(* The summary is that of the events there were at some moment since the    *)
(* first was recorded, and not of a state no reader ever saw, however the   *)
(* handlers overlap.                                                        *)
SummaryOfAMoment ==
    profile => \/ summary.last_active_at = "never"
               \/ \E n \in 1..Len(behavior) :
                     summary = AnalyzeRecentEvents(RecentOf(SubSeq(behavior, 1, n)))

(* Who has heard of an update and then asks for the context is answered: no *)
(* 404, and no fewer rows than the update counted.  An announced preference *)
(* has a row, and an update counts what its own signal stored.              *)
UpdatesAreCounted ==
    /\ context.promised # {} => context.pc # "not found"
    /\ context.pc = "answered" =>
          \A c \in context.promised : /\ c[1] <= Cardinality(context.read["prefs"])
                                      /\ c[2] <= Cardinality(context.read["fact"])
    /\ \A e \in published :
          /\ e.type = "preference" => RowOf("prefs", e.row.key) # {}
          /\ e.type = "updated" =>
                /\ ~ FromRecentSearches(e.of) /\ PreferencesOf(e.of, <<>>) # {} => e.counts[1] >= 1
                /\ FactsOf(e.of) # {} => e.counts[2] >= 1

(* What is stored of a user, and what is said of it, fit each other.        *)
ProfileIsConsistent == SummaryOfAMoment /\ UpdatesAreCounted
=============================================================================
