----------------------------- MODULE MCSessionViews -----------------------------
(***************************************************************************)
(* What a capture shows while it runs (LiveSession) and what the history   *)
(* view shows of it (History), for TLC.  The two share no state: each      *)
(* initial state begins one of them and the other stands still.            *)
(***************************************************************************)
EXTENDS MCLiveSession, HistoryStories

CONSTANTS Readers, Stories, MaxRecent, PageSize, ListTTL, DetailTTL, ListEntries, DetailEntries,
          CleanupEvery, PrivateHosts, OwnHosts, Day, HostOf, AuthTargets, SensitiveTargets, Limits

VARIABLES part, story, captured, moment, changes, turned, restarted, clearings, seq, recent,
          recentAlerts, queue, writer, persisting, packetRows, alertRows, keys, dated, cleanedAt,
          cache, reader

H == INSTANCE History WITH log <- captured, cleared <- clearings

storyVars == <<story, captured, moment, changes, turned, restarted, clearings, seq, recent,
               recentAlerts, queue, writer, persisting, packetRows, alertRows, keys, dated,
               cleanedAt, cache, reader>>

ViewsInit ==
    /\ SessionInit /\ H!HistoryInit
    /\ \/ part = "live" /\ story = NoStory
       \/ part = "history" /\ session = NoSession
ViewsNext ==
    \/ part = "live" /\ SessionNext /\ UNCHANGED <<part, storyVars>>
    \/ part = "history" /\ H!HistoryNext /\ UNCHANGED <<part, sessionVars>>
ViewsSpec == ViewsInit /\ [][ViewsNext]_<<part, sessionVars, storyVars>>

\* The contexts shown for a packet or an alert are its own, see History.
ContextsSound == H!ContextsAgree /\ H!LinkedIsOwn /\ H!StreamSound

\* The pages shown are those of one list, see History.
ListsSound == H!WalkComplete /\ H!AnswerSound
=============================================================================
