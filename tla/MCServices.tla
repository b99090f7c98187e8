------------------------------ MODULE MCServices ------------------------------
(***************************************************************************)
(* The services of the API that share no state, one of them in each        *)
(* behaviour (`which`), the others standing still: the commands of a       *)
(* record, LTI launches, the lab's key pair, logins and sessions, guesses  *)
(* at a password, the pages of a listing, the life of the process, the way *)
(* of its requests, the downloads of two processes or of one, the import   *)
(* of an EAF document, the packages of a record and its exchange formats.  *)
(***************************************************************************)
EXTENDS Integers, Sequences, TLC

CONSTANTS ada, MaxEdits,
          States, Posts, Ttl, MaxPending, TokenLife, Tolerance, MaxLag, MaxTime,
          MaxRestarts, MaxTokens,
          Processes, MaxPairs, None,
          Logins, MaxActive, MaxQueued, SessionLife, MaxClock, MaxStarts, MaxSessions,
          Accounts, Sources, GuessRequests, Leases, AccountLimit, SourceLimit, Window,
          MaxTracked, NoLag,
          Ids, Actors, Titles, AnyTitle, Limits, MaxChanges,
          Requests, MaxPasses, MaxRefreshes,
          Calls, MaxBytes, Durations, Transfers, MaxMishaps,
          Times, Fractions, MaxRegions, MaxComments,
          MaxExtras, LocalHeader, CentralHeader, EndRecord, MaxName, MaxArchive,
          MaxNodes

VARIABLES which,
  record, edits,
  now, flow, pending, tokens, restarts, post, registered, taken, accepted, scored,
  private, public, lock, temporaries, proc, keys, made, damaged,
  accounts, active, waiting, login, sessions, started, clock,
  failures, attempts, request, guesses,
  records, cursors, walk, listed, steady, changes,
  phase, open, timers, pass, refresh, gauges, handler, ready,
  call, counts, latency, answering,
  deployment, access, bytes, run, slots, held, serving, mishaps,
  exported, regions, comments, tree, cursor, swept, overlaps, imported,
  packaged, extras, kind, manifest, crate, archive, outcome,
  exchanged, format, carried, losses, brought, warnings, there, gained, reached

recordVars == <<record, edits>>
ltiVars == <<now, flow, pending, tokens, restarts, post, registered, taken, accepted, scored>>
keyVars == <<private, public, lock, temporaries, proc, keys, made, damaged>>
authVars == <<accounts, active, waiting, login, sessions, started, clock>>
guessVars == <<failures, attempts, request, guesses>>
listingVars == <<records, cursors, walk, listed, steady, changes>>
runtimeVars == <<phase, open, timers, pass, refresh, gauges, handler, ready>>
httpVars == <<call, counts, latency, answering>>
downloadVars == <<deployment, access, bytes, run, slots, held, serving, mishaps>>
eafVars == <<exported, regions, comments, tree, cursor, swept, overlaps, imported>>
packageVars == <<packaged, extras, kind, manifest, crate, archive, outcome>>
interopVars == <<exchanged, format, carried, losses, brought, warnings, there, gained, reached>>
formatVars == <<eafVars, packageVars, interopVars>>

-----------------------------------------------------------------------------
(* What each of them is instantiated with.                                 *)

RecordUsers == {ada}
AccountRole == (ada :> "faculty")

\* Ids are shared where a command meets what another made: the same take, region,
\* policy, track or snapshot again, with other contents.
Commands ==
  { [type |-> "add-subject", id |-> "s"],
    [type |-> "add-artifact", id |-> "a", subjects |-> {"s"},
     preserve |-> FALSE, hashed |-> FALSE],
    [type |-> "add-artifact", id |-> "b", subjects |-> {"s"},
     preserve |-> TRUE, hashed |-> TRUE],
    [type |-> "add-use-policy", id |-> "p", subject |-> "s",
     use |-> "assessment", state |-> "denied"],
    [type |-> "add-use-policy", id |-> "p", subject |-> "s",
     use |-> "assessment", state |-> "granted"],
    [type |-> "add-use-policy", id |-> "q", subject |-> "s",
     use |-> "assessment", state |-> "granted"],
    [type |-> "add-annotation"],
    [type |-> "add-snapshot", id |-> <<"opening night", 0>>],
    [type |-> "submit-version", name |-> "v1"],
    [type |-> "submit-version", name |-> "v2"],
    [type |-> "add-take", id |-> "t", label |-> "A"],
    [type |-> "set-preferred-take", id |-> "t"],
    [type |-> "add-region", id |-> "g", start |-> 0, end |-> 2],
    [type |-> "add-region", id |-> "h", start |-> 2, end |-> 2],
    [type |-> "add-comment", id |-> 0, region |-> "g", track |-> "none"],
    [type |-> "add-comment", id |-> 2, region |-> "g", track |-> "k"],
    [type |-> "resolve-comment", id |-> 2],
    [type |-> "add-track", id |-> "k", track |-> "analysis"],
    [type |-> "add-analysis-track", id |-> "k", track |-> "analysis"],
    [type |-> "attach-mvei-motif-track", id |-> "k"],
    [type |-> "attach-music-notation-track", id |-> "n"],
    [type |-> "attach-use-policy-snapshot", id |-> 1, allowed |-> TRUE],
    [type |-> "import-otio", tracks |-> <<[id |-> "k", track |-> "audio"]>>,
     takes |-> <<[id |-> "t", label |-> "B"]>>],
    [type |-> "import-eaf", regions |-> <<[id |-> "g", start |-> 0, end |-> 1]>>,
      comments |-> <<[id |-> 1, region |-> "g", track |-> "none",
                      author |-> "elan"]>>] }

Aggregate == INSTANCE RecordCommands WITH
  Users <- RecordUsers, MaxChanges <- MaxEdits, changes <- edits

ASSUME CommandsFit ==
  (\A c \in Commands : Aggregate!IsCommand(c)) /\ Aggregate!OwnSnapshotIds

Lti == INSTANCE LtiLaunch WITH
  Issuers <- {"lab", "other"}, Clients <- {"practice-relay-tool"},
  Expected <- [issuer |-> "lab", client |-> "practice-relay-tool"],
  Algorithm <- "HS256", Shared <- TRUE

LabKeyPair == INSTANCE LabKeys WITH Generate <- TRUE

\* The accounts of a start: a restart may find another role.
Configurations == {"ada" :> [role |-> r, password |-> "x"] : r \in {"faculty", "student"}}
Auth == INSTANCE Authentication WITH
  Users <- {"ada", "bob"}, Passwords <- {"x", "y"}, MaxTime <- MaxClock,
  MaxRestarts <- MaxStarts, SecretConfigured <- TRUE, now <- clock

Guesses == INSTANCE LoginGuesses WITH
  Requests <- GuessRequests, MaxLag <- NoLag, Shared <- FALSE

Listing == INSTANCE RecordListing
Runtime == INSTANCE ApiRuntime

\* One trait of a request after the other: hosts and origins, unknown methods and routes, callers
\* before each guard, and bodies below, at and above the limit, declared or not.
Plain == [host |-> "trusted", origin |-> "none", route |-> "health", method |-> "GET",
          caller |-> "member", declared |-> 0, chunks |-> <<>>, form |-> "object"]
Asks ==
  {[Plain EXCEPT !.host = h, !.origin = o, !.route = "command", !.method = "POST"] :
     h \in {"trusted", "untrusted"}, o \in {"trusted", "untrusted"}}
  \cup {[Plain EXCEPT !.method = "OPTIONS"], [Plain EXCEPT !.route = "unknown"],
        [Plain EXCEPT !.method = "BREW"], [Plain EXCEPT !.route = "upload"]}
  \cup {[Plain EXCEPT !.route = "metrics", !.caller = c] : c \in {"anonymous", "member", "admin"}}
  \cup {[Plain EXCEPT !.route = "media", !.caller = c] : c \in {"anonymous", "stranger"}}
  \cup {[Plain EXCEPT !.route = "users", !.caller = "faculty"], [Plain EXCEPT !.route = "me"]}
  \cup {[Plain EXCEPT !.route = x, !.method = "POST", !.caller = "admin", !.chunks = c] :
          x \in {"login", "restore"}, c \in {<<>>, <<1, 1>>, <<2, 1>>}}
  \cup {[Plain EXCEPT !.route = "login", !.method = "POST", !.chunks = <<2>>, !.form = "broken"],
        [Plain EXCEPT !.route = "restore", !.method = "POST", !.caller = "admin", !.declared = 3]}
Buckets == <<5, 10>>
Http == INSTANCE HttpRequests WITH
  Requests <- Calls, request <- call, up <- answering

\* Each transfer by a process of its own, which share a database, or all of them by one process.
Deployments ==
  {[on |-> [d \in Transfers |-> d], leased |-> TRUE],
   [on |-> [d \in Transfers |-> "process"], leased |-> FALSE]}
Transferring == INSTANCE Downloads WITH MaxProcess <- 1, MaxDeployment <- 1,
  active <- slots, leases <- held, up <- serving

\* Of other tools: one interval ends before it starts.
Intervals == {i \in [start : 0 .. 2, end : 0 .. 2, said : {TRUE}] :
                i.start <= i.end \/ (i.start = 2 /\ i.end = 0)}
Eaf == INSTANCE EafProjection WITH
  LabRegions <- Intervals \cup {[start |-> 0, end |-> 2, said |-> FALSE]},
  LabComments <- Intervals \cup {[start |-> 0, end |-> 1, said |-> FALSE]},
  record <- exported, outcome <- imported

PackageRecords ==
  [released : BOOLEAN, tracks : SUBSET {"t1"}, takes : SUBSET {"k1"}, takeIds : {{"k1", "k2"}},
   artifacts : UNION {[A -> SUBSET {"s1", "s2"}] : A \in SUBSET {"a1", "a2"}},
   subjects : {{"s1", "s2"}}]

\* Names that differ in case only, one of them the manifest's, one too long, one empty.
PackageExtras ==
  {[path |-> <<"motif.json">>, data |-> d, key |-> <<"motif.json">>] : d \in 0 .. 1} \cup
  {[path |-> <<"Motif.json">>, data |-> 1, key |-> <<"motif.json">>],
   [path |-> <<"scores", "a.xml">>, data |-> 2, key |-> <<"scores", "a.xml">>],
   [path |-> <<"scores", "a", "b", "c">>, data |-> 0, key |-> <<"scores", "a", "b", "c">>],
   [path |-> <<"Manifest.json">>, data |-> 1, key |-> <<"manifest.json">>],
   [path |-> <<>>, data |-> 1, key |-> <<>>]}
Packages == INSTANCE Handoff WITH Records <- PackageRecords, Extras <- PackageExtras,
  record <- packaged

\* Two records, each also with one field of another value, so that an export must show the field
\* or state it; two regions of one interval, and one region more than an import takes.
Staged ==
  [id |-> "w", title |-> "a", preferred |-> "t", takeIds |-> {"t"}, released |-> TRUE, duration |-> 2,
   rest |-> 0, meter |-> 0,
   regions |-> <<[id |-> "g", start |-> 0, end |-> 1, label |-> "first"],
                 [id |-> "h", start |-> 0, end |-> 1, label |-> None]>>,
   tracks |-> <<[id |-> "k", type |-> "media_cues", label |-> "cues", ref |-> None],
                [id |-> "m", type |-> "music_notation", label |-> None, ref |-> "score"],
                [id |-> "v", type |-> "video", label |-> None, ref |-> "film"]>>,
   comments |-> <<[id |-> 1, region |-> "h", author |-> "ada", body |-> "slow", track |-> "k"]>>]
Trackless == [Staged EXCEPT !.tracks = <<>>, !.comments = <<>>, !.preferred = None]
Varied(r) ==
  {r, [r EXCEPT !.title = "b"], [r EXCEPT !.preferred = "u"], [r EXCEPT !.takeIds = {"t", "u"}],
   [r EXCEPT !.released = FALSE], [r EXCEPT !.duration = 3], [r EXCEPT !.rest = 1], [r EXCEPT !.meter = 1],
   [r EXCEPT !.regions[1].id = "i"], [r EXCEPT !.regions[1].start = 1], [r EXCEPT !.regions[2].end = 3],
   [r EXCEPT !.regions[1].label = None],
   [r EXCEPT !.regions = Append(@, [id |-> "j", start |-> 2, end |-> 3, label |-> None])]}
  \cup UNION {{[r EXCEPT !.tracks[i].id = "x"], [r EXCEPT !.tracks[i].type = "audio"],
               [r EXCEPT !.tracks[i].label = "other"], [r EXCEPT !.tracks[i].ref = "else"],
               [r EXCEPT !.tracks[i].ref = None]} : i \in DOMAIN r.tracks}
  \cup UNION {{[r EXCEPT !.comments[i].id = 2], [r EXCEPT !.comments[i].region = "g"],
               [r EXCEPT !.comments[i].author = "bob"], [r EXCEPT !.comments[i].body = "fast"],
               [r EXCEPT !.comments[i].track = None]} : i \in DOMAIN r.comments}

\* Of other tools: a track of up to two children, alone or before another.
Silent(schema) == [schema |-> schema, name |-> None, ref |-> None, duration |-> None]
Filmed == [schema |-> "Clip", name |-> "c", ref |-> "film", duration |-> 1]
Children == {Silent(schema) : schema \in {"Clip", "Gap", "Transition", "Other"}} \cup {Filmed}
ForeignTracks == [name : {None, "n"}, kind : {None, "audio", "hologram"},
                  children : UNION {[1 .. n -> Children] : n \in 0 .. 2}]
Timeline == [name |-> "n", id |-> None, preferred |-> None, deep |-> FALSE, tracks |-> <<>>, markers |-> <<>>]
Timelines ==
  {Timeline, [Timeline EXCEPT !.deep = TRUE], [Timeline EXCEPT !.markers = <<[name |-> "m", start |-> 0, duration |-> 1]>>]}
  \cup UNION {{[Timeline EXCEPT !.tracks = <<t>>],
               [Timeline EXCEPT !.tracks = <<t, [name |-> "o", kind |-> "audio", children |-> <<Filmed>>]>>]} :
              t \in ForeignTracks}
\* What an earlier import left: nothing, a track without a take, or two with one.
Earlier == {[tracks |-> {}, takes |-> {}], [tracks |-> {1}, takes |-> {}], [tracks |-> {1, 2}, takes |-> {2}]}
Exchange == INSTANCE Interop WITH
  Records <- Varied(Staged) \cup Varied(Trackless), Documents <- Timelines, Present <- Earlier,
  record <- exchanged, body <- carried, imported <- brought, outcome <- reached

ASSUME OneProcess == Guesses!OneProcess
ASSUME GuessBounds ==
  /\ {AccountLimit, SourceLimit, Window, MaxTracked} \subseteq Nat \ {0} /\ NoLag = 0
  /\ \A S \in {Accounts, Sources, Leases} : Guesses!IsFiniteSet(S)
  /\ None \notin Guesses!Attempts /\ None \notin {"right", "wrong", "none"}
ASSUME Bounds == Lti!LtiBounds /\ LabKeyPair!KeysAssumption /\ Auth!GateBounds /\ Listing!ListingAssumption
                 /\ Http!HttpAssumption /\ Transferring!DownloadsAssumption
                 /\ Eaf!TimesAssumption /\ Packages!HandoffAssumption
                 /\ Exchange!InteropAssumption

-----------------------------------------------------------------------------
Init ==
  /\ which \in {"interop", "record", "lti", "keys", "auth", "guesses", "listing", "runtime", "http",
                "downloads", "eaf", "packages"}
  /\ Aggregate!Init /\ Lti!Init /\ LabKeyPair!Init /\ Auth!Init /\ Guesses!GInit
  /\ Listing!Init /\ Runtime!Init /\ Http!Init
  /\ Transferring!Init
  /\ which # "auth" => accounts["ada"].role = "faculty"
  /\ IF which = "eaf" THEN Eaf!Init
     ELSE /\ exported = Eaf!Unexported /\ regions = <<>> /\ comments = <<>> /\ tree = <<>>
          /\ overlaps = <<>> /\ cursor = 0 /\ swept = 0 /\ imported = "reading"
  /\ IF which = "packages" THEN Packages!Init
     ELSE /\ packaged = None /\ kind = "none" /\ extras = <<>> /\ manifest = <<>>
          /\ crate = Packages!NoCrate /\ archive = Packages!NoArchive /\ outcome = "asked"
  /\ IF which = "interop" THEN Exchange!Init
     ELSE /\ exchanged = None /\ carried = None /\ reached = "asked" /\ format = None /\ losses = {}
          /\ brought = Exchange!NothingImported /\ warnings = {} /\ there = Exchange!NothingGained
          /\ gained = Exchange!NothingGained
  /\ which # "downloads" => deployment = CHOOSE s \in Deployments : TRUE
  /\ which # "listing" => \A id \in Ids : records[id] = Listing!Gone

Next ==
  \/ /\ which = "record" /\ Aggregate!Next
     /\ UNCHANGED <<which, ltiVars, keyVars, authVars, guessVars, listingVars,
                    runtimeVars, httpVars, downloadVars, formatVars>>
  \/ /\ which = "lti" /\ Lti!Next
     /\ UNCHANGED <<which, recordVars, keyVars, authVars, guessVars, listingVars,
                    runtimeVars, httpVars, downloadVars, formatVars>>
  \/ /\ which = "keys" /\ LabKeyPair!Next
     /\ UNCHANGED <<which, recordVars, ltiVars, authVars, guessVars, listingVars,
                    runtimeVars, httpVars, downloadVars, formatVars>>
  \/ /\ which = "auth" /\ Auth!Next
     /\ UNCHANGED <<which, recordVars, ltiVars, keyVars, guessVars, listingVars,
                    runtimeVars, httpVars, downloadVars, formatVars>>
  \/ /\ which = "guesses" /\ Guesses!GNext
     /\ UNCHANGED <<which, recordVars, ltiVars, keyVars, authVars, listingVars,
                    runtimeVars, httpVars, downloadVars, formatVars>>
  \/ /\ which = "listing" /\ Listing!Next
     /\ UNCHANGED <<which, recordVars, ltiVars, keyVars, authVars, guessVars,
                    runtimeVars, httpVars, downloadVars, formatVars>>
  \/ /\ which = "runtime" /\ Runtime!Next
     /\ UNCHANGED <<which, recordVars, ltiVars, keyVars, authVars, guessVars,
                    listingVars, httpVars, downloadVars, formatVars>>
  \/ /\ which = "http" /\ Http!Next
     /\ UNCHANGED <<which, recordVars, ltiVars, keyVars, authVars, guessVars,
                    listingVars, runtimeVars, downloadVars, formatVars>>
  \/ /\ which = "downloads" /\ Transferring!Next
     /\ UNCHANGED <<which, recordVars, ltiVars, keyVars, authVars, guessVars,
                    listingVars, runtimeVars, httpVars, formatVars>>
  \/ /\ which = "eaf" /\ Eaf!Next
     /\ UNCHANGED <<which, recordVars, ltiVars, keyVars, authVars, guessVars, listingVars,
                    runtimeVars, httpVars, downloadVars, packageVars, interopVars>>
  \/ /\ which = "packages" /\ Packages!Next
     /\ UNCHANGED <<which, recordVars, ltiVars, keyVars, authVars, guessVars, listingVars,
                    runtimeVars, httpVars, downloadVars, eafVars, interopVars>>
  \/ /\ which = "interop" /\ Exchange!Next
     /\ UNCHANGED <<which, recordVars, ltiVars, keyVars, authVars, guessVars, listingVars,
                    runtimeVars, httpVars, downloadVars, eafVars, packageVars>>

vars == <<which, recordVars, ltiVars, keyVars, authVars, guessVars,
          listingVars, runtimeVars, httpVars, downloadVars, formatVars>>

Spec == Init /\ [][Next]_vars

Symmetry == Permutations(Posts)

(* The properties of each, as its module states them.                      *)
TransitionsParse == which = "record" => Aggregate!TransitionsParse
HistoryStands == Aggregate!HistoryStands
LaunchesAreSound == which = "lti" => Lti!LaunchesAreSound
PairIsSound == which = "keys" => LabKeyPair!PairIsSound
\* Logins: slots, sessions and accounts, and how many guesses there are in a window.
LoginsAreSound ==
  /\ which = "auth" => Auth!LoginsAreSound
  /\ which = "guesses" => Guesses!GuessesAreBounded
WalkIsWhole == which = "listing" => Listing!WalkIsWhole
RecoveryIsAlone == which = "runtime" => Runtime!RecoveryIsAlone
\* Answers: of the requests of one process, and of downloads.
AnswersAreSound ==
  /\ which = "http" => Http!RequestsAreSound
  /\ which = "downloads" => Transferring!DownloadsAreSound
FormatsAreSound ==
  /\ which = "eaf" => Eaf!ImportIsSound
  /\ which = "packages" => Packages!PackagesAreWhole
  /\ which = "interop" => Exchange!InteropIsSound
=============================================================================
