------------------------------ MODULE HookFiles ------------------------------
(***************************************************************************)
(* The hook file of one agent and who edits it (hooks_install.py with      *)
(* deckapp/hooks_relay.py): requests of a runtime run in threads of the    *)
(* bridge under one lock, the command line tool runs without that lock,    *)
(* the agent and the user save the file as they like.  The bridge gives up *)
(* waiting for a thread, the runtime gives up waiting for the bridge, and  *)
(* the connection drops.                                                   *)
(*                                                                         *)
(* Data: an entry is the user's, ours as wanted, or ours of another        *)
(* version; a group is a sequence of entries, a file a sequence of groups  *)
(* for each event it lists, and the number of the user's other settings.   *)
(* The plugin file of OpenCode follows the same steps with one text.       *)
(***************************************************************************)
EXTENDS Integers, Sequences, SequencesExt

CONSTANTS
  Events,       \* hook events
  Wanted,       \* those we hook
  Given,        \* documents the file may hold at first
  CliRuns,      \* is the command line tool run?
  SavesAnytime, \* may the file be saved between the last read and the rename?
  MaxReqs, MaxSaves, MaxDrops   \* bounds

Reqs == 1..MaxReqs
Cli == 0                  \* the command line tool
Workers == Reqs \cup {Cli}
Actions == {"status", "install", "uninstall"}
Wants == <<"ours">>       \* the group of _entry

VARIABLES
  file,     \* [state, doc]
  theirs,   \* what the user and the agent have in it
  job,      \* the threads of the bridge and the command line tool
  up,       \* the connection
  asked,    \* _hooks_asked
  sent,     \* requests sent so far
  queue,    \* requests on their way or waiting at the bridge
  serving,  \* the request the bridge answers, or 0
  replies,  \* answers on their way
  waits,    \* _hooks_waits
  outcome,  \* what each caller got
  summary,  \* _hooks_summary
  saves, drops

relay == <<up, asked, sent, queue, serving, replies, waits, outcome, summary, drops>>
vars == <<file, theirs, job, relay, saves>>

-----------------------------------------------------------------------------
(* The edits *)

IsOurs(entry) == entry # "user"
IsTheirs(entry) == ~IsOurs(entry)
HasOurs(group) == \E i \in DOMAIN group : IsOurs(group[i])

\* Our entries leave a group; a group that held nothing else goes.
StripOurs(groups) ==
  LET Rest(group) == SelectSeq(group, IsTheirs)
      Kept(group) == IF ~HasOurs(group) THEN <<group>>
                     ELSE IF Rest(group) = <<>> THEN <<>> ELSE <<Rest(group)>>
  IN FlattenSeq([i \in DOMAIN groups |-> Kept(groups[i])])

Groups(doc, e) == IF e \in DOMAIN doc.hooks THEN doc.hooks[e] ELSE <<>>

WithOurs(groups) ==
  IF SelectSeq(groups, HasOurs) = <<Wants>> THEN groups ELSE Append(StripOurs(groups), Wants)

Installed(doc) ==
  [doc EXCEPT !.listed = TRUE,
              !.hooks = [e \in DOMAIN doc.hooks \cup Wanted |->
                           IF e \in Wanted THEN WithOurs(Groups(doc, e)) ELSE Groups(doc, e)]]

\* An event that only held our entries goes too, and so does the table.
Uninstalled(doc) ==
  LET kept == {e \in DOMAIN doc.hooks : StripOurs(doc.hooks[e]) # <<>> \/ doc.hooks[e] = <<>>}
  IN [doc EXCEPT !.hooks = [e \in kept |-> StripOurs(doc.hooks[e])],
                 !.listed = @ /\ (kept # {} \/ DOMAIN doc.hooks = {})]

IsInstalled(f) ==
  f.state = "good" /\ \A e \in Wanted : \E i \in DOMAIN Groups(f.doc, e) : HasOurs(Groups(f.doc, e)[i])

TheirsIn(doc) == [e \in Events |-> SelectSeq(FlattenSeq(Groups(doc, e)), IsTheirs)]

-----------------------------------------------------------------------------
NoDoc == [rest |-> 0, listed |-> FALSE, hooks |-> <<>>]
NoFile == [state |-> "none", doc |-> NoDoc]
Out == [at |-> "none", action |-> "status", orig |-> NoFile, error |-> FALSE, shows |-> FALSE]
NoSummary == "none"

Init ==
  /\ \/ file = NoFile
     \/ \E doc \in Given : file = [state |-> "good", doc |-> doc]
  /\ theirs = [state |-> file.state, rest |-> 0, hooks |-> TheirsIn(file.doc)]
  /\ job = [w \in Workers |-> Out]
  /\ up = TRUE /\ asked = FALSE /\ sent = 0 /\ queue = <<>> /\ serving = 0 /\ replies = <<>>
  /\ waits = {} /\ outcome = [r \in Reqs |-> "none"] /\ summary = NoSummary
  /\ saves = 0 /\ drops = 0

\* _WRITE_LOCK: one thread of the bridge at a time.
Working(w) == job[w].at \in {"loaded", "checked", "status"}
MayStart(w) == w = Cli \/ ~\E v \in Reqs : Working(v)

NewDoc(w) == IF job[w].action = "install" THEN Installed(job[w].orig.doc) ELSE Uninstalled(job[w].orig.doc)

\* apply with _apply_json up to the write: a file that is not JSON is an
\* error, and one that needs no change is not written.
Load(w) ==
  /\ job[w].at = "ready" /\ MayStart(w)
  /\ LET act == job[w].action
         loaded == [job EXCEPT ![w].orig = file]
         new == IF act = "install" THEN Installed(file.doc) ELSE Uninstalled(file.doc)
         writes == new # file.doc /\ (file.state = "good" \/ act = "install")
     IN job' = [loaded EXCEPT
                  ![w].at = IF act # "status" /\ file.state # "bad" /\ writes THEN "loaded" ELSE "status",
                  ![w].error = act # "status" /\ file.state = "bad"]
  /\ UNCHANGED <<file, theirs, relay, saves>>

\* _write: the file must not have changed since it was read.
SameAsRead(w) == file = job[w].orig

Check(w) ==
  /\ job[w].at = "loaded"
  /\ job' = [job EXCEPT ![w].at = IF SameAsRead(w) THEN "checked" ELSE "status",
                        ![w].error = ~SameAsRead(w)]
  /\ UNCHANGED <<file, theirs, relay, saves>>

\* The backup is written and the new text is renamed into place.
Replace(w) ==
  /\ job[w].at = "checked"
  /\ file' = [state |-> "good", doc |-> NewDoc(w)]
  /\ job' = [job EXCEPT ![w].at = "status"]
  /\ UNCHANGED <<theirs, relay, saves>>

\* agent_status, still under the lock.
Status(w) ==
  /\ job[w].at = "status"
  /\ job' = [job EXCEPT ![w].at = "done", ![w].shows = IsInstalled(file),
                        ![w].error = @ \/ file.state = "bad"]
  /\ UNCHANGED <<file, theirs, relay, saves>>

\* herdeck-service hooks, run once.
RunCli ==
  /\ CliRuns /\ job[Cli].at = "none"
  /\ \E act \in Actions \ {"status"} : job' = [job EXCEPT ![Cli] = [Out EXCEPT !.at = "ready", !.action = act]]
  /\ UNCHANGED <<file, theirs, relay, saves>>

\* Somebody else saves the file: other settings, one more hook of the user,
\* text that is no JSON, or a repair of it.
Save ==
  /\ saves < MaxSaves /\ saves' = saves + 1
  /\ SavesAnytime \/ ~\E w \in Workers : job[w].at = "checked"
  /\ \/ /\ file.state # "bad"
        /\ \E e \in Events, more \in BOOLEAN :
             LET hooks == IF more THEN [d \in DOMAIN file.doc.hooks \cup {e} |->
                                          IF d = e THEN Append(Groups(file.doc, e), <<"user">>)
                                          ELSE file.doc.hooks[d]]
                          ELSE file.doc.hooks
                 doc == [rest |-> saves', listed |-> file.doc.listed \/ more, hooks |-> hooks]
             IN /\ file' = [state |-> "good", doc |-> doc]
                /\ theirs' = [state |-> "good", rest |-> saves', hooks |-> TheirsIn(doc)]
     \/ /\ file' = [file EXCEPT !.state = IF @ = "bad" THEN "good" ELSE "bad"]
        /\ theirs' = [theirs EXCEPT !.state = file'.state]
  /\ UNCHANGED <<job, relay>>

-----------------------------------------------------------------------------
(* Runtime and bridge *)

Send(act) ==
  /\ up /\ sent < MaxReqs
  /\ sent' = sent + 1
  /\ queue' = Append(queue, sent') /\ waits' = waits \cup {sent'}
  /\ job' = [job EXCEPT ![sent'].action = act]
  /\ UNCHANGED <<file, theirs, up, serving, replies, outcome, summary, saves, drops>>

\* Status is asked once per connection, after its first snapshot.
OnSnapshot == ~asked /\ asked' = TRUE /\ Send("status")
BridgeHooks == \E act \in Actions : Send(act) /\ UNCHANGED asked

\* A connection is served one message at a time; the work is done in a thread.
Serve ==
  /\ up /\ serving = 0 /\ queue # <<>>
  /\ serving' = Head(queue) /\ queue' = Tail(queue)
  /\ job' = [job EXCEPT ![serving'].at = "ready"]
  /\ UNCHANGED <<file, theirs, up, asked, sent, replies, waits, outcome, summary, saves, drops>>

\* The answer, or "timed out" while the thread goes on.
Answer ==
  /\ serving # 0 /\ serving' = 0
  /\ \E timedOut \in BOOLEAN :
       /\ ~timedOut => job[serving].at = "done"
       /\ replies' = Append(replies, [req |-> serving, ok |-> ~timedOut])
  /\ UNCHANGED <<file, theirs, job, up, asked, sent, queue, waits, outcome, summary, saves, drops>>

OutcomeOf(reply) ==
  IF ~reply.ok \/ job[reply.req].error THEN "failed"
  ELSE IF job[reply.req].shows THEN "installed" ELSE "absent"

\* Whose wait an answer ends.
WaitOf(reply) == reply.req

Finish ==
  /\ replies # <<>> /\ replies' = Tail(replies)
  /\ LET reply == Head(replies)
         r == WaitOf(reply)
     IN IF r \in waits
        THEN /\ waits' = waits \ {r}
             /\ outcome' = [outcome EXCEPT ![r] = OutcomeOf(reply)]
             /\ summary' = IF reply.ok THEN OutcomeOf(reply) ELSE summary
        ELSE UNCHANGED <<waits, outcome, summary>>
  /\ UNCHANGED <<file, theirs, job, up, asked, sent, queue, serving, saves, drops>>

GiveUp ==
  /\ \E r \in waits : waits' = waits \ {r} /\ outcome' = [outcome EXCEPT ![r] = "timeout"]
  /\ UNCHANGED <<file, theirs, job, up, asked, sent, queue, serving, replies, summary, saves, drops>>

\* The connection drops: who waits hears of it, and the summary goes.
Drop ==
  /\ up /\ drops < MaxDrops /\ drops' = drops + 1
  /\ up' = FALSE /\ asked' = FALSE /\ summary' = NoSummary
  /\ queue' = <<>> /\ serving' = 0 /\ replies' = <<>>
  /\ waits' = {} /\ outcome' = [r \in Reqs |-> IF r \in waits THEN "disconnected" ELSE outcome[r]]
  /\ UNCHANGED <<file, theirs, job, sent, saves>>

Connect ==
  /\ ~up /\ up' = TRUE
  /\ UNCHANGED <<file, theirs, job, asked, sent, queue, serving, replies, waits, outcome, summary, saves, drops>>

Next ==
  \/ \E w \in Workers : Load(w) \/ Check(w) \/ Replace(w) \/ Status(w)
  \/ RunCli \/ Save
  \/ OnSnapshot \/ BridgeHooks \/ Serve \/ Answer \/ Finish \/ GiveUp \/ Drop \/ Connect

Spec == Init /\ [][Next]_vars

-----------------------------------------------------------------------------
States == {"none", "bad", "good"}

TypeOK ==
  /\ file.state \in States /\ file.doc.listed \in BOOLEAN /\ DOMAIN file.doc.hooks \subseteq Events
  /\ \A w \in Workers : job[w].at \in {"none", "ready", "loaded", "checked", "status", "done"}
  /\ sent \in 0..MaxReqs /\ waits \subseteq 1..sent /\ serving \in 0..sent
  /\ asked \in BOOLEAN /\ up \in BOOLEAN
  /\ summary \in {NoSummary, "failed", "installed", "absent"}

\* However installs and removals overlap, from threads of the bridge, from the
\* command line and between saves of others, the file holds every hook and
\* setting of the user in its order, and a file that is no JSON is left alone.
TheirsAreKept ==
  /\ file.state # "none" => file.doc.rest = theirs.rest
  /\ TheirsIn(file.doc) = theirs.hooks
  /\ theirs.state = "bad" <=> file.state = "bad"

\* Whatever an edit starts from, installing leaves one entry of ours per event
\* and a second time changes nothing, and removing leaves none.
EditsSettle ==
  LET once == Installed(file.doc)
      none == Uninstalled(once)
  IN /\ Installed(once) = once
     /\ \A e \in Wanted : SelectSeq(Groups(once, e), HasOurs) = <<Wants>>
     /\ \A e \in DOMAIN none.hooks : \A i \in DOMAIN none.hooks[e] : ~HasOurs(none.hooks[e][i])
     /\ Uninstalled(none) = none

\* A caller hears of its own request: "installed" comes from a request that
\* left the file installed when its status was read, an answer that came too
\* late ends nobody else's wait, and without a connection there is no summary.
HeardOfItsOwn ==
  /\ \A r \in Reqs :
       outcome[r] \in {"installed", "absent"} => job[r].at = "done" /\ (outcome[r] = "installed" <=> job[r].shows)
  /\ ~up => summary = NoSummary /\ waits = {}
=============================================================================
