------------------------------ MODULE Approvals ------------------------------
(***************************************************************************)
(* The approval store (approval/store.rs), the approver that asks the      *)
(* human and remembers (approval/mod.rs) and the /permissions pane that    *)
(* removes what was remembered (tui/permissions_pane.rs).                  *)
(*                                                                         *)
(* A command line is a chain of simple commands; each needs a grant or a   *)
(* yes of the human.  A path needs a grant on it or on a directory above   *)
(* it.  An exact repeat of a tool call needs a verdict.  Session decisions *)
(* are rows in SQLite; project and global ones are members of a JSON file, *)
(* which every writer loads, changes, writes to one temporary file and     *)
(* renames.  Sessions run on several threads, the pane in a process of its *)
(* own, and nothing serialises their file accesses: opening, writing and   *)
(* renaming are actions.                                                   *)
(***************************************************************************)
EXTENDS Naturals, Sequences, SequencesExt

CONSTANTS Sessions,   \* the sessions of the daemon; each decides one call at a time
          Pane,       \* the /permissions pane of a client
          Projects, ProjectOf,  \* ProjectOf[s]: the project of session s
          Global,     \* the user-level configuration directory
          Items,      \* command keys and paths
          Wrappers,   \* the commands that are never remembered
          Covers,     \* Covers[k]: the stored items that grant k
          Requests,   \* the chains of items that are asked for
          Signatures, \* signatures of tool calls
          MaxCalls, MaxDeletes, MaxCrashes \* bounds

Files == Projects \cup {Global}

ASSUME SessionsAssumption ==
    /\ ProjectOf \in [Sessions -> Projects]
    /\ Pane \notin Sessions /\ Global \notin Projects
    /\ Sessions \cap Files = {}
ASSUME ItemsAssumption ==
    /\ Wrappers \subseteq Items /\ Items \cap Signatures = {}
    /\ Covers \in [Items -> SUBSET Items]
    /\ Requests \subseteq Seq(Items)
ASSUME BoundsAssumption ==
    MaxCalls \in Nat /\ MaxDeletes \in Nat /\ MaxCrashes \in Nat

VARIABLES
    granted,  \* table approval_grants: [at, item] of the session scope
    ruled,    \* table loop_guard_rules: [at, sig, verdict] of the session scope
    file,     \* file[f]: approvals.json of a project or of the user
    tmp,      \* tmp[f]: approvals.json.tmp beside it
    op,       \* op[w]: the call session w decides, or the removal the pane is at
    standing, \* history: the file decisions recorded and not removed, [at, what]
    clash,    \* history: the files on which two writers overlapped
    calls, deletes, crashes

db    == <<granted, ruled>>
disk  == <<file, tmp>>
ghost == <<standing, clash>>
count == <<calls, deletes, crashes>>
approvalVars == <<db, disk, op, ghost, count>>

Writers == Sessions \cup {Pane}
Verdicts == {"accept", "reject"}

\* Every decision is an entry: a grant of an item or a verdict on a signature.
Grant(k) == [item |-> k]
Rule(g, v) == [sig |-> g, verdict |-> v]
Entries == [item : Items] \cup [sig : Signatures, verdict : Verdicts]

\* A file is missing, cannot be parsed (empty, or two writers wrote into it), or
\* holds a set of entries.
Missing == [kind |-> "missing", has |-> {}]
Blank   == [kind |-> "blank", has |-> {}]
Torn    == [kind |-> "torn", has |-> {}]
Image(E) == [kind |-> "image", has |-> E]
Contents == {Missing, Blank, Torn} \cup {Image(E) : E \in SUBSET Entries}

\* `chain`: what is left to decide; `adds`: the entries to write; `drops`: those
\* to remove; `fd`: whether the file opened for writing is still the temporary
\* one, has been renamed, or was replaced after that.
Idle == [at |-> "idle", chain |-> <<>>, on |-> Global, adds |-> {}, drops |-> {},
         img |-> {}, fd |-> "gone"]
Stages == {"idle", "check", "ask", "repeat", "load", "open", "write", "rename",
           "accept", "reject"}

ApprovalInit ==
    /\ granted = {} /\ ruled = {}
    /\ file = [f \in Files |-> Missing]
    /\ tmp = [f \in Files |-> Missing]
    /\ op = [w \in Writers |-> Idle]
    /\ standing = {} /\ clash = {}
    /\ calls = 0 /\ deletes = 0 /\ crashes = 0

Goto(w, at) == op' = [op EXCEPT ![w].at = at]
Done(w) == op' = [op EXCEPT ![w] = Idle]

\* The files a session consults: its project's and the user's.
Consults(s) == {ProjectOf[s], Global}

-----------------------------------------------------------------------------
(***************************************************************************)
(* Queries.                                                                *)
(***************************************************************************)

\* Faulty variant: the rows of every session count.
SessionHas_Any(s, k) == \E r \in granted : r.item = k

SessionHas(s, k) == [at |-> s, item |-> k] \in granted

\* is_command_granted, is_path_granted.
Granted(s, k) ==
    \E g \in Covers[k] :
        SessionHas(s, g) \/ \E f \in Consults(s) : Grant(g) \in file[f].has

\* file_loop_rule: an entry of a file; reject is looked for first.
FileVerdicts(f, g) == {v \in Verdicts : Rule(g, v) \in file[f].has}
OfFile(f, g) == IF "reject" \in FileVerdicts(f, g) THEN {"reject"} ELSE FileVerdicts(f, g)
OfSession(s, g) == {r.verdict : r \in {r \in ruled : r.at = s /\ r.sig = g}}
OfProject(s, g) == OfFile(ProjectOf[s], g)

\* Faulty variant: the project's rule is looked for before the session's.
LoopRule_ProjectFirst(s, g) ==
    IF OfProject(s, g) # {} THEN OfProject(s, g)
    ELSE IF OfSession(s, g) # {} THEN OfSession(s, g) ELSE OfFile(Global, g)

\* loop_rule: the nearest scope with a rule decides; {} if there is none.
LoopRule(s, g) ==
    IF OfSession(s, g) # {} THEN OfSession(s, g)
    ELSE IF OfProject(s, g) # {} THEN OfProject(s, g) ELSE OfFile(Global, g)

-----------------------------------------------------------------------------
(***************************************************************************)
(* Approver::approve_command and approve_path.                             *)
(***************************************************************************)
Begin(s) ==
    /\ op[s].at = "idle" /\ calls < MaxCalls
    /\ \E r \in Requests :
        op' = [op EXCEPT ![s] = [Idle EXCEPT !.at = "check", !.chain = r]]
    /\ calls' = calls + 1
    /\ UNCHANGED <<db, disk, ghost, deletes, crashes>>

\* The next constituent is granted: on to the one after it.
Pass(s) ==
    /\ op[s].at = "check" /\ op[s].chain # <<>>
    /\ LET k == Head(op[s].chain) IN k \notin Wrappers /\ Granted(s, k)
    /\ op' = [op EXCEPT ![s].chain = Tail(@)]
    /\ UNCHANGED <<db, disk, ghost, count>>

\* It is not, or is a wrapper: the human is asked.
Prompt(s) ==
    /\ op[s].at = "check" /\ op[s].chain # <<>>
    /\ LET k == Head(op[s].chain) IN k \in Wrappers \/ ~ Granted(s, k)
    /\ Goto(s, "ask")
    /\ UNCHANGED <<db, disk, ghost, count>>

Allow(s) ==
    /\ op[s].at = "check" /\ op[s].chain = <<>>
    /\ Done(s)
    /\ UNCHANGED <<db, disk, ghost, count>>

Deny(s) ==
    /\ op[s].at = "ask"
    /\ Done(s)
    /\ UNCHANGED <<db, disk, ghost, count>>

\* "Yes, once".
ApproveOnce(s) ==
    /\ op[s].at = "ask"
    /\ op' = [op EXCEPT ![s].at = "check", ![s].chain = Tail(@)]
    /\ UNCHANGED <<db, disk, ghost, count>>

\* "Yes, for this session": a row (INSERT OR IGNORE).
ApproveSession(s) ==
    /\ op[s].at = "ask" /\ Head(op[s].chain) \notin Wrappers
    /\ granted' = granted \cup {[at |-> s, item |-> Head(op[s].chain)]}
    /\ op' = [op EXCEPT ![s].at = "check", ![s].chain = Tail(@)]
    /\ UNCHANGED <<ruled, disk, ghost, count>>

\* "Always for this project", "Always everywhere".  Outside of a git worktree the
\* former fails like a file that cannot be written (StoreFails).
ApproveInFile(s) ==
    /\ op[s].at = "ask" /\ Head(op[s].chain) \notin Wrappers
    /\ \E f \in Consults(s) :
        op' = [op EXCEPT ![s].at = "load", ![s].on = f,
                         ![s].adds = {Grant(Head(op[s].chain))}]
    /\ UNCHANGED <<db, disk, ghost, count>>

-----------------------------------------------------------------------------
(***************************************************************************)
(* Approver::approve_repeat.                                               *)
(***************************************************************************)

\* A standing rule decides; without one and without a client that could answer
\* the repeat is rejected; otherwise the human is asked.
BeginRepeat(s) ==
    /\ op[s].at = "idle" /\ calls < MaxCalls
    /\ \E g \in Signatures, interactive \in BOOLEAN :
        LET rule == LoopRule(s, g) IN
        \E at \in IF rule # {} THEN rule
                  ELSE IF interactive THEN {"repeat"} ELSE {"reject"} :
            op' = [op EXCEPT ![s] = [Idle EXCEPT !.at = at, !.chain = <<g>>]]
    /\ calls' = calls + 1
    /\ UNCHANGED <<db, disk, ghost, deletes, crashes>>

\* "Accept (once)", "Reject (once)", dismissed.
VerdictOnce(s) ==
    /\ op[s].at = "repeat"
    /\ \E v \in Verdicts : Goto(s, v)
    /\ UNCHANGED <<db, disk, ghost, count>>

\* "Always ... for this session": INSERT OR REPLACE.
VerdictSession(s) ==
    /\ op[s].at = "repeat"
    /\ \E v \in Verdicts :
        LET g == Head(op[s].chain) IN
        /\ ruled' = {r \in ruled : ~ (r.at = s /\ r.sig = g)}
                        \cup {[at |-> s, sig |-> g, verdict |-> v]}
        /\ Goto(s, v)
    /\ UNCHANGED <<granted, disk, ghost, count>>

\* "Always ... for this project": the opposite verdict is dropped.
VerdictInFile(s) ==
    /\ op[s].at = "repeat"
    /\ \E v \in Verdicts :
        LET g == Head(op[s].chain) IN
        op' = [op EXCEPT ![s].at = "load", ![s].on = ProjectOf[s],
                         ![s].adds = {Rule(g, v)},
                         ![s].drops = {Rule(g, u) : u \in Verdicts \ {v}}]
    /\ UNCHANGED <<db, disk, ghost, count>>

-----------------------------------------------------------------------------
(***************************************************************************)
(* Writing a file: file_insert, file_record_loop_rule, delete_managed_grant*)
(* and store_approvals.                                                    *)
(***************************************************************************)

\* The human removes an entry the pane shows (it may be gone by now).
StartDelete ==
    /\ op[Pane].at = "idle" /\ deletes < MaxDeletes
    /\ \E f \in Files, e \in Entries :
        /\ [at |-> f, what |-> e] \in standing
        /\ op' = [op EXCEPT ![Pane] =
                        [Idle EXCEPT !.at = "load", !.on = f, !.drops = {e}]]
    /\ deletes' = deletes + 1
    /\ UNCHANGED <<db, disk, ghost, calls, crashes>>

Overlaps(w) ==
    \E x \in Writers \ {w} :
        op[x].on = op[w].on /\ op[x].at \in {"open", "write", "rename"}

\* Faulty variant: the file is not read again, the change alone is stored.
Changed_Fresh(w) == op[w].adds

\* The entries to store; a file that cannot be read counts as empty.
Changed(w) == (file[op[w].on].has \ op[w].drops) \cup op[w].adds

\* Load and change.  The pane does nothing when the entry is gone.
Load(w) ==
    /\ op[w].at = "load"
    /\ IF w = Pane /\ ~ op[w].drops \subseteq file[op[w].on].has
       THEN Done(w) /\ UNCHANGED clash
       ELSE /\ op' = [op EXCEPT ![w].at = "open", ![w].img = Changed(w)]
            /\ clash' = IF Overlaps(w) THEN clash \cup {op[w].on} ELSE clash
    /\ UNCHANGED <<db, disk, standing, count>>

\* fs::write opens the temporary file and truncates it, ...
Open(w) ==
    /\ op[w].at = "open"
    /\ tmp' = [tmp EXCEPT ![op[w].on] = Blank]
    /\ op' = [op EXCEPT ![w].at = "write", ![w].fd = "tmp"]
    /\ UNCHANGED <<db, file, ghost, count>>

\* ... and writes from its start.  What another writer has put there since shows
\* behind the end if it was longer.
Over(old, img) == IF old = Blank THEN {Image(img)} ELSE {Image(img), Torn}

Write(w) ==
    /\ op[w].at = "write"
    /\ LET f == op[w].on IN
        \/ /\ op[w].fd = "tmp"
           /\ \E c \in Over(tmp[f], op[w].img) : tmp' = [tmp EXCEPT ![f] = c]
           /\ UNCHANGED file
        \/ /\ op[w].fd = "file"
           /\ \E c \in Over(file[f], op[w].img) : file' = [file EXCEPT ![f] = c]
           /\ UNCHANGED tmp
        \/ op[w].fd = "gone" /\ UNCHANGED disk
    /\ op' = [op EXCEPT ![w].at = "rename", ![w].fd = "gone"]
    /\ UNCHANGED <<db, ghost, count>>

\* What a writer does when its decision is recorded, or could not be: a grant
\* goes on with the chain or fails the call, a rule applies either way.
After(w, recorded) ==
    IF w = Pane THEN Idle
    ELSE LET rules == {e \in op[w].adds : e \notin [item : Items]} IN
         IF rules # {} THEN [Idle EXCEPT !.at = (CHOOSE e \in rules : TRUE).verdict]
         ELSE IF recorded THEN [Idle EXCEPT !.at = "check", !.chain = Tail(op[w].chain)]
         ELSE Idle

\* A file opened under a name follows its inode when that is renamed.
Moved(x, f) ==
    IF op[x].on # f THEN op[x]
    ELSE [op[x] EXCEPT !.fd = IF @ = "tmp" THEN "file" ELSE "gone"]

Rename(w) ==
    /\ op[w].at = "rename"
    /\ LET f == op[w].on IN
        /\ tmp[f] # Missing
        /\ file' = [file EXCEPT ![f] = tmp[f]]
        /\ tmp' = [tmp EXCEPT ![f] = Missing]
        /\ op' = [x \in Writers |-> IF x = w THEN After(w, TRUE) ELSE Moved(x, f)]
        /\ standing' = (standing \ {[at |-> f, what |-> e] : e \in op[w].drops})
                            \cup {[at |-> f, what |-> e] : e \in op[w].adds}
    /\ UNCHANGED <<db, clash, count>>

\* The directory or the file cannot be written, or another writer has renamed
\* the temporary file.
StoreFails(w) ==
    /\ op[w].at \in {"open", "write", "rename"}
    /\ op' = [op EXCEPT ![w] = After(w, FALSE)]
    /\ UNCHANGED <<db, disk, ghost, count>>

-----------------------------------------------------------------------------
\* The repeat is dispatched, or refused.
Return(s) ==
    /\ op[s].at \in Verdicts
    /\ Done(s)
    /\ UNCHANGED <<db, disk, ghost, count>>

\* The daemon dies, wherever its sessions are; the pane does not.
Crash ==
    /\ crashes < MaxCrashes
    /\ op' = [w \in Writers |-> IF w = Pane THEN op[w] ELSE Idle]
    /\ crashes' = crashes + 1
    /\ UNCHANGED <<db, disk, ghost, calls, deletes>>

Decide(s) ==
    \/ Begin(s) \/ Pass(s) \/ Prompt(s) \/ Allow(s) \/ Deny(s)
    \/ ApproveOnce(s) \/ ApproveSession(s) \/ ApproveInFile(s)
    \/ BeginRepeat(s) \/ VerdictOnce(s) \/ VerdictSession(s) \/ VerdictInFile(s)
    \/ Return(s)

Store(w) == Load(w) \/ Open(w) \/ Write(w) \/ Rename(w) \/ StoreFails(w)

ApprovalNext ==
    \/ \E s \in Sessions : Decide(s)
    \/ \E w \in Writers : Store(w)
    \/ StartDelete
    \/ Crash

ApprovalSpec == ApprovalInit /\ [][ApprovalNext]_approvalVars

-----------------------------------------------------------------------------
(***************************************************************************)
(* Properties.  Decisions in a file count as long as no two writers of the *)
(* file overlapped; what happens then is PreservesOthers.                  *)
(***************************************************************************)

\* The shape of the state.
ApprovalTypeOK ==
    /\ granted \subseteq [at : Sessions, item : Items]
    /\ ruled \subseteq [at : Sessions, sig : Signatures, verdict : Verdicts]
    /\ file \in [Files -> Contents]
    /\ tmp \in [Files -> Contents]
    /\ op \in [Writers -> [at : Stages, chain : Seq(Items \cup Signatures), on : Files,
                           adds : SUBSET Entries, drops : SUBSET Entries,
                           img : SUBSET Entries, fd : {"tmp", "file", "gone"}]]
    /\ standing \subseteq [at : Files, what : Entries]
    /\ clash \subseteq Files
    /\ calls \in Nat /\ deletes \in Nat /\ crashes \in Nat

Undisturbed(s) == Consults(s) \cap clash = {}
Says(f, e) == [at |-> f, what |-> e] \in standing
Remembered(s, k) ==
    \E g \in Covers[k] :
        [at |-> s, item |-> g] \in granted \/ \E f \in Consults(s) : Says(f, Grant(g))

\* A command or path passes without a prompt only on a decision the human made
\* to remember, for this session, its project or everywhere, and has not removed;
\* a wrapper never does.
PassesOnConsent ==
    [][\A s \in Sessions :
         op[s].at = "check" /\ op'[s].at = "check" /\ op'[s].chain # op[s].chain =>
            LET k == Head(op[s].chain) IN
            /\ k \notin Wrappers
            /\ Undisturbed(s) => Remembered(s, k)]_approvalVars

\* "Records grants so a future access skips the prompt": the human is not asked
\* again for what has been recorded, by whatever session that shares the scope,
\* and across a death of the daemon between any two steps of a write.
AsksOnce ==
    [][\A s \in Sessions :
         op[s].at = "check" /\ op'[s].at = "ask" /\ Undisturbed(s) =>
            LET k == Head(op[s].chain) IN k \in Wrappers \/ ~ Remembered(s, k)]_approvalVars

\* "Session > project > global": a repeat gets the verdict of the nearest scope
\* in which the human left one, and is asked for or rejected if there is none.
NearestRules(s, g) ==
    LET own == {v \in Verdicts : [at |-> s, sig |-> g, verdict |-> v] \in ruled}
        projects == {v \in Verdicts : Says(ProjectOf[s], Rule(g, v))}
    IN IF own # {} THEN own ELSE projects

RulesHonoured ==
    [][\A s \in Sessions, g \in Signatures :
         op[s].at = "idle" /\ op'[s].chain = <<g>> /\ Undisturbed(s) =>
            op'[s].at \in IF NearestRules(s, g) # {} THEN NearestRules(s, g)
                          ELSE {"repeat", "reject"}]_approvalVars

\* "A concurrent edit to a different entry is preserved, never clobbered"
\* (permissions_pane.rs): a file that is stored has all decisions recorded in it
\* and not removed by this very write.
PreservesOthers ==
    [][\A w \in Writers :
         op[w].at = "rename" /\ op'[w].at # "rename" =>
            \A e \in Entries : Says(op[w].on, e) /\ e \notin op[w].drops
                                => e \in file'[op[w].on].has]_approvalVars
=============================================================================
