--------------------------- MODULE SkillVersions ---------------------------
(***************************************************************************)
(* The bundle of one skill: a YAML file that reflection in a tick          *)
(* (metacycle/reflect.py, any number of processes) and the console's edit  *)
(* form (webui/routers/api_skills.py) read, change and write back, and the *)
(* git repository in which only the agents record it (skills/store.py).    *)
(*                                                                         *)
(* Nothing locks the file between reading and writing.  Saving truncates   *)
(* it first; git then takes whatever is in the working tree.               *)
(***************************************************************************)
EXTENDS Integers, FiniteSets

CONSTANTS
  Agents,        \* processes that tick
  Operators,     \* requests of the console
  AutoCommit,    \* git_auto_commit, for the agents; the console has it off
  AutoTag,       \* git_auto_tag, likewise
  MaxSaves,      \* bound: saves begun
  MaxFaults      \* bound: crashes and git commands that fail or time out

ASSUME SkillAssumption ==
  /\ Agents \cap Operators = {}
  /\ AutoCommit \in BOOLEAN /\ AutoTag \in BOOLEAN
  /\ MaxSaves \in Nat /\ MaxFaults \in Nat

Writers == Agents \cup Operators
Version == 1..(MaxSaves + 1)    \* the last number of 0.0.n
Text == 1..(MaxSaves + 1)       \* what a save wrote, a new one each time
Bundle == [version : Version, text : Text]

(* A truncated file, and one that holds parts of two texts: reading either *)
(* raises.                                                                 *)
Empty == [version |-> 0, text |-> 0]
Mixed == [version |-> 0, text |-> -1]
Unreadable == {Empty, Mixed}
Content == Bundle \cup Unreadable

VARIABLES
  file,          \* the YAML file
  head,          \* the file in the latest commit
  commits,       \* the file in each commit
  tags,          \* name and content of each tag
  pc, copy,      \* each writer's stage and its Skill object
  saves,         \* saves begun
  faults,        \* crashes and git failures
  cut,           \* history: bundles whose save a fault ended
  overlaps,      \* history: saves begun while another writer was at work
  overlapped,    \* history: bundles whose saves were under way together
  taken,         \* history: version numbers given out
  reused,        \* history: how often a number was given out again
  byAgents       \* history: texts that agents have written

vars == <<file, head, commits, tags, pc, copy, saves, faults, cut, overlaps,
          overlapped, taken, reused, byAgents>>
gitVars == <<head, commits, tags>>
countVars == <<saves, overlaps, overlapped, taken, reused>>
faultVars == <<faults, cut>>

First == [version |-> 1, text |-> 1]

Init ==
  /\ file = First /\ head = First /\ commits = {First} /\ tags = {}
  /\ pc = [w \in Writers |-> "idle"] /\ copy = [w \in Writers |-> First]
  /\ saves = 0 /\ faults = 0 /\ cut = {} /\ overlaps = 0 /\ overlapped = {}
  /\ taken = {1} /\ reused = 0 /\ byAgents = {}

GoTo(w, stage) == pc' = [pc EXCEPT ![w] = stage]

(* A new version of a bundle: the last number plus one.                    *)
NotBumped(version) == version

Bumped(version) == version + 1

(* SkillRegistry.get(): an unreadable file raises, and the writer gives up.*)
Read(w) ==
  /\ pc[w] = "idle"
  /\ saves < MaxSaves
  /\ file \notin Unreadable
  /\ copy' = [copy EXCEPT ![w] = file]
  /\ GoTo(w, "read")
  /\ UNCHANGED <<file, gitVars, countVars, faultVars, byAgents>>

(* The model answers nothing usable, or the form does not validate.        *)
Decline(w) ==
  /\ pc[w] = "read"
  /\ GoTo(w, "idle")
  /\ UNCHANGED <<file, gitVars, copy, countVars, faultVars, byAgents>>

AtWork == {w \in Writers : pc[w] # "idle"}
Saving == {w \in Writers : pc[w] \in {"write", "add", "commit", "tag"}}

(* The Skill object is changed and open("w") truncates the file.           *)
(* Reflection always makes a new version, the console if asked to.         *)
BeginSave(w) ==
  /\ pc[w] = "read"
  /\ saves < MaxSaves
  /\ \E bump \in BOOLEAN :
       LET version == IF bump THEN Bumped(copy[w].version) ELSE copy[w].version IN
         /\ w \in Agents => bump
         /\ copy' = [copy EXCEPT ![w] = [version |-> version, text |-> saves + 2]]
         /\ overlapped' = IF Saving = {} THEN overlapped
                          ELSE overlapped \cup {copy'[v] : v \in Saving \cup {w}}
         /\ taken' = taken \cup {version}
         /\ reused' = IF bump /\ version \in taken THEN reused + 1 ELSE reused
  /\ file' = Empty
  /\ saves' = saves + 1
  /\ overlaps' = IF AtWork = {w} THEN overlaps ELSE overlaps + 1
  /\ GoTo(w, "write")
  /\ UNCHANGED <<gitVars, faultVars, byAgents>>

(* The text reaches the file.  If another writer's got there in between,   *)
(* the longer of the two sticks out.                                       *)
FlushAppended(skill) == {Mixed}

FlushResults(skill) == IF file = Empty THEN {skill} ELSE {skill, Mixed}

Flush(w) ==
  /\ pc[w] = "write"
  /\ file' \in FlushResults(copy[w])
  /\ byAgents' = IF w \in Agents THEN byAgents \cup {copy[w].text} ELSE byAgents
  /\ GoTo(w, IF w \in Agents /\ AutoCommit THEN "add" ELSE "idle")
  /\ UNCHANGED <<gitVars, copy, countVars, faultVars>>

(* git add, and git diff --cached --quiet: nothing new, no commit, no tag. *)
(* Two mixed files need not be the same.                                   *)
UnchangedReversed == file # head

MayBeUnchanged == file = head

MayBeChanged == file # head \/ file = Mixed

Add(a) ==
  /\ pc[a] = "add"
  /\ \/ MayBeUnchanged /\ GoTo(a, "idle")
     \/ MayBeChanged /\ GoTo(a, "commit")
  /\ UNCHANGED <<file, gitVars, copy, countVars, faultVars, byAgents>>

(* git commit --only takes the file as it is now; with nothing to commit   *)
(* it fails.                                                               *)
Commit(a) ==
  /\ pc[a] = "commit"
  /\ \/ /\ MayBeUnchanged
        /\ GoTo(a, "idle")
        /\ UNCHANGED <<head, commits>>
     \/ /\ MayBeChanged
        /\ head' = file
        /\ commits' = commits \cup {file}
        /\ GoTo(a, IF AutoTag THEN "tag" ELSE "idle")
  /\ UNCHANGED <<file, tags, copy, countVars, faultVars, byAgents>>

(* git tag -a: the commit that is the latest by now; a name that is there  *)
(* already is left alone.                                                  *)
TagNameOfParent(skill) == skill.version - 1

TagName(skill) == skill.version

Tag(a) ==
  /\ pc[a] = "tag"
  /\ LET name == TagName(copy[a]) IN
       tags' = IF \E t \in tags : t.name = name
                 THEN tags ELSE tags \cup {[name |-> name, content |-> head]}
  /\ GoTo(a, "idle")
  /\ UNCHANGED <<file, head, commits, copy, countVars, faultVars, byAgents>>

(* A git command fails or times out: a warning, the file stays.            *)
GitFails(a) ==
  /\ pc[a] \in {"add", "commit", "tag"}
  /\ faults < MaxFaults
  /\ faults' = faults + 1 /\ cut' = cut \cup {copy[a]}
  /\ GoTo(a, "idle")
  /\ UNCHANGED <<file, gitVars, copy, countVars, byAgents>>

(* The process dies.                                                       *)
Crash(w) ==
  /\ pc[w] # "idle"
  /\ faults < MaxFaults
  /\ faults' = faults + 1 /\ cut' = IF w \in Saving THEN cut \cup {copy[w]} ELSE cut
  /\ GoTo(w, "idle")
  /\ UNCHANGED <<file, gitVars, copy, countVars, byAgents>>

Next ==
  \/ \E w \in Writers : Read(w) \/ Decline(w) \/ BeginSave(w) \/ Flush(w) \/ Crash(w)
  \/ \E a \in Agents : Add(a) \/ Commit(a) \/ Tag(a) \/ GitFails(a)

Spec == Init /\ [][Next]_vars
-----------------------------------------------------------------------------
(* Properties.  Texts, tags and numbers go wrong when saves overlap or are  *)
(* cut short, and only those of the saves this happened to, or as many.     *)

TypeOK ==
  /\ file \in Content /\ head \in Content /\ commits \subseteq Content
  /\ tags \subseteq [name : Version, content : Content]
  /\ pc \in [Writers -> {"idle", "read", "write", "add", "commit", "tag"}]
  /\ copy \in [Writers -> Bundle]
  /\ saves \in 0..MaxSaves /\ faults \in 0..MaxFaults
  /\ overlaps \in 0..saves /\ reused \in 0..saves
  /\ taken \subseteq Version /\ byAgents \subseteq Text
  /\ cut \subseteq Bundle /\ overlapped \subseteq Bundle

(* A version number names one text: a new version that reuses a number is  *)
(* paid for by a save that overlapped (metrics are kept per number).       *)
NumbersReusedBound == reused <= overlaps

LostTexts == {x \in byAgents : file.text # x /\ \A c \in commits : c.text # x}

(* What an agent learnt is kept (with git_auto_commit; without it every    *)
(* new version replaces the last): a text that an agent wrote is in the     *)
(* file or in git, unless its own save overlapped another's or was cut      *)
(* short.                                                                  *)
AgentTextsKept ==
  AutoCommit => \A x \in LostTexts : \E b \in overlapped \cup cut : b.text = x

FalseTags == {t \in tags : t.content.version # t.name}

(* A tag names the version it holds, unless the save that set it overlapped *)
(* another's: git tags the HEAD of the moment.                             *)
TagsTrue == \A t \in FalseTags : \E b \in overlapped : b.version = t.name

(* While nobody is saving, the file can be read, unless a save was cut     *)
(* short or two of them mixed.                                             *)
ReadableAtRest ==
  (\A w \in Writers : pc[w] # "write") /\ file \in Unreadable => faults + overlaps > 0
=============================================================================
