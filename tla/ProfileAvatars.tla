----------------------------- MODULE ProfileAvatars -----------------------------
(***************************************************************************)
(* Avatars (domains/user/application.py, api/routers/avatar.py) and the    *)
(* files that are served meanwhile (core/static_files.py).                 *)
(*                                                                         *)
(* The row of a user and the store of files have no common transaction: a  *)
(* new file is written before the row refers to it, an old one removed     *)
(* once the row does not.  The handlers await their file operations, so    *)
(* that requests of one user overlap; what a request takes for the old     *)
(* avatar was read when its user was authenticated.                        *)
(*                                                                         *)
(* Abstractions: a file is its identity (names are random); a commit that  *)
(* raises has had no effect; the lines of a profile other than the avatar  *)
(* are left out (AgentRegistry has user names).                            *)
(***************************************************************************)
EXTENDS Integers, Platform

CONSTANTS
  MaxFile,   \* bound: files ever written
  MaxText    \* bound: profiles ever edited

ASSUME AvatarAssumption == MaxFile \in Nat /\ MaxText \in Nat

VARIABLES
  strategy,  \* AVATAR_STORAGE_STRATEGY
  avatar,    \* avatar_url of each user: a file, 0 for none
  owner,     \* whether the user is there, and banned from having an avatar
  stored,    \* the state of each file
  uploads,   \* requests in progress
  serving,   \* a download in progress
  named,     \* history: files that were set as text for avatar_url
  texts,     \* how often that has happened
  leftover   \* history: files whose removal failed, or that nothing removes

avatarVars == <<strategy, avatar, owner, stored, uploads, serving, named, texts, leftover>>

FileIds == 1..MaxFile

Waiting == [stage |-> "idle", user |-> None, old |-> 0, new |-> 0]
NotServing == [stage |-> "idle", file |-> 0, body |-> FALSE]

\* uuid4 gives every file a name of its own.
NewFile(f) == \A g \in FileIds : stored[g] = "unused" <=> g >= f

Sends(q, new) == uploads' = [uploads EXCEPT ![q] = new]
At(q, stage) == uploads' = [uploads EXCEPT ![q].stage = stage]
Over(q) == uploads' = [uploads EXCEPT ![q] = Waiting]

\* What is left when files are not removed.
Leaves(S) == leftover' = leftover \cup {f \in S \ {0} : stored[f] # "gone"}

-----------------------------------------------------------------------------
(* Requests                                                                *)

\* ensure_profile_field_allowed, with the user the dependency has read
MayChange(u) == owner[u] = "ok"

\* upload_user_avatar, after the file was found valid
StartUpload(q, u) ==
  /\ uploads[q] = Waiting /\ MayChange(u)
  /\ Sends(q, [stage |-> "save", user |-> u, old |-> avatar[u], new |-> 0])
  /\ UNCHANGED <<strategy, avatar, owner, stored, serving, named, texts, leftover>>

\* _save_local_avatar_file: the file is there before its contents are.
OpenFile(q, f) ==
  /\ strategy = "local" /\ uploads[q].stage = "save" /\ NewFile(f)
  /\ stored' = [stored EXCEPT ![f] = "partial"]
  /\ uploads' = [uploads EXCEPT ![q].stage = "write", ![q].new = f]
  /\ UNCHANGED <<strategy, avatar, owner, serving, named, texts, leftover>>

WriteFile(q) ==
  /\ uploads[q].stage = "write"
  /\ stored' = [stored EXCEPT ![uploads[q].new] = "whole"]
  /\ At(q, "commit")
  /\ UNCHANGED <<strategy, avatar, owner, serving, named, texts, leftover>>

\* _save_object_avatar_file
PutObject(q, f) ==
  /\ strategy = "object_storage" /\ uploads[q].stage = "save" /\ NewFile(f)
  /\ stored' = [stored EXCEPT ![f] = "whole"]
  /\ uploads' = [uploads EXCEPT ![q].stage = "commit", ![q].new = f]
  /\ UNCHANGED <<strategy, avatar, owner, serving, named, texts, leftover>>

\* AvatarStorageError: what was written of the file stays.
SaveFails(q) ==
  /\ uploads[q].stage \in {"save", "write"}
  /\ Leaves({uploads[q].new})
  /\ Over(q)
  /\ UNCHANGED <<strategy, avatar, owner, stored, serving, named, texts>>

\* delete_user_avatar awaits nothing before its commit, but its user was read
\* by another thread.
StartDeletion(q, u) ==
  /\ uploads[q] = Waiting /\ MayChange(u)
  /\ Sends(q, [stage |-> "commit", user |-> u, old |-> avatar[u], new |-> 0])
  /\ UNCHANGED <<strategy, avatar, owner, stored, serving, named, texts, leftover>>

\* SQLAlchemy writes the column if it differs from what was read.
Stores(u) == IF u.new = u.old THEN avatar ELSE [avatar EXCEPT ![u.user] = u.new]

\* The file of a request that came between is not removed by either.
CommitAvatar(q) ==
  LET u == uploads[q] IN
  /\ u.stage = "commit" /\ owner[u.user] # "gone"
  /\ avatar' = Stores(u)
  /\ Leaves({avatar[u.user]} \ {avatar'[u.user], u.old})
  /\ At(q, "clean")
  /\ UNCHANGED <<strategy, owner, stored, serving, named, texts>>

\* Rolled back; the new file goes.
CommitFails(q) ==
  /\ uploads[q].stage = "commit"
  /\ At(q, "undo")
  /\ UNCHANGED <<strategy, avatar, owner, stored, serving, named, texts, leftover>>

Removed(f) == [g \in FileIds |-> IF g = f THEN "gone" ELSE stored[g]]

\* _delete_avatar_file; its errors are passed over.
RemoveFile(q, f) ==
  /\ \/ stored' = Removed(f) /\ UNCHANGED leftover
     \/ Leaves({f}) /\ UNCHANGED stored
  /\ Over(q)
  /\ UNCHANGED <<strategy, avatar, owner, serving, named, texts>>

\* Mutation of Stale: the new file goes, whatever became of the commit.
StaleIsNew(u) == u.new

\* Mutation of Stale: a commit that failed removes nothing.
StaleKeepsNew(u) == IF u.stage = "clean" THEN u.old ELSE 0

\* What a request removes in the end.
Stale(u) == IF u.stage = "clean" THEN u.old ELSE u.new

CleanUp(q) == uploads[q].stage \in {"clean", "undo"} /\ RemoveFile(q, Stale(uploads[q]))

\* refresh() of a user deleted meanwhile, the end of the process.
Break(q) ==
  LET u == uploads[q] IN
  /\ u.stage \in {"write", "commit", "clean", "undo"}
  /\ Leaves({Stale(u)})
  /\ Over(q)
  /\ UNCHANGED <<strategy, avatar, owner, stored, serving, named, texts>>

\* update_user and complete_profile take any text for avatar_url: none, or a
\* file that is or was there (a form that was open during an upload); the name
\* of a new file is not known before its commit.
SetAvatarText(u, f) ==
  /\ texts < MaxText /\ texts' = texts + 1
  /\ MayChange(u) /\ f \in 0..MaxFile /\ f # avatar[u]
  /\ f # 0 => /\ stored[f] \in {"whole", "gone"}
              /\ \A q \in Requests : uploads[q].new = f => uploads[q].stage = "clean"
  /\ avatar' = [avatar EXCEPT ![u] = f]
  /\ named' = named \cup ({f} \ {0})
  /\ Leaves({avatar[u]})
  /\ UNCHANGED <<strategy, owner, stored, uploads, serving>>

\* apply_user_violation of the avatar or the account: the file stays.
BanAvatar(u) ==
  /\ owner[u] = "ok"
  /\ owner' = [owner EXCEPT ![u] = "banned"]
  /\ avatar' = [avatar EXCEPT ![u] = 0]
  /\ Leaves({avatar[u]})
  /\ UNCHANGED <<strategy, stored, uploads, serving, named, texts>>

LiftBan(u) ==
  /\ owner[u] = "banned"
  /\ owner' = [owner EXCEPT ![u] = "ok"]
  /\ UNCHANGED <<strategy, avatar, stored, uploads, serving, named, texts, leftover>>

\* delete_user: the file stays.
DeleteUser(u) ==
  /\ owner[u] \in {"ok", "banned"}
  /\ owner' = [owner EXCEPT ![u] = "gone"]
  /\ avatar' = [avatar EXCEPT ![u] = 0]
  /\ Leaves({avatar[u]})
  /\ UNCHANGED <<strategy, stored, uploads, serving, named, texts>>

-----------------------------------------------------------------------------
(* Downloads of local files                                                *)

\* lookup_path: the file is there.  A bound: a file somebody has as avatar.
FindFile(f) ==
  /\ strategy = "local" /\ serving = NotServing
  /\ \E u \in Users : avatar[u] = f
  /\ stored[f] \in {"partial", "whole"}
  /\ serving' = [stage |-> "found", file |-> f, body |-> FALSE]
  /\ UNCHANGED <<strategy, avatar, owner, stored, uploads, named, texts, leftover>>

\* Mutation of Begun: the response begins before the file is open.
BegunUnopened == "ok"

\* _handle_simple, _handle_single_range, _handle_multiple_ranges: the file is
\* opened before the first line of the answer.
Begun == IF stored[serving.file] = "gone" THEN "not found" ELSE "ok"

OpenDownload ==
  /\ serving.stage = "found"
  /\ serving' = [serving EXCEPT !.stage = Begun, !.body = stored[serving.file] # "gone"]
  /\ UNCHANGED <<strategy, avatar, owner, stored, uploads, named, texts, leftover>>

\* The answer is over; an open file can be read after its removal.
EndDownload ==
  /\ serving.stage \in {"ok", "not found"}
  /\ serving' = NotServing
  /\ UNCHANGED <<strategy, avatar, owner, stored, uploads, named, texts, leftover>>

AvatarInit ==
  /\ strategy \in {"local", "object_storage"}
  /\ avatar = [u \in Users |-> 0] /\ owner = [u \in Users |-> "ok"]
  /\ stored = [f \in FileIds |-> "unused"]
  /\ uploads = [q \in Requests |-> Waiting]
  /\ serving = NotServing /\ named = {} /\ texts = 0 /\ leftover = {}

AvatarNext ==
  \/ \E q \in Requests :
       \/ \E u \in Users : StartUpload(q, u) \/ StartDeletion(q, u)
       \/ \E f \in FileIds : OpenFile(q, f) \/ PutObject(q, f)
       \/ WriteFile(q) \/ SaveFails(q) \/ CommitAvatar(q) \/ CommitFails(q)
       \/ CleanUp(q) \/ Break(q)
  \/ \E u \in Users :
       \/ \E f \in 0..MaxFile : SetAvatarText(u, f)
       \/ BanAvatar(u) \/ LiftBan(u) \/ DeleteUser(u)
  \/ \E f \in FileIds : FindFile(f)
  \/ OpenDownload \/ EndDownload

AvatarSpec == AvatarInit /\ [][AvatarNext]_avatarVars

-----------------------------------------------------------------------------
(* Properties                                                              *)

\* The values every variable can take.
AvatarTypeOK ==
  /\ strategy \in {"local", "object_storage"}
  /\ avatar \in [Users -> 0..MaxFile]
  /\ owner \in [Users -> {"ok", "banned", "gone"}]
  /\ stored \in [FileIds -> {"unused", "partial", "whole", "gone"}]
  /\ uploads \in [Requests -> [stage : {"idle", "save", "write", "commit", "clean", "undo"},
                               user : Users \cup {None}, old : 0..MaxFile, new : 0..MaxFile]]
  /\ serving \in [stage : {"idle", "found", "ok", "not found"}, file : 0..MaxFile,
                  body : BOOLEAN]
  /\ named \subseteq FileIds /\ texts \in 0..MaxText /\ leftover \subseteq FileIds

\* An avatar that was uploaded can be shown: the row refers to a file that was
\* written to its end and is still there, whatever uploads and deletions of
\* users overlap or fail, unless the file was set as text as well
\* (user/application.py:555-621).
AvatarShown ==
  \A u \in Users : avatar[u] \notin named \cup {0} => stored[avatar[u]] = "whole"

\* A file that no row refers to is about to be removed, unless a removal failed,
\* two requests overlapped, or the avatar was taken away by an administrator,
\* with the account, or as text (user/application.py:555-621).
NoFileForgotten ==
  \A f \in FileIds \ leftover : stored[f] \in {"partial", "whole"} =>
    \/ \E u \in Users : avatar[u] = f
    \/ \E q \in Requests : f \in {uploads[q].old, uploads[q].new}

\* A download that has begun goes on to its end, whatever is removed meanwhile;
\* a file that is gone by then is answered as not found
\* (static_files.py:46-178).
BegunHasBody == serving.stage = "ok" => serving.body

\* Rows, files and downloads of avatars fit together at every moment.
AvatarsKept == AvatarShown /\ NoFileForgotten /\ BegunHasBody
=============================================================================
