------------------------------- MODULE MaipUsers -------------------------------
(***************************************************************************)
(* The users and the model descriptions of the MAIP program (InfProgram,   *)
(* InfMaipUser, InfMaipModelDescription) and the state files both are kept *)
(* in (PcState).                                                           *)
(*                                                                         *)
(* One thread runs every request.  A request that changes a user changes   *)
(* it in memory and then rewrites the user's file; the program may be      *)
(* killed in between or in the middle of the file, which then holds a part *)
(* of the keys.  After a restart the files are all there is.               *)
(* StateFile has the file itself; a cut right behind its header, which     *)
(* kills the program at every start, is left out here.                     *)
(***************************************************************************)
EXTENDS Naturals, FiniteSets, Functions

CONSTANTS
    Users, Tokens,      \* user names and session tokens
    Names,              \* names of models, original and custom
    Flags,              \* the authority flags the instance tells apart
    Limits,             \* the numeric settings the instance tells apart
    LimitValues,        \* the values they are set to
    Created,            \* the records users are created with
    TornUsers,          \* which keys of a user's file survive a crash; the hash
                        \* map writes its keys in one order, the user's name last
    TornDescriptions    \* which keys of a description's file do: the original name
                        \* is written before the custom one

CapOf == [batch_size |-> "max_context_length", proc_thread_count |-> "proc_max_thread_count"]
UserKeys == {"identity", "super", "static", "flags", "models", "limits"}
None == ""

UserRecord == [super : BOOLEAN, static : BOOLEAN, flags : SUBSET Flags, models : SUBSET Names,
               limits : [Limits -> LimitValues \cup {0}]]
DescriptionRecord == [custom : Names \cup {None}, original : Names \cup {None}]

\* Users are created with records of their kind, a limit is compared with another one the
\* instance has, a cap of no thread leaves one, and a model has a name
ConstantsFit ==
    /\ Created \subseteq UserRecord
    /\ LimitValues \subseteq Nat
    /\ \A l \in Limits \cap DOMAIN CapOf : CapOf[l] \in Limits
    /\ "proc_thread_count" \in Limits => 1 \in LimitValues
    /\ None \notin Names

VARIABLES
    mUserMap,               \* user name to record
    files,                  \* user name to [keys, user]: the keys that can be read, the
                            \* record they make
    mSessionMap,            \* session token to user name
    mModelDescriptionMap,   \* name to record
    descriptionFiles,       \* name to the record its keys make
    adrift,                 \* history: the names only a torn file of another name gave
                            \* a description at the last restart, until they are saved
    place,                  \* "main", "down", or which file is being rewritten
    by                      \* history: "super" when a superuser or the application caused the
                            \* last step, "user" when another user did

users == <<mUserMap, files>>
saved == <<descriptionFiles, adrift>>
descriptions == <<mModelDescriptionMap, saved>>
vars == <<users, mSessionMap, descriptions, place, by>>

Places == [at : {"main", "down"}] \cup [at : {"user"}, name : Users]
          \cup [at : {"description"}, saved : DescriptionRecord]
Main == [at |-> "main"]

TypeOK ==
    /\ DOMAIN mUserMap \subseteq Users /\ Range(mUserMap) \subseteq UserRecord
    /\ DOMAIN files \subseteq Users
    /\ Range(files) \subseteq [keys : SUBSET {"identity"}, user : UserRecord]
    /\ DOMAIN mSessionMap \subseteq Tokens /\ Range(mSessionMap) \subseteq Users
    /\ DOMAIN mModelDescriptionMap \subseteq Names \cup {None}
    /\ Range(mModelDescriptionMap) \subseteq DescriptionRecord
    /\ DOMAIN descriptionFiles \subseteq Names
    /\ Range(descriptionFiles) \subseteq DescriptionRecord
    /\ adrift \subseteq Names \cup {None}
    /\ place \in Places
    /\ by \in {"super", "user"}

Init ==
    /\ mUserMap = <<>> /\ files = <<>>
    /\ mSessionMap = <<>>
    /\ mModelDescriptionMap = <<>> /\ descriptionFiles = <<>> /\ adrift = {}
    /\ place = Main
    /\ by = "super"

With(f, x, v) == [y \in DOMAIN f \cup {x} |-> IF y = x THEN v ELSE f[y]]
Without(f, xs) == Restrict(f, DOMAIN f \ xs)
By(c) == by' = IF mUserMap[c].super THEN "super" ELSE "user"

-----------------------------------------------------------------------------
(* Sessions.                                                               *)

\* inf_access_request with the user's key and the category T2T
AccessRequest(t, u) ==
    /\ place = Main
    /\ t \notin DOMAIN mSessionMap
    /\ u \in DOMAIN mUserMap
    /\ mSessionMap' = With(mSessionMap, t, u)
    /\ By(u)
    /\ UNCHANGED <<users, descriptions, place>>

DestroySession(t) ==
    /\ place = Main
    /\ t \in DOMAIN mSessionMap
    /\ mSessionMap' = Without(mSessionMap, {t})
    /\ By(mSessionMap[t])
    /\ UNCHANGED <<users, descriptions, place>>

\* MBASE_SESSION_CONTROL: c asks through one of its sessions
Asks(c) == place = Main /\ c \in Range(mSessionMap) /\ By(c)

IsFlagsSet(c, f) == mUserMap[c].super \/ f \in mUserMap[c].flags

\* mutant of CommonModificationControl: superusers are guarded, static users are not
ModificationControlStatic(c, u, f) ==
    /\ IsFlagsSet(c, f)
    /\ u \in DOMAIN mUserMap
    /\ mUserMap[u].super => mUserMap[c].super

CommonModificationControl(c, u, f) ==
    /\ IsFlagsSet(c, f)
    /\ u \in DOMAIN mUserMap
    /\ mUserMap[u].static \/ mUserMap[u].super => mUserMap[c].super

-----------------------------------------------------------------------------
(* Users.  SetUser is a handler's change of a record in mUserMap; what     *)
(* follows it, update_state_file, is UpdateUserFile.                       *)

\* load_from_state_file of a file with these keys: a missing one keeps its default
LoadedUser(keys, user) ==
    [super |-> "super" \in keys /\ user.super,
     static |-> "static" \in keys /\ user.static,
     flags |-> IF "flags" \in keys THEN user.flags ELSE {},
     models |-> IF "models" \in keys THEN user.models ELSE {},
     limits |-> IF "limits" \in keys THEN user.limits ELSE [l \in Limits |-> 0]]
UserFile(keys, user) == [keys |-> keys \cap {"identity"}, user |-> LoadedUser(keys, user)]

SaveUser(u) == place' = [at |-> "user", name |-> u]
SetUser(u, record) ==
    /\ mUserMap' = With(mUserMap, u, record)
    /\ SaveUser(u)
    /\ UNCHANGED <<files, mSessionMap, descriptions>>

Least(m, n) == IF m < n THEN m ELSE n
CreatedLimits(want) ==
    [l \in Limits |->
        CASE l = "batch_size" -> Least(want[l], want[CapOf[l]])
          [] l = "proc_thread_count" -> Least(want[l], IF want[CapOf[l]] = 0 THEN 1 ELSE want[CapOf[l]])
          [] OTHER -> want[l]]

CreateUser(u, want) == SetUser(u, [want EXCEPT !.limits = CreatedLimits(@), !.models = {}])

\* create_user, called by the application itself
ApplicationCreatesUser(u, want) ==
    /\ place = Main
    /\ u \notin DOMAIN mUserMap
    /\ by' = "super"
    /\ CreateUser(u, want)

\* mutant of CreateNewUser: the check of the superuser is forgotten
CreateNewUserAny(c, u, want) ==
    /\ Asks(c)
    /\ IsFlagsSet(c, "USER_CD")
    /\ u \notin DOMAIN mUserMap
    /\ CreateUser(u, want)

CreateNewUser(c, u, want) ==
    /\ Asks(c)
    /\ IsFlagsSet(c, "USER_CD")
    /\ u \notin DOMAIN mUserMap
    /\ want.super => mUserMap[c].super
    /\ CreateUser(u, want)

\* mutant of DeleteUser: the loop leaves after the first session it erases
DeleteUserOneSession(c, u) ==
    /\ Asks(c)
    /\ IsFlagsSet(c, "USER_CD")
    /\ u # c /\ u \in DOMAIN mUserMap
    /\ mUserMap[u].super => mUserMap[c].super
    /\ \E ts \in SUBSET {t \in DOMAIN mSessionMap : mSessionMap[t] = u} :
          Cardinality(ts) <= 1 /\ mSessionMap' = Without(mSessionMap, ts)
    /\ mUserMap' = Without(mUserMap, {u})
    /\ UNCHANGED <<files, descriptions, place>>

\* The file looked for to be deleted ends in .mbfs; there is none of that name
DeleteUser(c, u) ==
    /\ Asks(c)
    /\ IsFlagsSet(c, "USER_CD")
    /\ u # c /\ u \in DOMAIN mUserMap
    /\ mUserMap[u].super => mUserMap[c].super
    /\ mSessionMap' = Without(mSessionMap, {t \in DOMAIN mSessionMap : mSessionMap[t] = u})
    /\ mUserMap' = Without(mUserMap, {u})
    /\ UNCHANGED <<files, descriptions, place>>

FlagOf == [model_access_limit |-> "ACCESIBILITY", max_context_length |-> "CTX_MODIFY",
           batch_size |-> "BATCH_SET", proc_thread_count |-> "THREAD_SET",
           proc_max_thread_count |-> "MAX_THREAD_SET"]
Capped(u, l, v) == IF l \in DOMAIN CapOf THEN Least(v, mUserMap[u].limits[CapOf[l]]) ELSE v

\* mutant of ModifyLimit: update_state_file runs before the setter
ModifyLimitSavedFirst(c, u, l, v) ==
    /\ Asks(c)
    /\ CommonModificationControl(c, u, FlagOf[l])
    /\ files' = With(files, u, UserFile(UserKeys, mUserMap[u]))
    /\ mUserMap' = [mUserMap EXCEPT ![u].limits[l] = Capped(u, l, v)]
    /\ UNCHANGED <<mSessionMap, descriptions, place>>

ModifyLimit(c, u, l, v) ==
    /\ Asks(c)
    /\ CommonModificationControl(c, u, FlagOf[l])
    /\ SetUser(u, [mUserMap[u] EXCEPT !.limits[l] = Capped(u, l, v)])

\* The system prompt, whose text no property tells apart
ModifySystemPrompt(c, u) ==
    /\ Asks(c)
    /\ CommonModificationControl(c, u, "SYS_PROMPT")
    /\ SetUser(u, mUserMap[u])

\* Both change and save the caller, whatever user is named
MakeSuperuser(c, u) ==
    /\ Asks(c)
    /\ mUserMap[c].super /\ u \in DOMAIN mUserMap
    /\ SetUser(c, [mUserMap[c] EXCEPT !.super = TRUE])

UnmakeSuperuser(c, u) ==
    /\ Asks(c)
    /\ mUserMap[c].super /\ u \in DOMAIN mUserMap
    /\ SetUser(c, [mUserMap[c] EXCEPT !.super = FALSE])

AcceptModels(c, u, models) ==
    /\ Asks(c)
    /\ CommonModificationControl(c, u, "ACCESIBILITY")
    /\ models \subseteq DOMAIN mModelDescriptionMap \cap Names
    /\ SetUser(u, [mUserMap[u] EXCEPT !.models = @ \cup models])

\* The only change of a user that is not saved
SetAuthorityFlags(c, u, flags) ==
    /\ Asks(c)
    /\ mUserMap[c].super /\ u \in DOMAIN mUserMap
    /\ mUserMap' = [mUserMap EXCEPT ![u].flags = @ \cup flags]
    /\ UNCHANGED <<files, mSessionMap, descriptions, place>>

UpdateUserFile ==
    /\ place.at = "user"
    /\ files' = With(files, place.name, UserFile(UserKeys, mUserMap[place.name]))
    /\ place' = Main
    /\ UNCHANGED <<mUserMap, mSessionMap, descriptions, by>>

-----------------------------------------------------------------------------
(* Model descriptions.  update_state_file writes nothing for a record      *)
(* without an original name and gives the custom name its default.         *)

Defaulted(d) == IF d.custom = None THEN [d EXCEPT !.custom = d.original] ELSE d
Saves(d) == place' = IF d.original = None THEN Main
                     ELSE [at |-> "description", saved |-> Defaulted(d)]

CreateModelDescription(c, original, custom) ==
    LET d == Defaulted([custom |-> custom, original |-> original]) IN
    /\ Asks(c)
    /\ CommonModificationControl(c, c, "LOAD")
    /\ d.custom \notin DOMAIN mModelDescriptionMap
    /\ mModelDescriptionMap' = With(mModelDescriptionMap, d.custom, d)
    /\ Saves(d)
    /\ UNCHANGED <<users, mSessionMap, saved>>

\* common_description_modification_control
DescriptionControl(c, name) ==
    /\ Asks(c)
    /\ CommonModificationControl(c, c, "LOAD")
    /\ name \in DOMAIN mModelDescriptionMap

ModifyOriginalName(c, name, original) ==
    LET d == [mModelDescriptionMap[name] EXCEPT !.original = original] IN
    /\ DescriptionControl(c, name)
    /\ mModelDescriptionMap' = [mModelDescriptionMap EXCEPT ![name] = Defaulted(d)]
    /\ Saves(d)
    /\ UNCHANGED <<users, mSessionMap, saved>>

\* mutant of ModifyCustomName: deletes the file under the new name after it is written
ModifyCustomNameDeletes(c, name, custom) ==
    /\ DescriptionControl(c, name)
    /\ custom # mModelDescriptionMap[name].custom
    /\ mModelDescriptionMap' = With(Without(mModelDescriptionMap, {name}), custom,
                                    [mModelDescriptionMap[name] EXCEPT !.custom = custom])
    /\ descriptionFiles' = Without(descriptionFiles, {custom})
    /\ UNCHANGED <<users, mSessionMap, adrift, place>>

\* The file to delete is named without its extension, so none is deleted; the new entry is
\* copied out of the erased one, which may hold anything by then
ModifyCustomName(c, name, custom) ==
    LET d == [mModelDescriptionMap[name] EXCEPT !.custom = custom] IN
    /\ DescriptionControl(c, name)
    /\ custom # mModelDescriptionMap[name].custom
    /\ \E copied \in {d, [custom |-> None, original |-> None]} :
          mModelDescriptionMap' = With(Without(mModelDescriptionMap, {name}), custom, copied)
    /\ Saves(d)
    /\ UNCHANGED <<users, mSessionMap, saved>>

\* Description, system prompt, model file, tags, context length
ModifyDescription(c, name) ==
    LET d == mModelDescriptionMap[name] IN
    /\ DescriptionControl(c, name)
    /\ mModelDescriptionMap' = [mModelDescriptionMap EXCEPT ![name] = Defaulted(d)]
    /\ Saves(d)
    /\ UNCHANGED <<users, mSessionMap, saved>>

UpdateDescriptionFile ==
    /\ place.at = "description"
    /\ descriptionFiles' = With(descriptionFiles, place.saved.custom, place.saved)
    /\ adrift' = adrift \ {place.saved.custom}
    /\ place' = Main
    /\ UNCHANGED <<users, mSessionMap, mModelDescriptionMap, by>>

-----------------------------------------------------------------------------
(* The program is killed and started again.                                *)

CrashTearsUser(u) == \E torn \in TornUsers :
    /\ files' = With(files, u, UserFile(torn, mUserMap[u]))
    /\ UNCHANGED descriptionFiles
CrashTearsDescription(d) == \E torn \in TornDescriptions :
    /\ descriptionFiles' = With(descriptionFiles, d.custom, 
        [custom |-> IF "custom" \in torn THEN d.custom ELSE None,
         original |-> IF "original" \in torn THEN d.original ELSE None])
    /\ UNCHANGED files

Crash ==
    /\ CASE place.at = "main" -> UNCHANGED <<files, descriptionFiles>>
         [] place.at = "user" -> CrashTearsUser(place.name)
         [] place.at = "description" -> CrashTearsDescription(place.saved)
         [] OTHER -> FALSE
    /\ mUserMap' = <<>> /\ mSessionMap' = <<>> /\ mModelDescriptionMap' = <<>> /\ adrift' = {}
    /\ place' = [at |-> "down"]
    /\ by' = "super"

\* _load_user_states
LoadUserStates ==
    mUserMap' = [u \in {v \in DOMAIN files : "identity" \in files[v].keys} |-> files[u].user]

\* _reload_model_descriptions: of two files with one name the later one stays
ReloadModelDescriptions ==
    LET NameIn(n) == Defaulted(descriptionFiles[n]).custom
        Loaded == {NameIn(n) : n \in DOMAIN descriptionFiles}
    IN /\ \E from \in [Loaded -> DOMAIN descriptionFiles] :
             /\ \A name \in Loaded : NameIn(from[name]) = name
             /\ mModelDescriptionMap' =
                    [name \in Loaded |-> Defaulted(descriptionFiles[from[name]])]
       /\ adrift' = Loaded \ {n \in DOMAIN descriptionFiles : NameIn(n) = n}

\* initialize
Restart ==
    /\ place.at = "down"
    /\ LoadUserStates
    /\ ReloadModelDescriptions
    /\ place' = Main
    /\ UNCHANGED <<files, mSessionMap, descriptionFiles, by>>

-----------------------------------------------------------------------------

SessionRequest ==
    \/ \E t \in Tokens, u \in Users : AccessRequest(t, u)
    \/ \E t \in Tokens : DestroySession(t)
UserRequest == \E c, u \in Users :
    \/ \E want \in Created : CreateNewUser(c, u, want)
    \/ DeleteUser(c, u)
    \/ \E l \in Limits, v \in LimitValues : ModifyLimit(c, u, l, v)
    \/ ModifySystemPrompt(c, u)
    \/ MakeSuperuser(c, u)
    \/ UnmakeSuperuser(c, u)
    \/ \E models \in SUBSET Names \ {{}} : AcceptModels(c, u, models)
    \/ \E flag \in Flags : SetAuthorityFlags(c, u, {flag})
DescriptionRequest == \E c \in Users, name \in Names \cup {None} :
    \/ \E original \in Names : CreateModelDescription(c, original, name)
    \/ \E original \in Names : ModifyOriginalName(c, name, original)
    \/ \E custom \in Names : ModifyCustomName(c, name, custom)
    \/ ModifyDescription(c, name)
Write == UpdateUserFile \/ UpdateDescriptionFile

Next ==
    \/ \E u \in Users, want \in Created : ApplicationCreatesUser(u, want)
    \/ SessionRequest
    \/ UserRequest
    \/ DescriptionRequest
    \/ Write
    \/ Crash
    \/ Restart

Spec == Init /\ [][Next]_vars

-----------------------------------------------------------------------------

\* Every session belongs to a user who exists: the handlers look the caller up with operator[],
\* which would create an empty user for the session of a deleted one (inf_delete_user).
SessionUsersExist == Range(mSessionMap) \subseteq DOMAIN mUserMap

\* What a restart would bring back is what the program holds, except that flags added by
\* inf_modify_user_set_authority_flags are lost (update_state_file after every other change).
UsersPersisted == place.at \in {"main", "description"} =>
    \A u \in DOMAIN mUserMap :
        /\ u \in DOMAIN files /\ "identity" \in files[u].keys
        /\ [files[u].user EXCEPT !.flags = mUserMap[u].flags] = mUserMap[u]
        /\ files[u].user.flags \subseteq mUserMap[u].flags

\* Every description the program holds has a file it will be loaded from again, whatever
\* renames came before (inf_modify_custom_model_name, update_state_file); not one that lost
\* its original name in an erased entry, which is never saved, nor one that lost its custom
\* name with a torn file: that file is written over by the next description of its name.
DescriptionsPersisted == place.at \in {"main", "user"} =>
    {n \in DOMAIN mModelDescriptionMap :
        mModelDescriptionMap[n].custom = n /\ mModelDescriptionMap[n].original # None} \ adrift
        \subseteq {Defaulted(descriptionFiles[n]).custom : n \in DOMAIN descriptionFiles}

\* No session of a deleted user is left, and a restart brings back the users and the model
\* descriptions as they are, the known losses aside.
UsersKept == TypeOK /\ SessionUsersExist /\ UsersPersisted /\ DescriptionsPersisted

\* Nobody becomes a superuser by what a user who is not one asks for
\* (inf_create_new_user, inf_modify_user_make_superuser).
RightsGranted == \A u \in DOMAIN mUserMap' :
    mUserMap'[u].super /\ ~(u \in DOMAIN mUserMap /\ mUserMap[u].super) => by' = "super"

\* Who is not a superuser never changes a static user or a superuser, not even itself
\* (common_modification_control, inf_delete_user, which may erase a static user).
ProtectedUsersStay == \A u \in DOMAIN mUserMap : by' = "user" =>
    /\ mUserMap[u].super => u \in DOMAIN mUserMap' /\ mUserMap'[u] = mUserMap[u]
    /\ mUserMap[u].static /\ u \in DOMAIN mUserMap' => mUserMap'[u] = mUserMap[u]

\* Only superusers and the application make superusers, and change static users and superusers.
RightsKept == [][RightsGranted /\ ProtectedUsersStay]_vars
===============================================================================
