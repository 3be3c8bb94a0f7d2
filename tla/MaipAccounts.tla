------------------------------ MODULE MaipAccounts ------------------------------
(* The users and the model descriptions of the MAIP program, with names of   *)
(* their own for what MaipContexts has too, so that both can stand in one    *)
(* model.                                                                    *)

CONSTANTS Users, Tokens, Names, Flags, Limits, LimitValues, Created, TornUsers, TornDescriptions

VARIABLES mUserMap, files, tokens, mModelDescriptionMap, descriptionFiles, adrift, place, by

U == INSTANCE MaipUsers WITH mSessionMap <- tokens

ASSUME UsersAssumption == U!ConstantsFit

userVars == <<mUserMap, files, tokens, mModelDescriptionMap, descriptionFiles, adrift, place, by>>

\* No session of a deleted user is left, and a restart brings back the users and the model
\* descriptions as they are, the known losses aside.
UsersKept == U!UsersKept
\* Only superusers and the application make superusers, and change static users and superusers.
RightsKept == U!RightsKept
===============================================================================
