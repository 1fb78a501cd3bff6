------------------------------ MODULE Settings ------------------------------
(***************************************************************************)
(* The settings of the page: switches, the bots' tokens, the logo, and the *)
(* form that looks a video up.  Each is changed by a request whose answer  *)
(* is applied to what the page shows by then.                              *)
(***************************************************************************)
EXTENDS Naturals, Sequences, SequencesExt

CONSTANTS
  Switches,      \* WebDAV, S3, the upload API, backups, downloads of a user
  Tokens,        \* bot tokens
  MaxRows,       \* bound on rows of tokens
  Logos,         \* files for the logo
  Urls,          \* addresses of videos
  MaxSettingsOps \* bound on what the user does

Empty == "empty"
NoLogo == "no logo"

ASSUME SettingsAssumption ==
  /\ Empty \notin Tokens \cup Urls /\ NoLogo \notin Logos
  /\ MaxRows \in Nat /\ MaxSettingsOps \in Nat
  /\ IsFiniteSet(Tokens) /\ Cardinality(Tokens) <= MaxRows   \* the rows there are at the start

VARIABLES
  shown,     \* what each switch shows
  truth,     \* what it is on the server
  flips,     \* requests that set a switch
  rows,      \* botTokens
  saving,    \* botLoading: the tokens posted, and the server's results
  statuses,  \* botStatuses
  verified,  \* tokens the server has verified
  brand,     \* brandingForm's file and preview
  readers,   \* previews being read
  posts,     \* requests for the logo: the file, or "reset", and whether the server did it
  custom,    \* the logo on the server
  lookup,    \* ytdlpUrl, ytdlpInfo and ytdlpLoading
  lookups,   \* addresses whose formats the server is asked for
  sops       \* what the user has done so far

switchVars == <<shown, truth, flips>>
botVars == <<rows, saving, statuses, verified>>
brandVars == <<brand, readers, posts, custom>>
videoVars == <<lookup, lookups>>
settingsVars == <<switchVars, botVars, brandVars, videoVars, sops>>

NotSaving == [posted |-> {}, good |-> {}, step |-> "idle"]

SettingsInit ==
  /\ truth \in [Switches -> BOOLEAN] /\ shown = truth /\ flips = {}
  /\ \E t \in SUBSET Tokens :
       /\ rows = [i \in 1..Cardinality(t) |-> [value |-> SetToSeq(t)[i], saved |-> TRUE]]
       /\ verified = t
  /\ saving = NotSaving /\ statuses = [t \in Tokens |-> "none"]
  /\ brand = [file |-> NoLogo, preview |-> NoLogo] /\ readers = {} /\ posts = {} /\ custom = NoLogo
  /\ lookup = [url |-> Empty, info |-> Empty, loading |-> FALSE] /\ lookups = {}
  /\ sops = 0

SettingsDoes == sops < MaxSettingsOps /\ sops' = sops + 1

-----------------------------------------------------------------------------
(* Switches *)

\* toggleWebDAV, toggleUploadAPI, toggleS3, toggleBackupEnabled and toggleUserDownload send
\* the opposite of what is shown, and show it when the server has agreed.
Flip(s) ==
  /\ SettingsDoes /\ flips' = flips \cup {[switch |-> s, to |-> ~shown[s], served |-> FALSE]}
  /\ UNCHANGED <<shown, truth, botVars, brandVars, videoVars>>
FlipServed(f) ==
  /\ ~f.served /\ flips' = (flips \ {f}) \cup {[f EXCEPT !.served = TRUE]}
  /\ truth' = [truth EXCEPT ![f.switch] = f.to]
  /\ UNCHANGED <<shown, botVars, brandVars, videoVars, sops>>
FlipAnswered(f) ==
  /\ f.served /\ flips' = flips \ {f}
  /\ shown' = [shown EXCEPT ![f.switch] = f.to]
  /\ UNCHANGED <<truth, botVars, brandVars, videoVars, sops>>
\* Refused, or the answer is lost.
FlipFails(f) ==
  /\ flips' = flips \ {f}
  /\ UNCHANGED <<shown, truth, botVars, brandVars, videoVars, sops>>

-----------------------------------------------------------------------------
(* Bot tokens *)

AddBotToken ==
  /\ SettingsDoes /\ Len(rows) < MaxRows
  /\ rows' = Append(rows, [value |-> Empty, saved |-> FALSE])
  /\ UNCHANGED <<switchVars, saving, statuses, verified, brandVars, videoVars>>
RemoveBotToken(i) ==
  /\ SettingsDoes /\ rows' = RemoveAt(rows, i)
  /\ UNCHANGED <<switchVars, saving, statuses, verified, brandVars, videoVars>>
\* A saved token cannot be edited; one that is being verified can.
EditBotToken(i, t) ==
  /\ SettingsDoes /\ ~rows[i].saved /\ t # rows[i].value
  /\ rows' = [rows EXCEPT ![i].value = t]
  /\ UNCHANGED <<switchVars, saving, statuses, verified, brandVars, videoVars>>

\* saveBotPool posts the tokens that are not empty.
SaveBotPool ==
  /\ SettingsDoes /\ saving.step = "idle"
  /\ saving' = [posted |-> {rows[i].value : i \in DOMAIN rows} \ {Empty}, good |-> {}, step |-> "sent"]
  /\ UNCHANGED <<switchVars, rows, statuses, verified, brandVars, videoVars>>
\* handlePostBotPool verifies them one by one and keeps the good ones.
BotPoolVerified(good) ==
  /\ saving.step = "sent" /\ good \subseteq saving.posted
  /\ saving' = [saving EXCEPT !.good = good, !.step = "verified"]
  /\ verified' = verified \cup good
  /\ UNCHANGED <<switchVars, rows, statuses, brandVars, videoVars, sops>>
\* The results are matched with the rows of the moment by their values.
BotPoolAnswered ==
  /\ saving.step = "verified" /\ saving' = NotSaving
  /\ statuses' = [t \in Tokens |-> IF t \in saving.good THEN "success"
                                   ELSE IF t \in saving.posted THEN "error" ELSE "none"]
  /\ rows' = [i \in DOMAIN rows |-> [rows[i] EXCEPT !.saved = @ \/ rows[i].value \in saving.good]]
  /\ UNCHANGED <<switchVars, verified, brandVars, videoVars, sops>>
BotPoolFails ==
  /\ saving.step # "idle" /\ saving' = NotSaving
  /\ UNCHANGED <<switchVars, rows, statuses, verified, brandVars, videoVars, sops>>

-----------------------------------------------------------------------------
(* The logo; the favicon has a copy of all this *)

\* onLogoFileSelected: the preview appears when the file was read.
LogoFileSelected(f) ==
  /\ SettingsDoes /\ f # brand.file
  /\ brand' = [brand EXCEPT !.file = f] /\ readers' = readers \cup {f}
  /\ UNCHANGED <<switchVars, botVars, posts, custom, videoVars>>
LogoRead(f) ==
  /\ f \in readers /\ readers' = readers \ {f}
  /\ brand' = [brand EXCEPT !.preview = f]
  /\ UNCHANGED <<switchVars, botVars, posts, custom, videoVars, sops>>

\* saveBranding, whose fields are not disabled meanwhile, and resetBrandingLogo.
Post(p) == posts' = posts \cup {[logo |-> p, served |-> FALSE, custom |-> NoLogo]}
SaveBranding ==
  /\ SettingsDoes /\ Post(brand.file)
  /\ \A p \in posts : p.logo = "reset"   \* isSaving
  /\ UNCHANGED <<switchVars, botVars, brand, readers, custom, videoVars>>
ResetBrandingLogo ==
  /\ SettingsDoes /\ Post("reset")
  /\ UNCHANGED <<switchVars, botVars, brand, readers, custom, videoVars>>
BrandingServed(p) ==
  /\ ~p.served
  /\ custom' = IF p.logo = "reset" THEN NoLogo ELSE IF p.logo = NoLogo THEN custom ELSE p.logo
  /\ posts' = (posts \ {p}) \cup {[p EXCEPT !.served = TRUE, !.custom = custom']}
  /\ UNCHANGED <<switchVars, botVars, brand, readers, videoVars, sops>>
\* The file is forgotten, also one that was chosen after the request.
BrandingAnswered(p) ==
  /\ p.served /\ posts' = posts \ {p}
  /\ brand' = [file |-> NoLogo, preview |-> IF p.logo = "reset" THEN NoLogo ELSE p.custom]
  /\ UNCHANGED <<switchVars, botVars, readers, custom, videoVars, sops>>
BrandingFails(p) ==
  /\ posts' = posts \ {p}
  /\ UNCHANGED <<switchVars, botVars, brand, readers, custom, videoVars, sops>>

-----------------------------------------------------------------------------
(* Videos *)

TypeUrl(u) ==
  /\ SettingsDoes /\ u # lookup.url /\ lookup' = [lookup EXCEPT !.url = u]
  /\ UNCHANGED <<switchVars, botVars, brandVars, lookups>>
\* The button that forgets what was found.
ClearVideo ==
  /\ SettingsDoes /\ lookup.info # Empty
  /\ lookup' = [lookup EXCEPT !.url = Empty, !.info = Empty]
  /\ UNCHANGED <<switchVars, botVars, brandVars, lookups>>
\* fetchYTDLPFormats: the button waits for an answer, the Enter key does not.
FetchYTDLPFormats ==
  /\ SettingsDoes /\ lookup.url # Empty /\ lookup.info = Empty
  /\ lookup' = [lookup EXCEPT !.info = Empty, !.loading = TRUE]
  /\ lookups' = lookups \cup {lookup.url}
  /\ UNCHANGED <<switchVars, botVars, brandVars>>
\* What was found is shown, whatever the address is by then.
FormatsAnswered(u, ok) ==
  /\ u \in lookups /\ lookups' = lookups \ {u}
  /\ lookup' = [lookup EXCEPT !.info = IF ok THEN u ELSE @, !.loading = FALSE]
  /\ UNCHANGED <<switchVars, botVars, brandVars, sops>>

-----------------------------------------------------------------------------
SwitchNext ==
  \/ \E s \in Switches : Flip(s)
  \/ \E f \in flips : FlipServed(f) \/ FlipAnswered(f) \/ FlipFails(f)
BotNext ==
  \/ AddBotToken \/ SaveBotPool \/ BotPoolAnswered \/ BotPoolFails
  \/ \E i \in DOMAIN rows : RemoveBotToken(i) \/ \E t \in Tokens \cup {Empty} : EditBotToken(i, t)
  \/ \E good \in SUBSET saving.posted : BotPoolVerified(good)
LogoNext ==
  \/ \E f \in Logos : LogoFileSelected(f) \/ LogoRead(f)
  \/ SaveBranding \/ ResetBrandingLogo
  \/ \E p \in posts : BrandingServed(p) \/ BrandingAnswered(p) \/ BrandingFails(p)
VideoNext ==
  \/ \E u \in Urls \cup {Empty} : TypeUrl(u)
  \/ ClearVideo \/ FetchYTDLPFormats
  \/ \E u \in lookups, ok \in BOOLEAN : FormatsAnswered(u, ok)

SettingsTypeOK ==
  /\ shown \in [Switches -> BOOLEAN] /\ truth \in [Switches -> BOOLEAN]
  /\ Len(rows) <= MaxRows /\ \A i \in DOMAIN rows : rows[i].value \in Tokens \cup {Empty}
  /\ brand.file \in Logos \cup {NoLogo} /\ {brand.preview, custom} \subseteq Logos \cup {NoLogo}
  /\ {lookup.url, lookup.info} \subseteq Urls \cup {Empty}

\* A row of the bot pool that can no longer be edited holds a token that the server has
\* verified: rows are added, edited and removed while saveBotPool waits for the results.
SavedIsVerified == \A i \in DOMAIN rows : rows[i].saved => rows[i].value \in verified
=============================================================================
