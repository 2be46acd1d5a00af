------------------------------ MODULE PortalScreens ------------------------------
(***************************************************************************)
(* The clients' portal as one client meets it: the login page in its two   *)
(* steps, the guard of the layout and of the pages, and the two endpoints  *)
(* that make and redeem a link (portal.py).  No transaction is opened: the *)
(* statements of an endpoint take effect one by one, and a document that   *)
(* is loaded anew hears no answer of the one before it.                    *)
(***************************************************************************)
EXTENDS Browser

CONSTANTS
    Understood,   \* whether the server reads the field that the page names: not as the
                  \* code stands, `contact` being neither `phone` nor `email`
    MaxLinks,           \* bound on the links
    MaxPortalCalls      \* bound on the login's calls under way

ASSUME LinksAssumption == MaxLinks \in Nat

VARIABLES
    links,        \* the links in their order: "live", "expired" or "used"
    opened,       \* opened[i]: the sessions link i has opened
    access,       \* the client's access
    portalCalls,  \* the calls of the login page: kind, link, stage, and whether its page waits
    loginStep,    \* of the login page: "request" or "verify"
    section,      \* "login", a page that is "strict" about the token, or one that is "lax"
    token,        \* sessionStorage: the link that opened the session, None without one
    shown         \* what the page has: None while it loads, its "data" or an "error"

portalVars == <<links, opened, access, portalCalls, loginStep, section, token, shown>>

Sections == {"strict", "lax"}

PortalInit ==
    /\ links = <<>> /\ opened = [i \in 1..MaxLinks |-> 0] /\ access = TRUE
    /\ portalCalls = <<>> /\ loginStep = "request" /\ section = "login" /\ token = None /\ shown = None

Busy == \E i \in DOMAIN portalCalls : portalCalls[i].waits
-------------------------------------------------------------------------------
(* The login page.  Its buttons are off while it waits.                    *)
Submit(kind, link) ==
    /\ section = "login" /\ ~Busy /\ Len(portalCalls) < MaxPortalCalls
    /\ loginStep = kind
    /\ portalCalls' = Append(portalCalls,
           [kind |-> kind, link |-> link, stage |-> "sent", waits |-> TRUE])
    /\ UNCHANGED <<links, opened, access, loginStep, section, token, shown>>

(* A link reaches the client when it is made; the client types any of them.*)
RequestLink == Submit("request", None)

Verify == \E link \in DOMAIN links : Submit("verify", link)

(* "Send the code again" goes back to the first step.                      *)
SendAgain ==
    /\ section = "login" /\ loginStep = "verify" /\ loginStep' = "request"
    /\ UNCHANGED <<links, opened, access, portalCalls, section, token, shown>>

Hear(i) ==
    LET c == portalCalls[i]
    IN  /\ c.stage \in {"ok", "failed"}
        /\ portalCalls' = RemoveAt(portalCalls, i)
        /\ loginStep' = IF c.waits /\ c.stage = "ok" THEN "verify" ELSE loginStep
        /\ token' = IF c.waits /\ c.stage = "ok" /\ c.kind = "verify" THEN c.link ELSE token
        /\ section' = IF c.waits /\ c.stage = "ok" /\ c.kind = "verify" THEN "strict" ELSE section
        /\ shown' = IF section' = section THEN shown ELSE None
        /\ UNCHANGED <<links, opened, access>>
-------------------------------------------------------------------------------
(* The endpoints.                                                          *)
Stage(i, stage) == portalCalls' = [portalCalls EXCEPT ![i].stage = stage]

(* Mutant: the links before the new one stay alive.                        *)
ExpireNothing(i) ==
    /\ portalCalls[i].kind = "request" /\ portalCalls[i].stage = "sent"
    /\ Stage(i, IF ~Understood THEN "failed" ELSE IF access THEN "insert" ELSE "ok")
    /\ UNCHANGED <<links, opened, access, loginStep, section, token, shown>>

(* request-link: the unused links expire, then another one is made.  It    *)
(* answers the same when the access is not active, and makes none.         *)
ExpireLinks(i) ==
    /\ portalCalls[i].kind = "request" /\ portalCalls[i].stage = "sent"
    /\ \/ ~Understood /\ Stage(i, "failed") /\ UNCHANGED links
       \/ Understood /\ ~access /\ Stage(i, "ok") /\ UNCHANGED links
       \/ /\ Understood /\ access /\ Stage(i, "insert")
          /\ links' = [l \in DOMAIN links |-> IF links[l] = "live" THEN "expired" ELSE links[l]]
    /\ UNCHANGED <<opened, access, loginStep, section, token, shown>>

MakeLink(i) ==
    /\ portalCalls[i].kind = "request" /\ portalCalls[i].stage = "insert" /\ Len(links) < MaxLinks
    /\ links' = Append(links, "live")
    /\ Stage(i, "ok")
    /\ UNCHANGED <<opened, access, loginStep, section, token, shown>>

(* verify: the link is read, then marked as used.                          *)
CheckLink(i) ==
    /\ portalCalls[i].kind = "verify" /\ portalCalls[i].stage = "sent"
    /\ Stage(i, IF links[portalCalls[i].link] = "live" /\ access THEN "mark" ELSE "failed")
    /\ UNCHANGED <<links, opened, access, loginStep, section, token, shown>>

UseLink(i) ==
    /\ portalCalls[i].kind = "verify" /\ portalCalls[i].stage = "mark"
    /\ links' = [links EXCEPT ![portalCalls[i].link] = "used"]
    /\ opened' = [opened EXCEPT ![portalCalls[i].link] = @ + 1]
    /\ Stage(i, "ok")
    /\ UNCHANGED <<access, loginStep, section, token, shown>>

(* The call ends between two statements, or its answer is lost.            *)
Fail(i) ==
    /\ Stage(i, "failed") /\ portalCalls' # portalCalls
    /\ UNCHANGED <<links, opened, access, loginStep, section, token, shown>>

Day(i) ==       \* 24 hours, or 7 days for the access: what is live runs out
    /\ links[i] = "live"
    /\ links' = [links EXCEPT ![i] = "expired"]
    /\ UNCHANGED <<opened, access, portalCalls, loginStep, section, token, shown>>

Deactivate ==
    /\ access /\ access' = FALSE
    /\ UNCHANGED <<links, opened, portalCalls, loginStep, section, token, shown>>
-------------------------------------------------------------------------------
(* The pages.  A document that is loaded passes the layout's effect, which *)
(* wants a token; a page that is reached by a link passes its own only,    *)
(* which the strict ones have.                                             *)
Arrive(p) ==
    /\ section' = p /\ shown' = None
    /\ loginStep' = IF p = "login" THEN "request" ELSE loginStep

LoadDocument(p) ==
    /\ Arrive(IF token = None THEN "login" ELSE p)
    /\ portalCalls' = [i \in DOMAIN portalCalls |-> [portalCalls[i] EXCEPT !.waits = FALSE]]
    /\ UNCHANGED <<links, opened, access, token>>

FollowLink(p) ==
    /\ section \in Sections
    /\ Arrive(IF token = None /\ p = "strict" THEN "login" ELSE p)
    /\ UNCHANGED <<links, opened, access, portalCalls, token>>

(* Every page shows a refused session as it shows any other error: the     *)
(* texts that would send it to the login are not those of the server.      *)
ShowPage ==
    /\ section \in Sections /\ shown = None
    /\ shown' \in IF token # None /\ access THEN {"data", "error"} ELSE {"error"}
    /\ UNCHANGED <<links, opened, access, portalCalls, loginStep, section, token>>

Logout ==
    /\ section \in Sections
    /\ token' = None /\ Arrive("login")
    /\ UNCHANGED <<links, opened, access, portalCalls>>

PortalNext ==
    \/ RequestLink \/ Verify \/ SendAgain \/ ShowPage \/ Logout \/ Deactivate
    \/ \E i \in DOMAIN portalCalls :
           Hear(i) \/ ExpireLinks(i) \/ MakeLink(i) \/ CheckLink(i) \/ UseLink(i) \/ Fail(i)
    \/ \E i \in DOMAIN links : Day(i)
    \/ \E p \in Sections : LoadDocument(p) \/ FollowLink(p)

PortalSpec == PortalInit /\ [][PortalNext]_portalVars
-------------------------------------------------------------------------------
PortalTypeOK ==
    /\ links \in Seq({"live", "expired", "used"}) /\ Len(links) <= MaxLinks
    /\ opened \in [1..MaxLinks -> Nat] /\ access \in BOOLEAN
    /\ \A i \in DOMAIN portalCalls :
           /\ portalCalls[i].stage \in {"sent", "insert", "mark", "ok", "failed"}
           /\ portalCalls[i].waits \in BOOLEAN
    /\ loginStep \in {"request", "verify"} /\ section \in Sections \cup {"login"}
    /\ token \in (1..MaxLinks) \cup {None} /\ shown \in {None, "data", "error"}

(* A link opens one session (portal.py:157 refuses a used one), although   *)
(* it is read before it is marked, a call's answer may be lost and the     *)
(* page be loaded anew meanwhile: the way back to the second step asks for *)
(* another link, which ends this one.                                      *)
OneSessionPerLink == \A i \in DOMAIN opened : opened[i] <= 1

(* "Generate a magic link and send via WhatsApp (phone) or email"          *)
(* (portal.py:97), for the active client who asks on the login page: only  *)
(* what is lost on the way keeps the page in its first step.               *)
LinkIsSent ==
    [][\A i \in DOMAIN portalCalls :
           portalCalls[i].kind = "request" /\ access /\ ExpireLinks(i)
               => portalCalls'[i].stage # "failed"]_portalVars
===============================================================================
