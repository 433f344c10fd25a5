------------------------------ MODULE CookieConsent ------------------------------
(***************************************************************************)
(* The visitor's answer about analytics cookies, in one browser.           *)
(*                                                                         *)
(* The answer is written twice, to localStorage, which may refuse it, and  *)
(* to a cookie that is read when localStorage says nothing.  The pages     *)
(* that are open in other tabs hear of it by a storage event, if there is  *)
(* a storage, and later than it was given; each page disables its own      *)
(* Google Analytics when it reads an answer that differs from the one it   *)
(* had.  The visitor clears the storage or the cookies behind its back.    *)
(***************************************************************************)
EXTENDS Naturals

CONSTANTS
    Pages,         \* tabs of the browser
    Storages,      \* what localStorage is like: a subset of StorageKinds
    MaxChoices     \* bound: answers

StorageKinds == {"works", "full", "blocked"}

ASSUME ConsentAssumption == Storages \subseteq StorageKinds /\ MaxChoices \in Nat

ConsentChoice == {"essential", "all"}
ConsentState  == ConsentChoice \cup {"unset"}
Removed       == ""

VARIABLES
    storage,       \* what localStorage is like now
    stored,        \* localStorage["malihub_cookie_consent"]
    mirror,        \* the cookie mh_consent
    pages,         \* what each tab shows, and what Google's script is in it
    events,        \* tabs a storage event is on its way to
    analytics,     \* cookies of Google Analytics are there
    choices,       \* answers so far
    latest,        \* history: the last answer, until it is cleared
    kept,          \* history: localStorage did not refuse it
    unheard        \* history: tabs that have not read the answer since

consentVars == <<storage, stored, mirror, pages, events, analytics, choices,
                 latest, kept, unheard>>

\* ga-disable is barred; loaded once the script element has been there.
ConsentPage == [view : ConsentState \cup {"closed"}, loaded : BOOLEAN, barred : BOOLEAN]

NoPage == [view |-> "closed", loaded |-> FALSE, barred |-> FALSE]

OpenPages == {p \in Pages : pages[p].view # "closed"}

\* Google Analytics runs in the page.
Tracks(p) == pages[p].loaded /\ ~pages[p].barred

ConsentInit ==
    /\ storage \in Storages
    /\ stored = Removed
    /\ mirror = Removed
    /\ pages = [p \in Pages |-> NoPage]
    /\ events = {}
    /\ analytics = FALSE
    /\ choices = 0
    /\ latest = "unset"
    /\ kept = TRUE
    /\ unheard = {}

-------------------------------------------------------------------------------
\* Nothing stored, or something else, is no answer.
parse(value) == IF value \in ConsentChoice THEN value ELSE "unset"

\* What localStorage says, where it can be read, or else the cookie.
readConsent(item, cookie) ==
    IF storage # "blocked" /\ parse(item) # "unset" THEN parse(item) ELSE parse(cookie)

Consent == readConsent(stored, mirror)

\* Mutant of ConsentGatedAnalytics: the script element goes, the script goes on.
ConsentGatedAnalyticsUnbarred(p, consent) ==
    IF pages[p].view = consent THEN pages[p]
    ELSE [view |-> consent, loaded |-> pages[p].loaded \/ consent = "all", barred |-> FALSE]

\* The effect of a page runs when what it reads is not what it shows.
ConsentGatedAnalytics(p, consent) ==
    IF pages[p].view = consent THEN pages[p]
    ELSE [view |-> consent, loaded |-> pages[p].loaded \/ consent = "all",
          barred |-> consent # "all"]

clearAnalyticsCookies(p, consent) ==
    analytics /\ (pages[p].view = consent \/ consent = "all")

\* A page reads the answer when it is loaded and whenever it is rendered.
Render(p) ==
    /\ pages' = [pages EXCEPT ![p] = ConsentGatedAnalytics(p, Consent)]
    /\ analytics' = clearAnalyticsCookies(p, Consent)
    /\ events' = events \ {p}
    /\ unheard' = unheard \ {p}
    /\ UNCHANGED <<storage, stored, mirror, choices, latest, kept>>

OpenPage(p)  == p \notin OpenPages /\ Render(p)
useConsent(p) == p \in OpenPages /\ Render(p)

\* Mutant of HearStorage: the page listens for answers of its own only.
HearStorageDeaf(p) ==
    /\ p \in events
    /\ events' = events \ {p}
    /\ UNCHANGED <<storage, stored, mirror, pages, analytics, choices, latest, kept, unheard>>

HearStorage(p) == p \in events /\ Render(p)

ClosePage(p) ==
    /\ p \in OpenPages
    /\ pages' = [pages EXCEPT ![p] = NoPage]
    /\ events' = events \ {p}
    /\ unheard' = unheard \ {p}
    /\ UNCHANGED <<storage, stored, mirror, analytics, choices, latest, kept>>

-------------------------------------------------------------------------------
\* The storage, which a full disk or a private window refuses without a word, the
\* cookie, and the event the page hears at once; the browser tells the other tabs
\* when what is stored has changed.
writeConsent(p, choice) ==
    LET saved == IF storage = "works" THEN choice ELSE stored
        read  == readConsent(saved, choice)
    IN  /\ choices < MaxChoices
        /\ stored' = saved
        /\ mirror' = choice
        /\ pages' = [pages EXCEPT ![p] = ConsentGatedAnalytics(p, read)]
        /\ analytics' = clearAnalyticsCookies(p, read)
        /\ events' = (IF saved = stored THEN events ELSE OpenPages) \ {p}
        /\ choices' = choices + 1
        /\ latest' = choice
        /\ kept' = (storage # "full")
        /\ unheard' = OpenPages \ {p}
        /\ UNCHANGED storage

\* The banner asks until it is answered; the dialog opens from every footer.
CookieBanner(p, choice) ==
    /\ pages[p].view = "unset"
    /\ writeConsent(p, choice)

CookiePreferencesDialog(p, choice) ==
    /\ p \in OpenPages
    /\ writeConsent(p, choice)

-------------------------------------------------------------------------------
\* The script of Google in a page that is measured.
WriteAnalyticsCookies(p) ==
    /\ Tracks(p)
    /\ analytics' = TRUE
    /\ UNCHANGED <<storage, stored, mirror, pages, events, choices, latest, kept, unheard>>

\* What is cleared on the browser's own settings page: no tab hears of it. An answer
\* of which nothing is left was not given.
Cleared(left) ==
    /\ latest' = IF left = Removed THEN "unset" ELSE latest
    /\ unheard' = IF left = Removed THEN OpenPages ELSE unheard
    /\ UNCHANGED <<storage, pages, events, choices, kept>>

ClearStorage ==
    /\ stored # Removed
    /\ stored' = Removed
    /\ Cleared(mirror)
    /\ UNCHANGED <<mirror, analytics>>

ClearCookies ==
    /\ mirror # Removed
    /\ mirror' = Removed
    /\ analytics' = FALSE
    /\ Cleared(stored)
    /\ UNCHANGED stored

\* The storage fills up, or has room again.
StorageTurns(kind) ==
    /\ storage # "blocked" /\ kind \in Storages \ {storage, "blocked"}
    /\ storage' = kind
    /\ UNCHANGED <<stored, mirror, pages, events, analytics, choices, latest, kept, unheard>>

ConsentNext ==
    \/ \E p \in Pages :
        \/ OpenPage(p) \/ useConsent(p) \/ HearStorage(p) \/ ClosePage(p)
        \/ WriteAnalyticsCookies(p)
        \/ \E choice \in ConsentChoice : CookieBanner(p, choice) \/ CookiePreferencesDialog(p, choice)
    \/ ClearStorage \/ ClearCookies
    \/ \E kind \in Storages : StorageTurns(kind)

\* A browser delivers its events.
ConsentFairness == \A p \in Pages : WF_consentVars(HearStorage(p))

ConsentSpec == ConsentInit /\ [][ConsentNext]_consentVars

-------------------------------------------------------------------------------
\* Every variable has its type.
ConsentTypeOK ==
    /\ storage \in Storages
    /\ stored \in ConsentChoice \cup {Removed} /\ mirror \in ConsentChoice \cup {Removed}
    /\ pages \in [Pages -> ConsentPage]
    /\ events \subseteq Pages /\ unheard \subseteq Pages
    /\ analytics \in BOOLEAN /\ kept \in BOOLEAN
    /\ choices \in 0 .. MaxChoices
    /\ latest \in ConsentState

\* An answer that storage took is the one that is read, until both copies are
\* cleared: cookie-consent.ts:2 "mirrored to a first-party cookie so the choice
\* survives storage clearing".
ChoiceSurvives == kept => Consent = latest

\* Google Analytics runs only in tabs that have not read the last answer if that was
\* not "all", and where there is a storage each of them is about to be told.
ConsentHonoured ==
    kept /\ latest # "all" =>
        \A p \in Pages : Tracks(p) =>
            /\ p \in unheard
            /\ latest = "essential" /\ storage # "blocked" => p \in events

\* A withdrawal that storage took reaches the other tabs.
WithdrawalReachesPages ==
    (latest = "essential" /\ kept /\ storage # "blocked")
        ~> (latest # "essential" \/ ~kept \/ \A p \in Pages : ~Tracks(p))
===============================================================================
