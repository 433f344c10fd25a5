---------------------------- MODULE AccountRecovery ----------------------------
(***************************************************************************)
(* Proving an address with an emailed code, and replacing a forgotten      *)
(* password with an emailed token: the panel and the forms, the actions    *)
(* behind them, and the calls to the sign-in service.                      *)
(*                                                                         *)
(* The service may not be configured, may not be reached, may break down   *)
(* with an answer nothing classifies, or may act and its answer be lost;   *)
(* mail is delivered late, in any order or never; and the person resends   *)
(* while the code typed is still being checked.                            *)
(***************************************************************************)
EXTENDS Naturals

CONSTANTS
    MaxMails   \* bound: codes, and tokens, ever issued

ASSUME RecoveryAssumption == MaxMails \in Nat \ {0}

VARIABLES
    purpose,    \* what the person came for; the two flows share nothing
    service,    \* configured, and whether it sends links
    codes,      \* issued so far, and the one that can be redeemed
    tokens,     \* the same of password-reset tokens
    linksSent,  \* verification links sent
    inbox,      \* what arrived: <<kind, number>>
    verified,
    passwords,  \* how often the password was replaced
    resending,  \* the panel's "resend", and what it last told
    submit,     \* the code being verified, and what was told
    forgot,     \* the reset link being asked for
    reset       \* the new password being saved

recoveryVars == <<purpose, service, codes, tokens, linksSent, inbox, verified, passwords,
                  resending, submit, forgot, reset>>

Mail == 1 .. MaxMails
None == 0
Untouched == [pc |-> "idle", told |-> "nothing"]

RecoveryInit ==
    /\ purpose \in {"verify", "reset"}
    /\ service \in [configured : BOOLEAN, links : BOOLEAN]
    /\ codes = [issued |-> 0, live |-> None] /\ tokens = [issued |-> 0, live |-> None]
    /\ linksSent = 0 /\ inbox = {}
    /\ verified = FALSE /\ passwords = 0
    /\ resending = Untouched /\ submit = Untouched /\ forgot = Untouched /\ reset = Untouched

serviceState == <<codes, tokens, linksSent, verified, passwords>>

Issue(mail) == [issued |-> mail.issued + 1, live |-> mail.issued + 1]

\* A code asked for replaces the last one; the service may refuse the rate.
SendsCode(answer) ==
    /\ UNCHANGED <<tokens, linksSent, verified, passwords>>
    /\ \/ /\ codes.issued < MaxMails
          /\ codes' = Issue(codes)
          /\ answer = "ok"
       \/ /\ UNCHANGED codes
          /\ answer = "rate_limited"

SendsLink(answer) ==
    /\ UNCHANGED <<codes, tokens, verified, passwords>>
    /\ \/ /\ service.links /\ linksSent < MaxMails
          /\ linksSent' = linksSent + 1
          /\ answer = "ok"
       \/ /\ UNCHANGED linksSent
          /\ answer = IF service.links THEN "rate_limited" ELSE "capability_not_enabled"

Verifies(n, answer) ==
    /\ UNCHANGED <<tokens, linksSent, passwords>>
    /\ IF n = codes.live
       THEN /\ codes' = [codes EXCEPT !.live = None]
            /\ verified' = TRUE
            /\ answer = "ok"
       ELSE /\ UNCHANGED <<codes, verified>>
            /\ answer = "invalid_token"

SendsToken(answer) ==
    /\ UNCHANGED <<codes, linksSent, verified, passwords>>
    /\ \/ /\ tokens.issued < MaxMails
          /\ tokens' = Issue(tokens)
          /\ answer = "ok"
       \/ /\ UNCHANGED tokens
          /\ answer = "rate_limited"

SavesPassword(n, answer) ==
    /\ UNCHANGED <<codes, linksSent, verified>>
    /\ IF n = tokens.live
       THEN /\ tokens' = [tokens EXCEPT !.live = None]
            /\ passwords' = passwords + 1
            /\ answer = "ok"
       ELSE /\ UNCHANGED <<tokens, passwords>>
            /\ answer = "invalid_token"

(***************************************************************************)
(* call: what is told when there is no service, it cannot be reached, or   *)
(* it answers nothing that ./errors has a rule for (an unclassified 500,   *)
(* an empty answer). The last is told as the operation's fallback code.    *)
(***************************************************************************)
Failures(fallbackCode) ==
    IF service.configured THEN {"auth_unavailable", fallbackCode} ELSE {"auth_not_configured"}

isAuthUnavailable(failure) == failure \in {"auth_unavailable", "auth_not_configured"}

\* The page reads the address from the session; a press asks for a code.
PressResend ==
    /\ purpose = "verify"
    /\ resending.pc = "idle"
    /\ resending' = [pc |-> "asking code", told |-> "nothing", since |-> codes.issued]
    /\ UNCHANGED <<service, serviceState, inbox, submit, forgot, reset>>

\* The action that prefers a link.
AskForLink ==
    /\ purpose = "verify"
    /\ resending.pc = "idle"
    /\ resending' = [pc |-> "asking", told |-> "nothing", since |-> codes.issued]
    /\ UNCHANGED <<service, serviceState, inbox, submit, forgot, reset>>

\* What the panel is left with: told of a code, of a link, or of a failure.
Told(answer, method) ==
    resending' = [pc |-> IF answer = "ok" THEN "cooling down" ELSE "idle",
               told |-> IF answer = "ok" THEN method ELSE answer, since |-> resending.since]

\* sendVerificationCodeAction, and the second half of the fallback.
SendCode ==
    /\ resending.pc = "asking code"
    /\ \/ \E answer \in {"ok", "rate_limited"} :
             /\ service.configured
             /\ SendsCode(answer)
             /\ Told(answer, "code")
       \/ \E failure \in Failures("unknown") :
             /\ (service.configured /\ SendsCode("ok")) \/ UNCHANGED serviceState
             /\ Told(failure, "code")
    /\ UNCHANGED <<service, inbox, submit, forgot, reset>>

\* Mutant of AfterLink: the code fallen back to is told before it is asked for.
AfterLinkEarly(answer) ==
    Told(IF answer = "capability_not_enabled" THEN "ok" ELSE answer,
         IF answer = "capability_not_enabled" THEN "code" ELSE "link")

\* A branch without links, or a 400 nothing classifies, falls back to a code;
\* any other failure is told.
AfterLink(answer) ==
    \/ /\ answer \in {"capability_not_enabled", "unknown"}
       /\ resending' = [resending EXCEPT !.pc = "asking code"]
    \/ /\ answer # "capability_not_enabled"
       /\ Told(answer, "link")

ResendVerification ==
    /\ resending.pc = "asking"
    /\ \/ \E answer \in {"ok", "rate_limited", "capability_not_enabled"} :
             /\ service.configured
             /\ SendsLink(answer)
             /\ AfterLink(answer)
       \/ \E failure \in Failures("unknown") :
             /\ (service.configured /\ SendsLink("ok")) \/ UNCHANGED serviceState
             /\ AfterLink(failure)
    /\ UNCHANGED <<service, inbox, submit, forgot, reset>>

CooldownEnds ==
    /\ resending.pc = "cooling down"
    /\ resending' = [resending EXCEPT !.pc = "idle"]
    /\ UNCHANGED <<service, serviceState, inbox, submit, forgot, reset>>

\* The person types a code that arrived; the resend button stays enabled.
SubmitCode ==
    /\ submit.pc = "idle"
    /\ \E mail \in inbox :
         /\ mail[1] = "code"
         /\ submit' = [pc |-> "asking", told |-> "nothing", n |-> mail[2]]
    /\ UNCHANGED <<service, serviceState, inbox, resending, forgot, reset>>

\* verifyEmailWithCodeAction: what the service answered, or that it did not.
VerifyCode ==
    /\ submit.pc = "asking"
    /\ \/ \E answer \in {"ok", "invalid_token"} :
             /\ service.configured
             /\ Verifies(submit.n, answer)
             /\ submit' = [pc |-> IF answer = "ok" THEN "done" ELSE "idle", told |-> answer,
                           n |-> submit.n]
       \/ \E failure \in Failures("invalid_token") :
             /\ (service.configured /\ Verifies(submit.n, "ok")) \/ UNCHANGED serviceState
             /\ submit' = [pc |-> "idle", told |-> failure, n |-> submit.n]
    /\ UNCHANGED <<service, inbox, resending, forgot, reset>>

AskForReset ==
    /\ purpose = "reset"
    /\ forgot.pc = "idle"
    /\ forgot' = [pc |-> "asking", told |-> "nothing"]
    /\ UNCHANGED <<service, serviceState, inbox, resending, submit, reset>>

\* forgotPasswordAction tells an outage it recognises; all else looks sent.
ForgotPassword ==
    /\ forgot.pc = "asking"
    /\ \E answer \in {"ok", "rate_limited"} \cup Failures("unknown") :
         /\ \/ service.configured /\ SendsToken(answer)
            \/ answer \in Failures("unknown") /\ UNCHANGED serviceState
            \/ answer \in Failures("unknown") /\ service.configured /\ SendsToken("ok")
         /\ forgot' = IF isAuthUnavailable(answer)
                      THEN [pc |-> "idle", told |-> answer]
                      ELSE [pc |-> "done", told |-> "sent"]
    /\ UNCHANGED <<service, inbox, resending, submit, reset>>

\* The link's page hands its token to the form, on any visit to it.
OpenResetLink ==
    /\ reset.pc \in {"idle", "done"}
    /\ \E mail \in inbox :
         /\ mail[1] = "token"
         /\ reset' = [pc |-> "asking", told |-> "nothing", n |-> mail[2], saved |-> passwords]
    /\ UNCHANGED <<service, serviceState, inbox, resending, submit, forgot>>

\* resetPasswordAction.
ResetPassword ==
    /\ reset.pc = "asking"
    /\ \/ \E answer \in {"ok", "invalid_token"} :
             /\ service.configured
             /\ SavesPassword(reset.n, answer)
             /\ reset' = [reset EXCEPT !.pc = "done", !.told = answer]
       \/ \E failure \in Failures("invalid_token") :
             /\ (service.configured /\ SavesPassword(reset.n, "ok")) \/ UNCHANGED serviceState
             /\ reset' = [reset EXCEPT !.pc = "done", !.told = failure]
    /\ UNCHANGED <<service, inbox, resending, submit, forgot>>

Deliver ==
    /\ \E kind \in {"code", "token"}, n \in Mail :
         /\ n <= (IF kind = "code" THEN codes.issued ELSE tokens.issued)
         /\ inbox' = inbox \cup {<<kind, n>>}
    /\ inbox' # inbox
    /\ UNCHANGED <<service, serviceState, resending, submit, forgot, reset>>

\* What is emailed lives a quarter of an hour.
MailExpires ==
    /\ \/ codes.live # None /\ codes' = [codes EXCEPT !.live = None] /\ UNCHANGED tokens
       \/ tokens.live # None /\ tokens' = [tokens EXCEPT !.live = None] /\ UNCHANGED codes
    /\ UNCHANGED <<service, linksSent, inbox, verified, passwords,
                   resending, submit, forgot, reset>>

RecoverySteps ==
    \/ PressResend \/ AskForLink \/ SendCode \/ ResendVerification \/ CooldownEnds
    \/ SubmitCode \/ VerifyCode \/ AskForReset \/ ForgotPassword \/ OpenResetLink \/ ResetPassword
    \/ Deliver \/ MailExpires

RecoveryNext == RecoverySteps /\ UNCHANGED purpose

RecoverySpec == RecoveryInit /\ [][RecoveryNext]_recoveryVars

(***************************************************************************)
(* A person told that a code was sent has one issued since the button was  *)
(* pressed: nobody waits for mail nobody sent (verify-email-flow.ts).      *)
(***************************************************************************)
SaidSentWasSent == resending.told = "code" => codes.issued > resending.since

(***************************************************************************)
(* A person told that the address is verified, or the password replaced,   *)
(* has it so, whatever answers were lost (actions.ts:337-370, 469-520).    *)
(***************************************************************************)
SaidDoneWasDone ==
    /\ submit.told = "ok" => verified
    /\ reset.told = "ok" => passwords > reset.saved

RecoverySound == SaidSentWasSent /\ SaidDoneWasDone
===============================================================================
