---------------------------- MODULE ShortenUrlBox ----------------------------
(***************************************************************************)
(* The form of frontend/src/app/ShortenUrlBox.tsx: its React state, the     *)
(* events of the user and of the captcha widget, and the submissions that   *)
(* are out at the server, whose answers come back in any order.             *)
(*                                                                         *)
(* Every event is handled, and the form rendered again, before the next.    *)
(* Which events submit the form is the browser's: the button, if it is      *)
(* rendered and enabled; Enter in the text field, through the first submit  *)
(* button.  That is the Copy button, which prevents the submission, once a  *)
(* result is shown; without any submit button Enter submits, if the field,  *)
(* which is required, is not empty.                                         *)
(***************************************************************************)
EXTENDS Naturals, Sequences, FiniteSets

CONSTANTS
  ValidUrls,       \* texts that validUrl accepts
  OtherTexts,      \* non-empty texts that it does not
  Empty,           \* the empty text
  MaxSubmissions,
  MaxSolved,       \* bound on the captchas the user solves
  MaxTimers        \* bound on the pending timers of copyToClipboard

ASSUME FormAssumption ==
  /\ Empty \notin ValidUrls \cup OtherTexts
  /\ ValidUrls \cap OtherTexts = {}
  /\ MaxSubmissions \in Nat /\ MaxSolved \in Nat /\ MaxTimers \in Nat

NoToken == 0      \* '' of recaptchaUserResponse; tokens are 1, 2, ...
NoResult == 0     \* '' of shortenedUrlResult; else the submission it is from

VARIABLES
  urlToShorten, recaptchaUserResponse, shortenedUrlResult,
  isLoading, errored, warned, didCopy,
  solved,          \* captchas solved so far: the widget never repeats a token
  timers,          \* pending timers of copyToClipboard
  sent             \* the submissions, with their answers when they have come

inputs == <<urlToShorten, recaptchaUserResponse, solved>>
copying == <<didCopy, timers>>
shown == <<shortenedUrlResult, errored, warned>>
vars == <<inputs, shown, isLoading, copying, sent>>

Init ==
  /\ urlToShorten = Empty
  /\ recaptchaUserResponse = NoToken
  /\ shortenedUrlResult = NoResult
  /\ isLoading = FALSE
  /\ errored = FALSE
  /\ warned = FALSE
  /\ didCopy = FALSE
  /\ solved = 0
  /\ timers = 0
  /\ sent = << >>

Out == {k \in 1..Len(sent) : sent[k].answer = "none"}

handleChangeUrlToShorten(text) ==
  /\ urlToShorten' = text
  /\ UNCHANGED <<recaptchaUserResponse, solved, shown, isLoading, copying, sent>>

(* The widget reports a token when a captcha is solved, and null when that  *)
(* has expired.                                                             *)
handleRecaptchaV2ChangeSolved ==
  /\ solved < MaxSolved
  /\ recaptchaUserResponse = NoToken
  /\ solved' = solved + 1
  /\ recaptchaUserResponse' = solved'
  /\ UNCHANGED <<urlToShorten, shown, isLoading, copying, sent>>

handleRecaptchaV2ChangeExpired ==
  /\ recaptchaUserResponse # NoToken
  /\ recaptchaUserResponse' = NoToken
  /\ UNCHANGED <<urlToShorten, solved, shown, isLoading, copying, sent>>

(* The test of the token is missing.                                        *)
ButtonEnabledWithoutToken == ~isLoading /\ urlToShorten \in ValidUrls

ButtonEnabled ==
  ~isLoading /\ recaptchaUserResponse # NoToken /\ urlToShorten \in ValidUrls

EnterSubmits ==
  isLoading /\ shortenedUrlResult = NoResult /\ urlToShorten # Empty

(* What makeRequest sends: the state as handleSubmit found it.              *)
Submission ==
  [url |-> urlToShorten, token |-> recaptchaUserResponse, answer |-> "none",
   overlaps |-> Out # {}]

(* The token is kept.                                                       *)
handleSubmitKeepsToken ==
  /\ Len(sent) < MaxSubmissions
  /\ ButtonEnabled \/ EnterSubmits
  /\ isLoading' = TRUE
  /\ sent' = Append(sent, Submission)
  /\ UNCHANGED <<inputs, shown, copying>>

(* handleSubmit up to the await of makeRequest.  recaptchaRef.current is    *)
(* set when the form is first rendered: the other branch is dead.           *)
handleSubmit ==
  /\ Len(sent) < MaxSubmissions
  /\ ButtonEnabled \/ EnterSubmits
  /\ isLoading' = TRUE
  /\ recaptchaUserResponse' = NoToken
  /\ sent' = Append(sent, Submission)
  /\ UNCHANGED <<urlToShorten, solved, shown, copying>>

Answers == {"ok", "too many", "error"}   \* 200, 429, another or no response

Receive(k, answer) ==
  /\ k \in Out
  /\ sent' = [sent EXCEPT ![k].answer = answer]

(* A result that is shown is never replaced.                                *)
AnsweredKeepsResult(k, answer) ==
  /\ Receive(k, answer)
  /\ shortenedUrlResult' = IF answer = "ok" /\ shortenedUrlResult = NoResult
                           THEN k ELSE shortenedUrlResult
  /\ warned' = (warned \/ answer = "too many")
  /\ errored' = (errored \/ answer = "error")
  /\ isLoading' = FALSE
  /\ UNCHANGED <<inputs, copying>>

(* setIsLoading(false) is within the try.                                   *)
AnsweredSpinsOnFailure(k, answer) ==
  /\ Receive(k, answer)
  /\ shortenedUrlResult' = IF answer = "ok" THEN k ELSE shortenedUrlResult
  /\ warned' = (warned \/ answer = "too many")
  /\ errored' = (errored \/ answer = "error")
  /\ isLoading' = (isLoading /\ answer # "ok")
  /\ UNCHANGED <<inputs, copying>>

(* handleSubmit from the await on; a message once shown stays.              *)
Answered(k, answer) ==
  /\ Receive(k, answer)
  /\ shortenedUrlResult' = IF answer = "ok" THEN k ELSE shortenedUrlResult
  /\ warned' = (warned \/ answer = "too many")
  /\ errored' = (errored \/ answer = "error")
  /\ isLoading' = FALSE
  /\ UNCHANGED <<inputs, copying>>

(* A click on the Copy button, or Enter when that is the first button.      *)
copyToClipboard ==
  /\ shortenedUrlResult # NoResult
  /\ timers < MaxTimers
  /\ didCopy' = TRUE
  /\ timers' = timers + 1
  /\ UNCHANGED <<inputs, shown, isLoading, sent>>

(* The function given to setTimeout.                                        *)
CopyTimeout ==
  /\ timers > 0
  /\ timers' = timers - 1
  /\ didCopy' = FALSE
  /\ UNCHANGED <<inputs, shown, isLoading, sent>>

Next ==
  \/ \E text \in ValidUrls \cup OtherTexts \cup {Empty} : handleChangeUrlToShorten(text)
  \/ handleRecaptchaV2ChangeSolved
  \/ handleRecaptchaV2ChangeExpired
  \/ handleSubmit
  \/ \E k \in Out, answer \in Answers : Answered(k, answer)
  \/ copyToClipboard
  \/ CopyTimeout

(* A fetch ends, if only with an error, and timers run out.  Nothing is     *)
(* assumed of the user.                                                     *)
Fairness ==
  /\ \A k \in 1..MaxSubmissions : WF_vars(\E answer \in Answers : Answered(k, answer))
  /\ WF_vars(CopyTimeout)

Spec == Init /\ [][Next]_vars
FairSpec == Spec /\ Fairness

-----------------------------------------------------------------------------
TypeOK ==
  /\ urlToShorten \in ValidUrls \cup OtherTexts \cup {Empty}
  /\ solved \in 0..MaxSolved
  /\ recaptchaUserResponse \in 0..solved
  /\ Len(sent) \in 0..MaxSubmissions
  /\ shortenedUrlResult \in 0..Len(sent)
  /\ {isLoading, errored, warned, didCopy} \subseteq BOOLEAN
  /\ timers \in 0..MaxTimers
  /\ \A k \in 1..Len(sent) :
       sent[k] \in [url : ValidUrls \cup OtherTexts, token : 0..solved,
                    answer : Answers \cup {"none"}, overlaps : BOOLEAN]

(* The captcha service accepts a token once: handleSubmit never sends one   *)
(* twice, however fast and by whatever way the form is submitted again.     *)
TokenSentOnce ==
  \A j, k \in 1..Len(sent) :
    j # k /\ sent[j].token = sent[k].token => sent[j].token = NoToken

(* A submission without a token, or of a text that is no URL, gets past the *)
(* form only while another one is out: the spinner has then taken the place *)
(* of the button, and of its tests.                                         *)
UntestedOnlyWhileOut ==
  \A k \in 1..Len(sent) :
    sent[k].token = NoToken \/ sent[k].url \notin ValidUrls => sent[k].overlaps

Successes == {k \in 1..Len(sent) : sent[k].answer = "ok"}

(* Submissions that do not overlap show their results in order: the link on *)
(* the form is that of the last URL that was shortened.                     *)
LatestResultShown ==
  (\A k \in 1..Len(sent) : ~sent[k].overlaps) =>
    /\ Successes = {} => shortenedUrlResult = NoResult
    /\ Successes # {} => /\ shortenedUrlResult \in Successes
                         /\ \A k \in Successes : k <= shortenedUrlResult

(* Every answer, an error or none at all included, brings the button back.  *)
SpinnerStops == isLoading ~> ~isLoading
=============================================================================
