------------------------- MODULE ShortenUrlBoxProofs -------------------------
(***************************************************************************)
(* Proofs about ShortenUrlBox.tla for any texts and any bounds.             *)
(***************************************************************************)
EXTENDS ShortenUrlBox, SequenceTheorems, TLAPS

Texts == ValidUrls \cup OtherTexts
Submissions ==
  [url : Texts, token : Nat, answer : Answers \cup {"none"}, overlaps : BOOLEAN]

(* A token that was sent is not on the form any more.                       *)
TokenGone ==
  \A k \in 1..Len(sent) :
    sent[k].token # NoToken => sent[k].token # recaptchaUserResponse

(* The spinner is shown only while a submission is out.                     *)
SpinnerMeansOut == isLoading = TRUE => Out # {}

Sequential == \A k \in 1..Len(sent) : sent[k].overlaps = FALSE

(* As long as no two submissions overlapped, only the last can be out.      *)
LastIsOut == Sequential => \A k \in Out : k = Len(sent)

FormInv ==
  /\ sent \in Seq(Submissions)
  /\ TypeOK
  /\ TokenGone
  /\ TokenSentOnce
  /\ SpinnerMeansOut
  /\ UntestedOnlyWhileOut
  /\ LastIsOut
  /\ LatestResultShown

-----------------------------------------------------------------------------
LEMMA UpTo ==
  ASSUME NEW n \in Nat, NEW k \in 1..n
  PROVE  k \in 0..n /\ k <= n
OBVIOUS

LEMMA InitInv == Init => FormInv
<1> SUFFICES ASSUME Init PROVE FormInv
  OBVIOUS
<1>1. sent \in Seq(Submissions) /\ Len(sent) = 0
  BY EmptySeq DEF Init
<1>2. 1..Len(sent) = {}
  BY <1>1
<1>3. TypeOK
  <2>1. solved \in 0..MaxSolved /\ recaptchaUserResponse \in 0..solved
    BY FormAssumption DEF Init, NoToken
  <2>2. Len(sent) \in 0..MaxSubmissions /\ shortenedUrlResult \in 0..Len(sent)
    BY <1>1, FormAssumption DEF Init, NoResult
  <2>3. timers \in 0..MaxTimers
    BY FormAssumption DEF Init
  <2> QED
    BY <1>2, <2>1, <2>2, <2>3 DEF Init, TypeOK
<1>4. Out = {} /\ Successes = {}
  BY <1>2 DEF Out, Successes
<1>5. TokenGone /\ TokenSentOnce /\ UntestedOnlyWhileOut
  BY <1>2 DEF TokenGone, TokenSentOnce, UntestedOnlyWhileOut
<1>6. SpinnerMeansOut /\ LastIsOut /\ LatestResultShown
  BY <1>4 DEF Init, SpinnerMeansOut, LastIsOut, LatestResultShown
<1> QED
  BY <1>1, <1>3, <1>5, <1>6 DEF FormInv

(* What handleSubmit sends, and where it goes.                              *)
LEMMA Submitted ==
  ASSUME FormInv, handleSubmit
  PROVE  /\ Submission \in Submissions
         /\ Submission.url = urlToShorten
         /\ Submission.token = recaptchaUserResponse
         /\ Submission.answer = "none"
         /\ Submission.overlaps = (Out # {})
         /\ sent' \in Seq(Submissions)
         /\ Len(sent) \in Nat
         /\ Len(sent') = Len(sent) + 1
         /\ \A k \in 1..Len(sent) : sent'[k] = sent[k]
         /\ sent'[Len(sent) + 1] = Submission
<1>1. urlToShorten \in Texts
  BY FormAssumption
     DEF handleSubmit, ButtonEnabled, EnterSubmits, FormInv, TypeOK, Texts
<1>2. recaptchaUserResponse \in Nat
  BY FormAssumption DEF FormInv, TypeOK
<1>3. Submission \in Submissions
  BY <1>1, <1>2 DEF Submission, Submissions
<1>4. sent \in Seq(Submissions) /\ sent' = Append(sent, Submission)
  BY DEF handleSubmit, FormInv
<1>5. Len(sent) \in Nat
  BY <1>4, LenProperties
<1> QED
  BY <1>3, <1>4, <1>5, AppendProperties DEF Submission

LEMMA SubmitStep ==
  ASSUME FormInv, handleSubmit
  PROVE  FormInv'
<1> DEFINE n == Len(sent)
<1> USE DEF handleSubmit
<1>1. /\ n \in Nat /\ Len(sent') = n + 1 /\ sent' \in Seq(Submissions)
      /\ 1..Len(sent') = 1..n \cup {n + 1} /\ n + 1 \notin 1..n
      /\ \A k \in 1..n : sent'[k] = sent[k]
      /\ sent'[n + 1] = Submission
      /\ Submission \in Submissions
  BY Submitted
<1>2. TypeOK'
  <2>1. Submission \in [url : ValidUrls \cup OtherTexts, token : 0..solved,
                        answer : Answers \cup {"none"}, overlaps : BOOLEAN]
    BY <1>1, Submitted DEF FormInv, TypeOK, Submissions, Texts
  <2>2. \A k \in 1..Len(sent') :
          sent'[k] \in [url : ValidUrls \cup OtherTexts, token : 0..solved,
                        answer : Answers \cup {"none"}, overlaps : BOOLEAN]
    BY <1>1, <2>1 DEF FormInv, TypeOK
  <2>3. shortenedUrlResult' \in 0..Len(sent') /\ Len(sent') \in 0..MaxSubmissions
    BY <1>1, FormAssumption DEF FormInv, TypeOK, shown
  <2>4. recaptchaUserResponse' \in 0..solved'
    BY FormAssumption DEF FormInv, TypeOK, NoToken
  <2> QED
    BY <2>2, <2>3, <2>4 DEF FormInv, TypeOK, shown, copying
<1>3. TokenGone'
  BY DEF TokenGone
<1>4. TokenSentOnce'
  BY <1>1, Submitted DEF FormInv, TokenGone, TokenSentOnce
<1>5. Out' = Out \cup {n + 1}
  BY <1>1, Submitted DEF Out
<1>6. SpinnerMeansOut'
  BY <1>5 DEF SpinnerMeansOut
<1>7. UntestedOnlyWhileOut'
  <2>1. Submission.token = NoToken \/ Submission.url \notin ValidUrls
          => Submission.overlaps = TRUE
    BY Submitted DEF FormInv, SpinnerMeansOut, ButtonEnabled, EnterSubmits
  <2> QED
    BY <1>1, <2>1 DEF FormInv, UntestedOnlyWhileOut
<1>8. Sequential' => Sequential /\ Out = {}
  BY <1>1, Submitted DEF Sequential
<1>9. LastIsOut'
  BY <1>1, <1>5, <1>8 DEF LastIsOut
<1>10. Successes' = Successes
  BY <1>1, Submitted DEF Successes
<1>11. LatestResultShown'
  BY <1>1, <1>10 DEF FormInv, LatestResultShown, shown
<1> QED
  BY <1>1, <1>2, <1>3, <1>4, <1>6, <1>7, <1>9, <1>11 DEF FormInv

(* An answer changes that of one submission and nothing else of any.        *)
LEMMA Received ==
  ASSUME FormInv, NEW k \in Out, NEW answer \in Answers, Receive(k, answer)
  PROVE  /\ sent' \in Seq(Submissions)
         /\ Len(sent) \in Nat
         /\ Len(sent') = Len(sent)
         /\ k \in 1..Len(sent)
         /\ \A j \in 1..Len(sent) :
              /\ sent'[j] \in Submissions
              /\ sent'[j].url = sent[j].url
              /\ sent'[j].token = sent[j].token
              /\ sent'[j].overlaps = sent[j].overlaps
              /\ sent'[j].answer = IF j = k THEN answer ELSE sent[j].answer
<1>1. sent \in Seq(Submissions) /\ Len(sent) \in Nat /\ k \in 1..Len(sent)
  BY LenProperties DEF FormInv, Out
<1>2. sent \in [1..Len(sent) -> Submissions]
  BY <1>1, LenProperties
<1>3. [sent[k] EXCEPT !.answer = answer] \in Submissions
  BY <1>1, <1>2 DEF Submissions
<1>4. sent' = [sent EXCEPT ![k] = [sent[k] EXCEPT !.answer = answer]]
  BY <1>2 DEF Receive
<1>5. sent' \in Seq(Submissions) /\ Len(sent') = Len(sent)
  BY <1>1, <1>3, <1>4, ExceptSeq
<1>6. \A j \in 1..Len(sent) : sent[j] \in Submissions
  BY <1>2
<1>7. ASSUME NEW j \in 1..Len(sent), j # k
      PROVE  sent'[j] = sent[j]
  BY <1>2, <1>4, <1>7
<1>8. sent'[k] = [sent[k] EXCEPT !.answer = answer]
  BY <1>1, <1>2, <1>4
<1>9. /\ sent'[k] \in Submissions
      /\ sent'[k].url = sent[k].url
      /\ sent'[k].token = sent[k].token
      /\ sent'[k].overlaps = sent[k].overlaps
      /\ sent'[k].answer = answer
  BY <1>1, <1>3, <1>6, <1>8 DEF Submissions
<1> QED
  BY <1>1, <1>5, <1>6, <1>7, <1>9

LEMMA AnsweredStep ==
  ASSUME FormInv, NEW k \in Out, NEW answer \in Answers, Answered(k, answer)
  PROVE  FormInv'
<1> USE DEF Answered, inputs
<1> DEFINE n == Len(sent)
<1>1. /\ n \in Nat /\ Len(sent') = n /\ k \in 1..n /\ sent' \in Seq(Submissions)
      /\ \A j \in 1..n :
           /\ sent'[j] \in Submissions
           /\ sent'[j].url = sent[j].url
           /\ sent'[j].token = sent[j].token
           /\ sent'[j].overlaps = sent[j].overlaps
           /\ sent'[j].answer = IF j = k THEN answer ELSE sent[j].answer
  BY Received
<1>n. n \in Nat /\ k \in 1..n /\ Len(sent') = n
  BY <1>1
<1>2. TypeOK'
  <2>1. \A j \in 1..n : sent[j].token \in 0..solved
    BY DEF FormInv, TypeOK
  <2>2. \A j \in 1..Len(sent') :
          sent'[j] \in [url : ValidUrls \cup OtherTexts, token : 0..solved,
                        answer : Answers \cup {"none"}, overlaps : BOOLEAN]
    BY <1>1, <2>1 DEF Submissions, Texts
  <2>3. shortenedUrlResult' \in 0..Len(sent')
    <3>1. k \in 0..n
      BY <1>n, UpTo
    <3>2. shortenedUrlResult \in 0..n
      BY DEF FormInv, TypeOK
    <3> QED
      BY <1>n, <3>1, <3>2
  <2> QED
    BY <1>1, <2>2, <2>3 DEF FormInv, TypeOK, copying
<1>3. TokenGone' /\ TokenSentOnce'
  BY <1>1 DEF FormInv, TokenGone, TokenSentOnce
<1>4. SpinnerMeansOut'
  BY DEF SpinnerMeansOut
<1>5. UntestedOnlyWhileOut'
  BY <1>1 DEF FormInv, UntestedOnlyWhileOut
<1>6. Out' = Out \ {k}
  BY <1>1 DEF Out, Answers
<1>7. Sequential' <=> Sequential
  BY <1>1 DEF Sequential
<1>8. LastIsOut'
  BY <1>1, <1>6, <1>7 DEF FormInv, LastIsOut
<1>9. Successes' = IF answer = "ok" THEN Successes \cup {k} ELSE Successes
  BY <1>1 DEF Successes, Out
<1>10. LatestResultShown'
  <2> SUFFICES ASSUME Sequential'
               PROVE  /\ Successes' = {} => shortenedUrlResult' = NoResult
                      /\ Successes' # {} =>
                           /\ shortenedUrlResult' \in Successes'
                           /\ \A j \in Successes' : j <= shortenedUrlResult'
    BY <1>1 DEF LatestResultShown, Sequential, Submissions
  <2>1. /\ Successes = {} => shortenedUrlResult = NoResult
        /\ Successes # {} => /\ shortenedUrlResult \in Successes
                             /\ \A j \in Successes : j <= shortenedUrlResult
    BY <1>7 DEF FormInv, LatestResultShown, Sequential
  <2>2. k = n
    BY <1>7 DEF FormInv, LastIsOut
  <2>3. \A j \in Successes' : j <= n
    <3>1. \A j \in Successes' : j \in 1..n
      BY <1>1 DEF Successes
    <3>2. \A j \in 1..n : j <= n
      BY <1>n, UpTo
    <3> QED
      BY <3>1, <3>2
  <2>4. CASE answer = "ok"
    BY <1>9, <2>2, <2>3, <2>4
  <2>5. CASE answer # "ok"
    BY <1>9, <2>1, <2>5
  <2> QED
    BY <2>4, <2>5
<1> QED
  BY <1>1, <1>2, <1>3, <1>4, <1>5, <1>8, <1>10 DEF FormInv

(* The other events leave the submissions, the spinner and the result alone, *)
(* and put at most a token on the form that is newer than those sent.       *)
LEMMA OtherStep ==
  ASSUME FormInv, UNCHANGED <<shown, isLoading, sent>>, TypeOK',
         \/ recaptchaUserResponse' \in {recaptchaUserResponse, NoToken}
         \/ recaptchaUserResponse' > solved
  PROVE  FormInv'
<1> USE DEF shown
<1>1. TokenGone'
  <2>1. \A k \in 1..Len(sent) : sent[k].token \in 0..solved
    BY DEF FormInv, TypeOK
  <2> QED
    BY <2>1, FormAssumption DEF FormInv, TypeOK, TokenGone
<1>2. Out' = Out /\ Successes' = Successes
  BY DEF Out, Successes
<1>3. TokenSentOnce' /\ UntestedOnlyWhileOut'
  BY DEF FormInv, TokenSentOnce, UntestedOnlyWhileOut
<1>4. SpinnerMeansOut' /\ LastIsOut'
  BY <1>2 DEF FormInv, SpinnerMeansOut, LastIsOut, Sequential
<1>5. LatestResultShown'
  BY <1>2 DEF FormInv, LatestResultShown
<1> QED
  BY <1>1, <1>3, <1>4, <1>5 DEF FormInv

LEMMA NextInv == FormInv /\ [Next]_vars => FormInv'
<1> SUFFICES ASSUME FormInv, [Next]_vars PROVE FormInv'
  OBVIOUS
<1>1. ASSUME NEW text \in ValidUrls \cup OtherTexts \cup {Empty},
             handleChangeUrlToShorten(text)
      PROVE  FormInv'
  <2>1. TypeOK'
    BY <1>1 DEF handleChangeUrlToShorten, FormInv, TypeOK, shown, copying
  <2> QED
    BY <1>1, <2>1, OtherStep DEF handleChangeUrlToShorten
<1>2. CASE handleRecaptchaV2ChangeSolved
  <2>1. solved' \in 0..MaxSolved /\ recaptchaUserResponse' \in 0..solved'
        /\ recaptchaUserResponse' > solved
    BY <1>2, FormAssumption DEF handleRecaptchaV2ChangeSolved, FormInv, TypeOK
  <2>2. \A k \in 1..Len(sent) :
          sent[k] \in [url : ValidUrls \cup OtherTexts, token : 0..solved',
                       answer : Answers \cup {"none"}, overlaps : BOOLEAN]
    <3>1. 0..solved \subseteq 0..solved'
      BY <1>2, FormAssumption DEF handleRecaptchaV2ChangeSolved, FormInv, TypeOK
    <3> QED
      BY <3>1 DEF FormInv, TypeOK
  <2>3. TypeOK'
    BY <1>2, <2>1, <2>2 DEF handleRecaptchaV2ChangeSolved, FormInv, TypeOK, shown, copying
  <2> QED
    BY <1>2, <2>1, <2>3, OtherStep DEF handleRecaptchaV2ChangeSolved
<1>3. CASE handleRecaptchaV2ChangeExpired
  <2>1. TypeOK'
    BY <1>3, FormAssumption
       DEF handleRecaptchaV2ChangeExpired, FormInv, TypeOK, NoToken, shown, copying
  <2> QED
    BY <1>3, <2>1, OtherStep DEF handleRecaptchaV2ChangeExpired
<1>4. CASE handleSubmit
  BY <1>4, SubmitStep
<1>5. ASSUME NEW k \in Out, NEW answer \in Answers, Answered(k, answer)
      PROVE  FormInv'
  BY <1>5, AnsweredStep
<1>6. CASE copyToClipboard \/ CopyTimeout
  <2>1. timers' \in 0..MaxTimers
    BY <1>6, FormAssumption DEF copyToClipboard, CopyTimeout, FormInv, TypeOK
  <2>2. didCopy' \in BOOLEAN /\ UNCHANGED <<inputs, shown, isLoading, sent>>
    BY <1>6 DEF copyToClipboard, CopyTimeout
  <2>3. TypeOK'
    BY <2>1, <2>2 DEF FormInv, TypeOK, inputs, shown
  <2> QED
    BY <2>2, <2>3, OtherStep DEF inputs
<1>7. CASE UNCHANGED vars
  <2>1. TypeOK'
    BY <1>7 DEF vars, FormInv, TypeOK, inputs, shown, copying
  <2> QED
    BY <1>7, <2>1, OtherStep DEF vars, inputs
<1> QED
  BY <1>1, <1>2, <1>3, <1>4, <1>5, <1>6, <1>7 DEF Next

(* FormInv is an invariant of the form.                                     *)
THEOREM FormInvariant == Spec => []FormInv
BY InitInv, NextInv, PTL DEF Spec

(* Type correctness of the form, for any texts and numbers of submissions.  *)
THEOREM TypeCorrect == Spec => []TypeOK
<1>1. FormInv => TypeOK
  BY DEF FormInv
<1> QED BY <1>1, FormInvariant, PTL

(* However often and by whatever way the form is submitted, no token of the *)
(* captcha is sent twice.                                                   *)
THEOREM TokensAreSentOnce == Spec => []TokenSentOnce
<1>1. FormInv => TokenSentOnce
  BY DEF FormInv
<1> QED
  BY <1>1, FormInvariant, PTL

(* What gets past the tests of the form does so while another submission is *)
(* out: only the spinner lets Enter through, and it means that one is.      *)
THEOREM UntestedOverlaps == Spec => []UntestedOnlyWhileOut
<1>1. FormInv => UntestedOnlyWhileOut
  BY DEF FormInv
<1> QED
  BY <1>1, FormInvariant, PTL

(* Without overlapping submissions the form shows the latest link.          *)
THEOREM ShowsLatestResult == Spec => []LatestResultShown
<1>1. FormInv => LatestResultShown
  BY DEF FormInv
<1> QED
  BY <1>1, FormInvariant, PTL
=============================================================================
