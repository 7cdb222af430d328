------------------------ MODULE UserInformationProofs -------------------------
(***************************************************************************)
(* Proofs about UserInformation for any number of clients and any lengths   *)
(* of tokens.                                                               *)
(***************************************************************************)
EXTENDS UserInformation, TLAPS

LEMMA WholeIsText == \A n \in Lengths \union {0} : Whole(n) \in Texts
  <1> SUFFICES ASSUME NEW n \in Lengths \union {0} PROVE Whole(n) \in Texts
    OBVIOUS
  <1>1. n \in Lengths \union {0, StoredLimit, TextLimit}
    OBVIOUS
  <1> QED
    BY <1>1, Zenon DEF Whole, Texts

LEMMA TextLeft == \A text \in Texts : text.left \in Nat
  <1>1. ASSUME NEW n \in Lengths \union {0, StoredLimit, TextLimit} PROVE n \in Nat
    <2>1. CASE n \in Lengths
      BY <2>1, LengthsAssumption
    <2>2. CASE n = 0 \/ n = StoredLimit \/ n = TextLimit
      BY <2>2 DEF StoredLimit, TextLimit
    <2> QED
      BY <2>1, <2>2
  <1> QED
    BY <1>1 DEF Texts

LEMMA CutText ==
    \A text \in Texts, limit \in {StoredLimit, TextLimit} :
        /\ Cut(text, limit) \in Texts
        /\ text.left <= limit => Cut(text, limit) = text
  <1> SUFFICES ASSUME NEW text \in Texts, NEW limit \in {StoredLimit, TextLimit}
               PROVE  /\ Cut(text, limit) \in Texts
                      /\ text.left <= limit => Cut(text, limit) = text
    OBVIOUS
  <1>1. text.left \in Nat /\ limit \in Nat
    BY TextLeft DEF StoredLimit, TextLimit
  <1>2. [text EXCEPT !.left = limit] \in Texts
    BY DEF Texts
  <1>3. text.left <= limit => ~(text.left > limit)
    BY <1>1
  <1> QED
    BY <1>2, <1>3 DEF Cut

-------------------------------------------------------------------------------
LEMMA TypeInit == Init => TypeOK
  BY WholeIsText DEF Init, TypeOK, NoText

LEMMA TypeStep == TypeOK /\ [Next]_vars => TypeOK'
  <1> SUFFICES ASSUME TypeOK, [Next]_vars PROVE TypeOK'
    OBVIOUS
  <1>0. NoText \in Texts
    BY WholeIsText DEF NoText
  <1>1. ReadToken \in Texts /\ \A c \in Clients : BoxText(c) \in Texts
    BY CutText DEF TypeOK, ReadToken, BoxText
  <1>2. ASSUME NEW c \in Clients, Start(c) PROVE TypeOK'
    BY <1>0, <1>1, <1>2 DEF Start, TypeOK
  <1>3. ASSUME NEW c \in Clients, NEW n \in Lengths \union {0}, Edit(c, Whole(n)) PROVE TypeOK'
    BY <1>0, <1>3, WholeIsText DEF Edit, TypeOK
  <1>4. ASSUME NEW c \in Clients, OnOK(c) \/ OnLoginFailed(c) PROVE TypeOK'
    BY <1>1, <1>4 DEF OnOK, OnLoginFailed, TypeOK
  <1>5. ASSUME NEW c \in Clients, OnLoginSuccess(c) PROVE TypeOK'
    BY <1>1, <1>5 DEF OnLoginSuccess, TypeOK
  <1>6. ASSUME NEW c \in Clients, End(c) PROVE TypeOK'
    BY <1>0, <1>6 DEF End, TypeOK
  <1>7. CASE UNCHANGED vars
    BY <1>7 DEF vars, TypeOK
  <1> QED
    BY <1>2, <1>3, <1>4, <1>5, <1>6, <1>7 DEF Next

\* What goes through the buffers are texts, whatever is typed and stored.
THEOREM TypeCorrect == Spec => []TypeOK
  BY TypeInit, TypeStep, PTL DEF Spec

-------------------------------------------------------------------------------
\* A token that is stored soundly is an accepted one.
SoundInv == sound => Accepted(file)

\* As long as the user leaves the box alone, box and request hold the token that
\* was read at the start.
ReadBack(c) ==
    /\ Accepted(origin[c])
    /\ box[c] = Cut(origin[c], StoredLimit)
    /\ phase[c] = "asking" => sent[c] = BoxText(c)

OriginInv == \A c \in Clients : origin[c] # NoText => ReadBack(c)

TokenInv == TypeOK /\ SoundInv /\ OriginInv

LEMMA TokenStep == TokenInv /\ [Next]_vars => TokenInv'
  <1> SUFFICES ASSUME TokenInv, [Next]_vars PROVE SoundInv' /\ OriginInv'
    BY TypeStep DEF TokenInv
  <1> USE DEF TokenInv, TypeOK
  <1>1. ASSUME NEW c \in Clients,
               \A d \in Clients \ {c} : /\ origin'[d] = origin[d] /\ box'[d] = box[d]
                                        /\ phase'[d] = phase[d] /\ sent'[d] = sent[d],
               origin'[c] # NoText => ReadBack(c)'
        PROVE  OriginInv'
    BY <1>1 DEF OriginInv, ReadBack, BoxText
  <1>2. ASSUME NEW c \in Clients, Start(c) PROVE SoundInv' /\ OriginInv'
    <2>1. SoundInv'
      BY <1>2 DEF Start, SoundInv
    <2>2. \A d \in Clients \ {c} : /\ origin'[d] = origin[d] /\ box'[d] = box[d]
                                   /\ phase'[d] = phase[d] /\ sent'[d] = sent[d]
      BY <1>2 DEF Start
    <2>3. origin'[c] # NoText => ReadBack(c)'
      BY <1>2 DEF Start, ReadBack, ReadToken, SoundInv
    <2> QED
      BY <1>1, <2>1, <2>2, <2>3
  <1>3. ASSUME NEW c \in Clients, NEW n \in Lengths \union {0}, Edit(c, Whole(n))
        PROVE  SoundInv' /\ OriginInv'
    <2>1. SoundInv'
      BY <1>3 DEF Edit, SoundInv
    <2>2. \A d \in Clients \ {c} : /\ origin'[d] = origin[d] /\ box'[d] = box[d]
                                   /\ phase'[d] = phase[d] /\ sent'[d] = sent[d]
      BY <1>3 DEF Edit
    <2>3. origin'[c] = NoText
      BY <1>3 DEF Edit
    <2> QED
      BY <1>1, <2>1, <2>2, <2>3
  <1>4. ASSUME NEW c \in Clients, OnOK(c) \/ OnLoginFailed(c) \/ OnLoginSuccess(c)
        PROVE  SoundInv' /\ OriginInv'
    <2>1. SoundInv'
      BY <1>4 DEF OnOK, OnLoginFailed, OnLoginSuccess, SoundInv
    <2>2. \A d \in Clients \ {c} : /\ origin'[d] = origin[d] /\ box'[d] = box[d]
                                   /\ phase'[d] = phase[d] /\ sent'[d] = sent[d]
      BY <1>4 DEF OnOK, OnLoginFailed, OnLoginSuccess
    <2>3. UNCHANGED <<origin, box>> /\ (phase'[c] = "asking" => sent'[c] = BoxText(c))
      BY <1>4 DEF OnOK, OnLoginFailed, OnLoginSuccess
    <2>4. origin'[c] # NoText => ReadBack(c)'
      BY <2>3 DEF OriginInv, ReadBack, BoxText
    <2> QED
      BY <1>1, <2>1, <2>2, <2>4
  <1>5. ASSUME NEW c \in Clients, End(c) PROVE SoundInv' /\ OriginInv'
    <2>1. SoundInv'
      BY <1>5 DEF End, SoundInv
    <2>2. \A d \in Clients \ {c} : /\ origin'[d] = origin[d] /\ box'[d] = box[d]
                                   /\ phase'[d] = phase[d] /\ sent'[d] = sent[d]
      BY <1>5 DEF End
    <2>3. origin'[c] = NoText
      BY <1>5 DEF End
    <2> QED
      BY <1>1, <2>1, <2>2, <2>3
  <1>6. CASE UNCHANGED vars
    BY <1>6 DEF vars, SoundInv, OriginInv, ReadBack, BoxText
  <1> QED
    BY <1>2, <1>3, <1>4, <1>5, <1>6 DEF Next

\* However many clients share login.ini, a token that logged in and is not longer
\* than what a start reads back logs in again when its user only presses the button.
THEOREM ShortTokensSurvive == Spec => []ShortTokenLogsInAgain
  <1>1. Init => TokenInv
    BY TypeInit DEF Init, TokenInv, SoundInv, OriginInv
  <1>2. TokenInv => ShortTokenLogsInAgain
    <2> SUFFICES ASSUME TokenInv, NEW c \in Clients, phase[c] = "asking",
                        origin[c] # NoText, ~(origin[c].left > StoredLimit)
                 PROVE  Accepted(sent[c])
      BY DEF ShortTokenLogsInAgain, Rejected
    <2>1. origin[c] \in Texts
      BY DEF TokenInv, TypeOK
    <2>2. origin[c].left <= StoredLimit /\ origin[c].left <= TextLimit
      BY <2>1, TextLeft DEF StoredLimit, TextLimit
    <2>3. ReadBack(c)
      BY DEF TokenInv, OriginInv
    <2>4. box[c] = origin[c]
      BY <2>1, <2>2, <2>3, CutText DEF ReadBack
    <2>5. sent[c] = origin[c]
      BY <2>1, <2>2, <2>3, <2>4, CutText DEF ReadBack, BoxText
    <2> QED
      BY <2>3, <2>5 DEF ReadBack
  <1> QED
    BY <1>1, <1>2, TokenStep, PTL DEF Spec
===============================================================================
