--------------------------- MODULE UserInformation ----------------------------
(***************************************************************************)
(* The user token over several runs of the client: typed into the edit box, *)
(* sent, stored in login.ini when the login succeeds, and read back at the  *)
(* next start.  Each of these passes the text through a buffer of its size. *)
(* A text is abstracted to how long it was typed and how much is left of it.*)
(***************************************************************************)
EXTENDS Naturals

CONSTANTS
    Clients,    \* client processes; they share login.ini
    Lengths,    \* lengths of the tokens that users type
    Accounts    \* those that the web API accepts, now and later

ASSUME LengthsAssumption == Lengths \subseteq Nat \ {0} /\ Accounts \subseteq Lengths

VARIABLES
    file,       \* the token in login.ini
    sound,      \* history: the token in login.ini logged in when it was stored
    phase,      \* of each client: "off", "login", "asking" or "main"
    box,        \* content of its edit box
    sent,       \* the token of its request
    origin      \* history: the sound token on disk when it started, as long as
                \* its user has not edited the box

vars == <<file, sound, phase, box, sent, origin>>

\* Characters that fit into wchar_t[256], of which 255 are used, and wchar_t[512].
StoredLimit == 254
TextLimit == 511

Whole(n) == [typed |-> n, left |-> n]
NoText == Whole(0)
Texts == [typed : Lengths \union {0}, left : Lengths \union {0, StoredLimit, TextLimit}]
Cut(text, limit) == IF text.left > limit THEN [text EXCEPT !.left = limit] ELSE text

Accepted(text) == \E n \in Accounts : text = Whole(n)

Init ==
    /\ file = NoText
    /\ sound = FALSE
    /\ phase = [c \in Clients |-> "off"]
    /\ box = [c \in Clients |-> NoText]
    /\ sent = [c \in Clients |-> NoText]
    /\ origin = [c \in Clients |-> NoText]

-------------------------------------------------------------------------------
\* Mutant: the buffer's size is given in bytes where characters are meant.
ReadToken_HalfRead == Cut(file, StoredLimit \div 2)

\* The constructor of UserInformation: GetPrivateProfileString.
ReadToken == Cut(file, StoredLimit)

\* OnInit of the login dialog fills the box with it.
Start(c) ==
    /\ phase[c] = "off"
    /\ phase' = [phase EXCEPT ![c] = "login"]
    /\ box' = [box EXCEPT ![c] = ReadToken]
    /\ origin' = [origin EXCEPT ![c] = IF sound THEN file ELSE NoText]
    /\ UNCHANGED <<file, sound, sent>>

\* The box stays editable while the login is in flight.
Edit(c, text) ==
    /\ phase[c] \in {"login", "asking"}
    /\ box' = [box EXCEPT ![c] = text]
    /\ origin' = [origin EXCEPT ![c] = NoText]
    /\ UNCHANGED <<file, sound, phase, sent>>

\* cEditBox::Text
BoxText(c) == Cut(box[c], TextLimit)

OnOK(c) ==
    /\ phase[c] = "login" /\ BoxText(c) # NoText
    /\ phase' = [phase EXCEPT ![c] = "asking"]
    /\ sent' = [sent EXCEPT ![c] = BoxText(c)]
    /\ UNCHANGED <<file, sound, box, origin>>

OnLoginFailed(c) ==
    /\ phase[c] = "asking" /\ ~Accepted(sent[c])
    /\ phase' = [phase EXCEPT ![c] = "login"]
    /\ UNCHANGED <<file, sound, box, sent, origin>>

\* UpdateLoginDetails stores what is in the box now.
OnLoginSuccess(c) ==
    /\ phase[c] = "asking" /\ Accepted(sent[c])
    /\ phase' = [phase EXCEPT ![c] = "main"]
    /\ file' = BoxText(c)
    /\ sound' = (BoxText(c) = sent[c])
    /\ UNCHANGED <<box, sent, origin>>

\* The client ends, in whatever state it is.
End(c) ==
    /\ phase[c] # "off"
    /\ phase' = [phase EXCEPT ![c] = "off"]
    /\ box' = [box EXCEPT ![c] = NoText]
    /\ sent' = [sent EXCEPT ![c] = NoText]
    /\ origin' = [origin EXCEPT ![c] = NoText]
    /\ UNCHANGED <<file, sound>>

Next ==
    \E c \in Clients :
        \/ Start(c) \/ OnOK(c) \/ OnLoginFailed(c) \/ OnLoginSuccess(c) \/ End(c)
        \/ \E n \in Lengths \union {0} : Edit(c, Whole(n))

Spec == Init /\ [][Next]_vars

-------------------------------------------------------------------------------
TypeOK ==
    /\ file \in Texts /\ sound \in BOOLEAN
    /\ phase \in [Clients -> {"off", "login", "asking", "main"}]
    /\ box \in [Clients -> Texts] /\ sent \in [Clients -> Texts] /\ origin \in [Clients -> Texts]

Rejected(c) == phase[c] = "asking" /\ ~Accepted(sent[c])

\* A client that is started after a login and whose user only presses the button
\* logs in again, also while other clients come, go, log in and end between any
\* two steps, if the token is short enough to be read back (UserInfo.hpp).
ShortTokenLogsInAgain ==
    \A c \in Clients : Rejected(c) => origin[c] = NoText \/ origin[c].left > StoredLimit

\* What the README promises, credentials stored "upon successful login", for
\* every token: the one stored can be used again.  UserInformation reads fewer
\* characters than the edit box returns and UpdateLoginDetails stores.
StoredTokenLogsInAgain == \A c \in Clients : Rejected(c) => origin[c] = NoText
===============================================================================
