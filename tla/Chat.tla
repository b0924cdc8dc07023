--------------------------------- MODULE Chat ---------------------------------
(***************************************************************************)
(* The chat gateway (gateway/chat.gateway.ts) in front of chat.service.ts: *)
(* sockets that connect with a token, the connections and rooms they are   *)
(* kept in, the rate limit of a user, and the messages of one conversation,*)
(* which social.service.ts stores and marks too, for REST.  Handlers run   *)
(* to their first await; at the awaits of a connection, a join, a message  *)
(* or a read the socket may be gone, and the process may stop.             *)
(*                                                                         *)
(* Nothing ever sets the gateway's `server`, so that whatever would go     *)
(* through it throws: some awaits after a message is stored its sender is  *)
(* told of an error, if he is still there, and nobody else of anything.    *)
(***************************************************************************)
EXTENDS Naturals, FiniteSets

CONSTANTS
    Sockets, Users,
    Owner,       \* socket -> the user its token is for
    Members,     \* the two participants of the conversation
    Letters,     \* what is written
    Nobody,
    MaxEvents,   \* limited events a user may send in a window (30 in the code)
    MaxSends     \* bound: calls of all sockets

ChatAssumption ==
    /\ Owner \in [Sockets -> Users] /\ Members \subseteq Users
    /\ IsFiniteSet(Letters) /\ Nobody \notin Users \cup Sockets
    /\ MaxEvents \in Nat \ {0} /\ MaxSends \in Nat

VARIABLES
    socket,      \* where each socket is
    token,       \* whether its token is good
    connections, \* the sockets in userConnections
    room,        \* the sockets in the conversation's room
    joining,     \* the sockets whose join awaits the conversation
    window,      \* user -> events counted in his window, 0 when he has none
    reading,     \* <<socket, message>>: found, and about to be marked as read
    letter,      \* what is stored of each message, and the socket it came by, if any
    waiting,     \* messages stored by a handler that has not answered
    sent,        \* messages of which a caller of REST was told that they are sent (history)
    told,        \* socket -> what it was told last
    served,      \* user -> limited events served in his window (history)
    calls,       \* calls made (bounds the model)
    slipped      \* sockets that left while a handler of theirs waited (history)

letters  == <<reading, letter, waiting, sent>>
chatVars == <<socket, token, connections, room, joining, window, letters, told, served, calls,
              slipped>>

NoLetter == [author |-> Nobody, state |-> "none", reader |-> Nobody, via |-> Nobody]

Init ==
    /\ socket = [s \in Sockets |-> "off"]
    /\ token = [s \in Sockets |-> "good"]
    /\ connections = {} /\ room = {} /\ joining = {}
    /\ window = [u \in Users |-> 0] /\ served = [u \in Users |-> 0]
    /\ calls = 0
    /\ letter = [l \in Letters |-> NoLetter]
    /\ reading = {} /\ waiting = {} /\ sent = {}
    /\ told = [s \in Sockets |-> "nothing"]
    /\ slipped = {}

-----------------------------------------------------------------------------
(* Connections.                                                             *)

\* The token verifies; whether it is revoked is asked of Redis.
Connect(s) ==
    /\ socket[s] = "off"
    /\ socket' = [socket EXCEPT ![s] = "checking"]
    /\ UNCHANGED <<token, connections, room, joining, window, letters, told, served, calls, slipped>>

\* The answer.  A socket that left meanwhile is entered all the same.
Admit(s) ==
    /\ socket[s] \in {"checking", "left"}
    /\ IF token[s] = "revoked"
       THEN socket' = [socket EXCEPT ![s] = "gone"] /\ UNCHANGED <<connections, slipped>>
       ELSE /\ connections' = connections \cup {s}
            /\ socket' = [socket EXCEPT ![s] = IF socket[s] = "left" THEN "gone" ELSE "on"]
            /\ slipped' = slipped \cup (IF socket[s] = "left" THEN {s} ELSE {})
    /\ UNCHANGED <<token, room, joining, window, letters, told, served, calls>>

\* Only a socket whose user is known is taken out; the others' status is announced
\* through the server, which throws.
Disconnect(s) ==
    /\ \/ /\ socket[s] = "checking"
          /\ socket' = [socket EXCEPT ![s] = "left"]
          /\ UNCHANGED connections
       \/ /\ socket[s] = "on"
          /\ socket' = [socket EXCEPT ![s] = "gone"]
          /\ connections' = connections \ {s}
    /\ room' = room \ {s}
    /\ UNCHANGED <<token, joining, window, letters, told, served, calls, slipped>>

\* A logout, or a password change.  Connected sockets are not looked at again: one
\* that comes after Admit changes nothing.
Revoke(s) ==
    /\ token[s] = "good" /\ socket[s] \in {"checking", "left"}
    /\ token' = [token EXCEPT ![s] = "revoked"]
    /\ UNCHANGED <<socket, connections, room, joining, window, letters, told, served, calls, slipped>>

-----------------------------------------------------------------------------
(* Events of a connected socket.                                            *)

Calling(s) ==
    /\ socket[s] = "on" /\ calls < MaxSends
    /\ calls' = calls + 1

\* checkRateLimit: the first event of a window opens it, the others count, those that
\* are refused included.
Count(u) == window' = [window EXCEPT ![u] = @ + 1]
Within(u) == window[u] < MaxEvents
Serve(u) == served' = [served EXCEPT ![u] = @ + 1]

WindowEnds(u) ==
    /\ window[u] > 0
    /\ window' = [window EXCEPT ![u] = 0] /\ served' = [served EXCEPT ![u] = 0]
    /\ UNCHANGED <<socket, token, connections, room, joining, letters, told, calls, slipped>>

Tell(s, what) == told' = [told EXCEPT ![s] = what]

\* An event within the limit is served.
Limited(s) ==
    /\ Calling(s)
    /\ Count(Owner[s])
    /\ IF Within(Owner[s]) THEN Serve(Owner[s]) ELSE UNCHANGED served

\* Who may write in the conversation is not asked.  The limit, like any error of this
\* handler, is reported to the sender.
SendMessage(s, l) ==
    /\ Limited(s) /\ letter[l] = NoLetter
    /\ \/ /\ Within(Owner[s]) /\ UNCHANGED told
          /\ letter' = [letter EXCEPT ![l] = [NoLetter EXCEPT !.author = Owner[s],
                                                             !.state = "stored", !.via = s]]
          /\ waiting' = waiting \cup {l}
       \/ Tell(s, "error") /\ UNCHANGED <<letter, waiting>>
    /\ UNCHANGED <<socket, token, connections, room, joining, reading, sent, slipped>>

\* The conversation is updated and read; then the server would tell its participants.
Announce(l) ==
    /\ l \in waiting /\ letter[l].via \in Sockets
    /\ waiting' = waiting \ {l}
    /\ IF socket[letter[l].via] = "on" THEN Tell(letter[l].via, "error") ELSE UNCHANGED told
    /\ UNCHANGED <<socket, token, connections, room, joining, window, reading, letter, sent,
                   served, calls, slipped>>

\* The message is looked for among those that are not deleted.
MessageRead(s, l) ==
    /\ Limited(s)
    /\ reading' = IF Within(Owner[s]) /\ letter[l].state = "stored"
                  THEN reading \cup {<<s, l>>} ELSE reading
    /\ UNCHANGED <<socket, token, connections, room, joining, letter, waiting, sent, told, slipped>>

\* Some awaits later either participant, the author included, marks it by its id.
MarkMessageAsRead(s, l) ==
    /\ <<s, l>> \in reading /\ reading' = reading \ {<<s, l>>}
    /\ letter' = IF Owner[s] \in Members THEN [letter EXCEPT ![l].reader = Owner[s]] ELSE letter
    /\ UNCHANGED <<socket, token, connections, room, joining, window, waiting, sent, told, served,
                   calls, slipped>>

\* Not limited; only the author's.  The others are told through the server.
MessageDelete(s, l) ==
    /\ Calling(s)
    /\ letter' = IF letter[l].state = "stored" /\ letter[l].author = Owner[s]
                 THEN [letter EXCEPT ![l].state = "deleted"] ELSE letter
    /\ Tell(s, "error")
    /\ UNCHANGED <<socket, token, connections, room, joining, window, reading, waiting, sent,
                   served, slipped>>

\* The conversation is read, and who takes part in it is checked, before joining.
AskJoin(s) ==
    /\ Calling(s) /\ s \notin joining
    /\ joining' = joining \cup {s}
    /\ UNCHANGED <<socket, token, connections, room, window, letters, told, served, slipped>>

ConversationJoin(s) ==
    /\ s \in joining
    /\ joining' = joining \ {s}
    /\ IF Owner[s] \in Members
       THEN /\ room' = room \cup {s}
            /\ slipped' = slipped \cup (IF socket[s] = "on" THEN {} ELSE {s})
            /\ UNCHANGED told
       ELSE Tell(s, "error") /\ UNCHANGED <<room, slipped>>
    /\ UNCHANGED <<socket, token, connections, window, letters, served, calls>>

ConversationLeave(s) ==
    /\ Calling(s) /\ s \in room
    /\ room' = room \ {s}
    /\ UNCHANGED <<socket, token, connections, joining, window, letters, told, served, slipped>>

\* Typing is counted and goes to the room directly, not through the server.
Typing(s) ==
    /\ Limited(s)
    /\ UNCHANGED <<socket, token, connections, room, joining, letters, told, slipped>>

Event(s) ==
    \/ \E l \in Letters : SendMessage(s, l) \/ MessageRead(s, l) \/ MessageDelete(s, l)
    \/ AskJoin(s) \/ ConversationLeave(s) \/ Typing(s)

-----------------------------------------------------------------------------
(* The same messages over REST, and a restart.                              *)

\* sendMessage of social.service: only a participant's is stored.
PostMessage(u, l) ==
    /\ calls < MaxSends /\ calls' = calls + 1
    /\ u \in Members /\ letter[l] = NoLetter
    /\ letter' = [letter EXCEPT ![l] = [NoLetter EXCEPT !.author = u, !.state = "stored"]]
    /\ waiting' = waiting \cup {l}
    /\ UNCHANGED <<socket, token, connections, room, joining, window, reading, sent, told, served,
                   slipped>>

\* The conversation is saved after the message; when that fails the answer is an error.
PostAnswer(l) ==
    /\ l \in waiting /\ letter[l].via = Nobody
    /\ waiting' = waiting \ {l}
    /\ sent' \in {sent, sent \cup {l}}
    /\ UNCHANGED <<socket, token, connections, room, joining, window, reading, letter, told, served,
                   calls, slipped>>

\* One UPDATE of all that others wrote and that is unread, deleted or not.
MarkMessagesAsRead(u) ==
    /\ u \in Members
    /\ letter' = [l \in Letters |->
                    IF letter[l].author \notin {u, Nobody} /\ letter[l].reader = Nobody
                    THEN [letter[l] EXCEPT !.reader = u] ELSE letter[l]]
    /\ UNCHANGED <<socket, token, connections, room, joining, window, reading, waiting, sent, told,
                   served, calls, slipped>>

\* The process stops: the gateway's state is lost and every socket gone.
Restart ==
    /\ \E s \in Sockets : socket[s] \in {"on", "checking", "left"}
    /\ socket' = [s \in Sockets |-> IF socket[s] = "off" THEN "off" ELSE "gone"]
    /\ connections' = {} /\ room' = {} /\ joining' = {} /\ slipped' = {}
    /\ reading' = {} /\ waiting' = {}
    /\ window' = [u \in Users |-> 0] /\ served' = [u \in Users |-> 0]
    /\ UNCHANGED <<token, letter, sent, told, calls>>

Next ==
    \/ \E s \in Sockets : Connect(s) \/ Admit(s) \/ Disconnect(s) \/ Revoke(s)
    \/ \E s \in Sockets : Event(s) \/ ConversationJoin(s)
    \/ \E l \in Letters : Announce(l) \/ PostAnswer(l)
    \/ \E s \in Sockets, l \in Letters : MarkMessageAsRead(s, l)
    \/ \E u \in Users, l \in Letters : PostMessage(u, l)
    \/ \E u \in Users : WindowEnds(u) \/ MarkMessagesAsRead(u)
    \/ Restart

Spec == Init /\ [][Next]_chatVars

-----------------------------------------------------------------------------
(* Properties.                                                              *)

TypeOK ==
    /\ socket \in [Sockets -> {"off", "checking", "left", "on", "gone"}]
    /\ token \in [Sockets -> {"good", "revoked"}]
    /\ connections \subseteq Sockets /\ room \subseteq Sockets /\ joining \subseteq Sockets
    /\ window \in [Users -> 0..MaxSends] /\ served \in [Users -> 0..MaxSends]
    /\ letter \in [Letters -> [author : Users \cup {Nobody}, state : {"none", "stored", "deleted"},
                               reader : Members \cup {Nobody}, via : Sockets \cup {Nobody}]]
    /\ reading \subseteq Sockets \X Letters /\ waiting \subseteq Letters /\ sent \subseteq Letters
    /\ told \in [Sockets -> {"nothing", "error"}]
    /\ calls \in 0..MaxSends /\ slipped \subseteq Sockets

\* The connections are the connected sockets and a room has only connected members,
\* but for sockets that left while a handler waited: those stay for ever, and their
\* user never counts as offline.
PresenceIsTrue ==
    /\ {s \in Sockets : socket[s] = "on"} \subseteq connections
    /\ connections \subseteq {s \in Sockets : socket[s] = "on"} \cup slipped
    /\ room \subseteq connections \cup slipped
    /\ \A s \in room : Owner[s] \in Members

\* A user is served at most so many events in a window, over all of his sockets.
RateHolds == \A u \in Users : served[u] <= MaxEvents

\* A message that the gateway has stored leaves its sender with an error, unless the
\* handler is still at it, or the socket has left or the process has stopped: an error
\* says nothing about what was stored.  A message of which REST said that it is sent is
\* stored, or was until its author deleted it, and its author is a participant.
ErrorsSayNothing ==
    \A l \in Letters :
       /\ letter[l].via # Nobody /\ l \notin waiting =>
             \/ told[letter[l].via] = "error"
             \/ socket[letter[l].via] = "gone"
       /\ l \in sent => letter[l].author \in Members /\ letter[l].state # "none"

\* A deleted message stays deleted, and a message keeps its author.  Its reader
\* changes to a participant: one for whom it was found before it was deleted or, when
\* it had none, one who reads all that others wrote, deleted or not.
LettersKept ==
    [][ \A l \in Letters :
          /\ letter[l].state = "deleted" => letter'[l].state = "deleted"
          /\ letter[l].state # "none" => letter'[l].author = letter[l].author
          /\ letter'[l].reader # letter[l].reader =>
               \/ \E s \in Sockets : <<s, l>> \in reading /\ Owner[s] = letter'[l].reader
               \/ letter[l].reader = Nobody /\ letter'[l].reader \notin {letter[l].author, Nobody}
          /\ \A s \in Sockets : <<s, l>> \in reading' \ reading => letter[l].state = "stored"
      ]_chatVars
=============================================================================
