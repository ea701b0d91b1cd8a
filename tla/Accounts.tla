------------------------------- MODULE Accounts -------------------------------
(***************************************************************************)
(* Accounts, and the way from a password to an open websocket: a person    *)
(* registers and logs in, the access token buys a ticket, and the ticket   *)
(* opens one socket (routers/auth.py, authentication.py, security.py,      *)
(* websocket_tickets.py, websocket_authentication.py).                     *)
(*                                                                         *)
(* Every database transaction and every Redis command is a step.  A request*)
(* that is refused before it has changed anything (401 for a bad token or a*)
(* bad password) leaves no trace.  Lifetimes are counted in ticks.         *)
(***************************************************************************)
EXTENDS Naturals

CONSTANTS
  Person,      \* who registers: a username with a password of its own
  Name,
  Username,    \* the username each person wants
  Ticket,      \* the requests for a ticket: each makes a fresh uuid4
  Socket,      \* the handshakes of /ws/broadcast
  MaxUserId,   \* bound: no account gets a larger id
  TokenTtl,    \* access_token_expire_minutes
  TicketTtl,   \* websocket_ticket_ttl_seconds
  Faults       \* which of "redis", "db" and "deactivate" may happen

UserId == 1..MaxUserId
NoId   == 0
Nobody == "nobody"

ASSUME NamesAssumption ==
  Username \in [Person -> Name] /\ Nobody \notin Person /\ Nobody \notin Name
ASSUME TtlAssumption ==
  TokenTtl \in Nat \ {0} /\ TicketTtl \in Nat \ {0} /\ MaxUserId \in Nat

VARIABLES
  users,     \* the users table: whose password each row has, under which name
  reg,       \* each person's last registration, or its answer
  subject,   \* the user id in each person's access token
  tokenTtl,  \* the ticks that token has left
  issue,     \* the requests for a ticket
  asker,     \* who made each, ...
  buyer,     \* ... and the id of its current_user
  stored,    \* Redis: the user id under each ticket
  ticketTtl, \* Redis: the ticks the ticket has left
  sock,      \* the handshakes
  shown,     \* the ticket each presented
  user       \* the user id it was worth

accounts == <<users, reg>>
tokens   == <<subject, tokenTtl>>
tickets  == <<issue, asker, buyer, stored, ticketTtl>>
sockets  == <<sock, shown, user>>
vars     == <<users, reg, subject, tokenTtl, issue, asker, buyer, stored,
              ticketTtl, sock, shown, user>>

NoUser == [name |-> Nobody, by |-> Nobody, active |-> FALSE]
User   == [name : Name, by : Person, active : BOOLEAN]

Taken(n)  == \E u \in UserId : users[u].name = n
IsNext(u) == users[u] = NoUser /\ \A v \in UserId : v < u => users[v] # NoUser
NoTicket  == "no_ticket"

-----------------------------------------------------------------------------
(* register_user.                                                          *)

Answer(p, a) == reg' = [reg EXCEPT ![p] = a]
InFlight == {"insert", "refresh"}

(* The SELECT for the username.                                            *)
Find(p) ==
  /\ reg[p] \notin InFlight \cup {"created"}
  /\ Answer(p, IF Taken(Username[p]) THEN "conflict" ELSE "insert")
  /\ UNCHANGED <<users, tokens, tickets, sockets>>

(* Mutants: a username column that is not unique, and INSERT OR REPLACE.   *)
InsertUnchecked(p) ==
  /\ reg[p] = "insert"
  /\ \E u \in UserId :
       /\ IsNext(u)
       /\ users' = [users EXCEPT ![u] =
                      [name |-> Username[p], by |-> p, active |-> TRUE]]
  /\ Answer(p, "refresh")
  /\ UNCHANGED <<tokens, tickets, sockets>>
InsertReplaces(p) ==
  /\ reg[p] = "insert"
  /\ \E u \in UserId :
       /\ users[u].name = Username[p] \/ (~ Taken(Username[p]) /\ IsNext(u))
       /\ users' = [users EXCEPT ![u] =
                      [name |-> Username[p], by |-> p, active |-> TRUE]]
  /\ Answer(p, "refresh")
  /\ UNCHANGED <<tokens, tickets, sockets>>

(* The INSERT: the unique index of users.username lets it commit, ...      *)
Insert(p) ==
  /\ reg[p] = "insert"
  /\ ~ Taken(Username[p])
  /\ \E u \in UserId :
       /\ IsNext(u)
       /\ users' = [users EXCEPT ![u] =
                      [name |-> Username[p], by |-> p, active |-> TRUE]]
  /\ Answer(p, "refresh")
  /\ UNCHANGED <<tokens, tickets, sockets>>

(* ... or raises IntegrityError.                                           *)
InsertConflict(p) ==
  /\ reg[p] = "insert"
  /\ Taken(Username[p])
  /\ Answer(p, "conflict")
  /\ UNCHANGED <<users, tokens, tickets, sockets>>

Created(p) ==
  /\ reg[p] = "refresh"
  /\ Answer(p, "created")
  /\ UNCHANGED <<users, tokens, tickets, sockets>>

(* The database fails, or the process dies, before or after the commit.    *)
RegisterFails(p) ==
  /\ "db" \in Faults
  /\ reg[p] \in InFlight
  /\ Answer(p, "error")
  /\ UNCHANGED <<users, tokens, tickets, sockets>>

-----------------------------------------------------------------------------
(* login_for_access_token.                                                 *)

(* Mutant: an authenticate_user that forgets verify_password.              *)
NameKnown(p, u) == users[u].name = Username[p] /\ users[u].active

Authenticated(p, u) ==
  users[u].name = Username[p] /\ users[u].by = p /\ users[u].active

(* Mutant: a lifetime that takes minutes for hours.                        *)
LongToken(p, u) ==
  /\ subject' = [subject EXCEPT ![p] = u]
  /\ tokenTtl' = [tokenTtl EXCEPT ![p] = 60 * TokenTtl]

CreateToken(p, u) ==
  /\ subject' = [subject EXCEPT ![p] = u]
  /\ tokenTtl' = [tokenTtl EXCEPT ![p] = TokenTtl]

Login(p) ==
  \E u \in UserId :
    /\ Authenticated(p, u)
    /\ CreateToken(p, u)
    /\ UNCHANGED <<accounts, tickets, sockets>>

-----------------------------------------------------------------------------
(* issue_websocket_ticket.                                                 *)

Decodes(p) == tokenTtl[p] > 0

(* resolve_user_from_token, and what the endpoint goes on with.            *)
Authorize(t, p) ==
  /\ issue[t] = "none"
  /\ Decodes(p)
  /\ users[subject[p]].active
  /\ issue' = [issue EXCEPT ![t] = "storing"]
  /\ asker' = [asker EXCEPT ![t] = p]
  /\ buyer' = [buyer EXCEPT ![t] = subject[p]]
  /\ UNCHANGED <<accounts, tokens, stored, ticketTtl, sockets>>

(* Mutant: SET without ex.                                                 *)
PutForEver(t) ==
  /\ stored' = [stored EXCEPT ![t] = buyer[t]]
  /\ UNCHANGED ticketTtl

(* SET NX EX.  The uuid is fresh, so NX never refuses it.                  *)
Put(t) ==
  /\ stored' = [stored EXCEPT ![t] = buyer[t]]
  /\ ticketTtl' = [ticketTtl EXCEPT ![t] = TicketTtl]

Store(t) ==
  /\ issue[t] = "storing"
  /\ Put(t)
  /\ issue' = [issue EXCEPT ![t] = "issued"]
  /\ UNCHANGED <<asker, buyer, accounts, tokens, sockets>>

(* RedisError, before the SET or instead of its reply: 503.                *)
StoreFails(t) ==
  /\ "redis" \in Faults
  /\ issue[t] = "storing"
  /\ Put(t) \/ UNCHANGED <<stored, ticketTtl>>
  /\ issue' = [issue EXCEPT ![t] = "failed"]
  /\ UNCHANGED <<asker, buyer, accounts, tokens, sockets>>

-----------------------------------------------------------------------------
(* The handshake: consume_websocket_ticket, get_websocket_current_user.    *)

(* Mutant: GET, and a DEL that comes later.                                *)
GetOnly(t) == UNCHANGED <<stored, ticketTtl>>

GetDel(t) ==
  /\ stored' = [stored EXCEPT ![t] = NoId]
  /\ ticketTtl' = [ticketTtl EXCEPT ![t] = 0]

(* A client knows the tickets it was told of.                              *)
Present(s, t) ==
  /\ sock[s] = "none" /\ issue[t] = "issued"
  /\ shown' = [shown EXCEPT ![s] = t]

Consume(s, t) ==
  /\ Present(s, t)
  /\ sock' = [sock EXCEPT ![s] = IF stored[t] = NoId THEN "refused" ELSE "lookup"]
  /\ user' = [user EXCEPT ![s] = stored[t]]
  /\ GetDel(t)
  /\ UNCHANGED <<issue, asker, buyer, accounts, tokens>>

(* RedisError, before the GETDEL or instead of its reply: close code 1013. *)
ConsumeFails(s, t) ==
  /\ "redis" \in Faults
  /\ Present(s, t)
  /\ GetDel(t) \/ UNCHANGED <<stored, ticketTtl>>
  /\ sock' = [sock EXCEPT ![s] = "unavailable"]
  /\ UNCHANGED <<issue, asker, buyer, user, accounts, tokens>>

(* Mutant: the ticket is trusted.                                          *)
TrustTicket(s) ==
  /\ sock[s] = "lookup"
  /\ sock' = [sock EXCEPT ![s] = "accepted"]
  /\ UNCHANGED <<shown, user, accounts, tokens, tickets>>

Lookup(s) ==
  /\ sock[s] = "lookup"
  /\ sock' = [sock EXCEPT ![s] = IF users[user[s]].active THEN "accepted" ELSE "refused"]
  /\ UNCHANGED <<shown, user, accounts, tokens, tickets>>

-----------------------------------------------------------------------------
(* The operator switches an account off in the database.                   *)
Deactivate(u) ==
  /\ "deactivate" \in Faults
  /\ users[u].active
  /\ users' = [users EXCEPT ![u].active = FALSE]
  /\ UNCHANGED <<reg, tokens, tickets, sockets>>

Less(n) == IF n = 0 THEN 0 ELSE n - 1

Tick ==
  /\ tokenTtl' = [p \in Person |-> Less(tokenTtl[p])]
  /\ ticketTtl' = [t \in Ticket |-> Less(ticketTtl[t])]
  /\ stored' = [t \in Ticket |-> IF ticketTtl[t] = 1 THEN NoId ELSE stored[t]]
  /\ UNCHANGED <<accounts, subject, issue, asker, buyer, sockets>>

Init ==
  /\ users = [u \in UserId |-> NoUser]
  /\ reg = [p \in Person |-> "none"]
  /\ subject = [p \in Person |-> NoId]
  /\ tokenTtl = [p \in Person |-> 0]
  /\ issue = [t \in Ticket |-> "none"]
  /\ asker = [t \in Ticket |-> Nobody]
  /\ buyer = [t \in Ticket |-> NoId]
  /\ stored = [t \in Ticket |-> NoId]
  /\ ticketTtl = [t \in Ticket |-> 0]
  /\ sock = [s \in Socket |-> "none"]
  /\ shown = [s \in Socket |-> NoTicket]
  /\ user = [s \in Socket |-> NoId]

Register(p) ==
  Find(p) \/ Insert(p) \/ InsertConflict(p) \/ Created(p) \/ RegisterFails(p)

Next ==
  \/ \E p \in Person : Register(p) \/ Login(p)
  \/ \E t \in Ticket : (\E p \in Person : Authorize(t, p)) \/ Store(t) \/ StoreFails(t)
  \/ \E s \in Socket : (\E t \in Ticket : Consume(s, t) \/ ConsumeFails(s, t)) \/ Lookup(s)
  \/ \E u \in UserId : Deactivate(u)
  \/ Tick

Spec == Init /\ [][Next]_vars

(* Time passes; everything else is up to clients and to what may fail.     *)
FairSpec == Spec /\ WF_vars(Tick)

-----------------------------------------------------------------------------
(* Properties.                                                             *)

(* The type of every variable.                                             *)
TypeOK ==
  /\ users \in [UserId -> User \cup {NoUser}]
  /\ reg \in [Person -> InFlight \cup {"none", "created", "conflict", "error"}]
  /\ subject \in [Person -> UserId \cup {NoId}]
  /\ tokenTtl \in [Person -> 0..TokenTtl]
  /\ issue \in [Ticket -> {"none", "storing", "issued", "failed"}]
  /\ asker \in [Ticket -> Person \cup {Nobody}]
  /\ buyer \in [Ticket -> UserId \cup {NoId}]
  /\ stored \in [Ticket -> UserId \cup {NoId}]
  /\ ticketTtl \in [Ticket -> 0..TicketTtl]
  /\ sock \in [Socket -> {"none", "lookup", "accepted", "refused", "unavailable"}]
  /\ shown \in [Socket -> Ticket \cup {NoTicket}]
  /\ user \in [Socket -> UserId \cup {NoId}]

(* One account for a name, though two registrations may both have found it *)
(* free before either inserted.                                            *)
OneAccountPerName ==
  \A u, v \in UserId :
    users[u] # NoUser /\ users[v] # NoUser /\ users[u].name = users[v].name => u = v

(* The answers of a registration are true, and stay so: 201 means that the *)
(* account has the password of this request, whoever else registers the    *)
(* name or fails to; 409 that the name is taken.                           *)
AnswersAreTrue ==
  \A p \in Person :
    /\ reg[p] = "created" =>
         \E u \in UserId : users[u].name = Username[p] /\ users[u].by = p
    /\ reg[p] = "conflict" => Taken(Username[p])

(* A ticket opens one socket: of the handshakes that present it, however   *)
(* they interleave and whatever Redis loses, one at most is let through.   *)
TicketOpensOneSocket ==
  \A s, z \in Socket :
    {sock[s], sock[z]} \subseteq {"lookup", "accepted"} /\ shown[s] = shown[z] => s = z

(* An open socket belongs to the account of the person whose password the  *)
(* chain of token and ticket began with, across registrations of one name, *)
(* expired tokens and tickets asked for under an earlier token.            *)
SocketsBelongToTheirAskers ==
  \A s \in Socket : sock[s] = "accepted" => users[user[s]].by = asker[shown[s]]

(* No account that is switched off gets a socket, however its token and its*)
(* ticket were come by while it was on.                                    *)
DeactivationHolds ==
  [][\A s \in Socket : sock[s] # "accepted" /\ sock'[s] = "accepted" =>
       users[user[s]].active]_vars

(* Every ticket leaves Redis, the ones no client was told of included.     *)
TicketsVanish == \A t \in Ticket : stored[t] # NoId ~> stored[t] = NoId
=============================================================================
