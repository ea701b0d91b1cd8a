---------------------------- MODULE Accounts_proofs ----------------------------
(***************************************************************************)
(* Proofs about Accounts, for any number of persons, names, tickets and    *)
(* sockets, any lifetimes and any set of faults.                           *)
(***************************************************************************)
EXTENDS Accounts, TLAPS

(* A row is nobody's until it is inserted.                                 *)
LEMMA Rows ==
  ASSUME TypeOK, NEW u \in UserId
  PROVE  /\ users[u] = NoUser <=> users[u].by = Nobody
         /\ users[u] = NoUser <=> users[u].name = Nobody
         /\ users[u].active => users[u] # NoUser
BY NamesAssumption DEF TypeOK, User, NoUser

(* A row keeps its name and its password.                                  *)
RowsStay ==
  \A u \in UserId : users[u] # NoUser =>
    users'[u].name = users[u].name /\ users'[u].by = users[u].by

LEMMA NextRowsStay ==
  ASSUME TypeOK, [Next]_vars
  PROVE  RowsStay
<1>1. ASSUME NEW p \in Person, Insert(p) PROVE RowsStay
  BY <1>1 DEF Insert, RowsStay, IsNext, TypeOK
<1>2. ASSUME NEW u \in UserId, Deactivate(u) PROVE RowsStay
  <2> SUFFICES ASSUME NEW v \in UserId, users[v] # NoUser
               PROVE  users'[v].name = users[v].name /\ users'[v].by = users[v].by
    BY DEF RowsStay
  <2>1. users \in [UserId -> User \cup {NoUser}]
    BY DEF TypeOK
  <2>2. users'[v] = IF v = u THEN [users[u] EXCEPT !.active = FALSE] ELSE users[v]
    BY <1>2, <2>1 DEF Deactivate
  <2>3. users[v] \in User
    BY <2>1
  <2> QED BY <2>2, <2>3 DEF User
<1>3. ASSUME UNCHANGED users PROVE RowsStay
  BY <1>3 DEF RowsStay
<1> QED
  BY <1>1, <1>2, <1>3
     DEF Next, Register, Find, InsertConflict, Created, RegisterFails, Login,
         CreateToken, Authenticated, Authorize, Decodes, Store, StoreFails,
         Consume, ConsumeFails, Lookup, Tick, vars, accounts

-----------------------------------------------------------------------------
(* The links of the chain from a registration to a socket.                 *)

Owns(u, p) == users[u].name = Username[p] /\ users[u].by = p

Registered ==
  \A p \in Person :
    /\ reg[p] \in {"refresh", "created"} => \E u \in UserId : Owns(u, p)
    /\ reg[p] = "conflict" => Taken(Username[p])

LoggedIn ==
  \A p \in Person :
    /\ tokenTtl[p] > 0 => subject[p] # NoId
    /\ subject[p] # NoId => users[subject[p]].by = p

Bought ==
  \A t \in Ticket : issue[t] # "none" =>
    /\ asker[t] \in Person /\ buyer[t] \in UserId
    /\ users[buyer[t]].by = asker[t]

Backed ==
  \A t \in Ticket : stored[t] # NoId =>
    issue[t] \in {"issued", "failed"} /\ stored[t] = buyer[t]

Opened ==
  \A s \in Socket : sock[s] \in {"lookup", "accepted"} =>
    /\ shown[s] \in Ticket /\ issue[shown[s]] = "issued"
    /\ user[s] = buyer[shown[s]]
    /\ stored[shown[s]] = NoId

Chain == LoggedIn /\ Bought /\ Backed /\ Opened
IInv == TypeOK /\ Registered /\ Chain /\ OneAccountPerName /\ TicketOpensOneSocket

LEMMA InitInvariant == Init => IInv
<1> SUFFICES ASSUME Init PROVE IInv
  OBVIOUS
<1>1. TypeOK
  BY TtlAssumption DEF Init, TypeOK, InFlight
<1>2. Registered /\ Chain
  BY DEF Init, Registered, Chain, LoggedIn, Bought, Backed, Opened
<1>3. OneAccountPerName /\ TicketOpensOneSocket
  BY DEF Init, OneAccountPerName, TicketOpensOneSocket
<1> QED BY <1>1, <1>2, <1>3 DEF IInv

LEMMA NextTypeOK ==
  ASSUME TypeOK, LoggedIn, [Next]_vars
  PROVE  TypeOK'
<1>1. ASSUME NEW p \in Person, Find(p) PROVE TypeOK'
  BY <1>1 DEF Find, Answer, TypeOK, InFlight, tokens, tickets, sockets
<1>2. ASSUME NEW p \in Person, Insert(p) PROVE TypeOK'
  <2>1. [name |-> Username[p], by |-> p, active |-> TRUE] \in User
    BY NamesAssumption DEF User
  <2>2. users' \in [UserId -> User \cup {NoUser}]
    BY <1>2, <2>1 DEF Insert, TypeOK
  <2>3. reg' \in [Person -> InFlight \cup {"none", "created", "conflict", "error"}]
    BY <1>2 DEF Insert, Answer, TypeOK, InFlight
  <2> QED BY <1>2, <2>2, <2>3 DEF Insert, TypeOK, tokens, tickets, sockets
<1>3. ASSUME NEW p \in Person, InsertConflict(p) \/ Created(p) \/ RegisterFails(p)
      PROVE  TypeOK'
  BY <1>3 DEF InsertConflict, Created, RegisterFails, Answer, TypeOK, InFlight,
              tokens, tickets, sockets
<1>4. ASSUME NEW p \in Person, Login(p) PROVE TypeOK'
  <2>1. /\ subject' \in [Person -> UserId \cup {NoId}]
        /\ tokenTtl' \in [Person -> 0..TokenTtl]
    BY <1>4, TtlAssumption DEF Login, CreateToken, Authenticated, TypeOK
  <2> QED BY <1>4, <2>1 DEF Login, CreateToken, Authenticated, TypeOK,
                            accounts, tickets, sockets
<1>5. ASSUME NEW t \in Ticket, NEW p \in Person, Authorize(t, p) PROVE TypeOK'
  BY <1>5 DEF Authorize, Decodes, TypeOK, accounts, tokens, sockets
<1>6. ASSUME NEW t \in Ticket, Store(t) \/ StoreFails(t) PROVE TypeOK'
  <2>1. Put(t) =>
          /\ stored' \in [Ticket -> UserId \cup {NoId}]
          /\ ticketTtl' \in [Ticket -> 0..TicketTtl]
    BY TtlAssumption DEF Put, TypeOK
  <2>2. /\ stored' \in [Ticket -> UserId \cup {NoId}]
        /\ ticketTtl' \in [Ticket -> 0..TicketTtl]
    BY <1>6, <2>1 DEF Store, StoreFails, TypeOK
  <2>3. issue' \in [Ticket -> {"none", "storing", "issued", "failed"}]
    BY <1>6 DEF Store, StoreFails, TypeOK
  <2> QED
    BY <1>6, <2>2, <2>3 DEF Store, StoreFails, TypeOK, accounts, tokens, sockets
<1>7. ASSUME NEW s \in Socket, NEW t \in Ticket, Consume(s, t) \/ ConsumeFails(s, t)
      PROVE  TypeOK'
  <2>1. GetDel(t) =>
          /\ stored' \in [Ticket -> UserId \cup {NoId}]
          /\ ticketTtl' \in [Ticket -> 0..TicketTtl]
    BY TtlAssumption DEF GetDel, TypeOK
  <2>2. /\ stored' \in [Ticket -> UserId \cup {NoId}]
        /\ ticketTtl' \in [Ticket -> 0..TicketTtl]
    BY <1>7, <2>1 DEF Consume, ConsumeFails, TypeOK
  <2>3. /\ sock' \in [Socket -> {"none", "lookup", "accepted", "refused", "unavailable"}]
        /\ shown' \in [Socket -> Ticket \cup {NoTicket}]
        /\ user' \in [Socket -> UserId \cup {NoId}]
    BY <1>7 DEF Consume, ConsumeFails, Present, TypeOK
  <2> QED
    BY <1>7, <2>2, <2>3 DEF Consume, ConsumeFails, TypeOK, accounts, tokens
<1>8. ASSUME NEW s \in Socket, Lookup(s) PROVE TypeOK'
  BY <1>8 DEF Lookup, TypeOK, accounts, tokens, tickets
<1>9. ASSUME NEW u \in UserId, Deactivate(u) PROVE TypeOK'
  <2>1. users[u] \in User
    BY <1>9, Rows DEF Deactivate, TypeOK
  <2>2. [users[u] EXCEPT !.active = FALSE] \in User
    BY <2>1 DEF User
  <2>3. users' \in [UserId -> User \cup {NoUser}]
    BY <1>9, <2>2 DEF Deactivate, TypeOK
  <2> QED BY <1>9, <2>3 DEF Deactivate, TypeOK, tokens, tickets, sockets
<1>10. ASSUME Tick PROVE TypeOK'
  <2>1. /\ tokenTtl' \in [Person -> 0..TokenTtl]
        /\ ticketTtl' \in [Ticket -> 0..TicketTtl]
    BY <1>10, TtlAssumption DEF Tick, TypeOK, Less
  <2>2. stored' \in [Ticket -> UserId \cup {NoId}]
    BY <1>10 DEF Tick, TypeOK
  <2> QED BY <1>10, <2>1, <2>2 DEF Tick, TypeOK, accounts, sockets
<1>11. ASSUME UNCHANGED vars PROVE TypeOK'
  BY <1>11 DEF vars, TypeOK
<1> QED
  BY <1>1, <1>2, <1>3, <1>4, <1>5, <1>6, <1>7, <1>8, <1>9, <1>10, <1>11
     DEF Next, Register

-----------------------------------------------------------------------------
(* Registrations.                                                          *)

LEMMA NextRegistered ==
  ASSUME TypeOK, Registered, [Next]_vars
  PROVE  Registered'
<1>0. RowsStay
  BY NextRowsStay
<1>1. \A n \in Name : Taken(n) => Taken(n)'
  <2> SUFFICES ASSUME NEW n \in Name, NEW u \in UserId, users[u].name = n
               PROVE  users'[u].name = n
    BY DEF Taken
  <2>1. users[u] # NoUser
    BY Rows, NamesAssumption
  <2> QED BY <1>0, <2>1 DEF RowsStay
<1>2. \A p \in Person, u \in UserId : Owns(u, p) => Owns(u, p)'
  <2> SUFFICES ASSUME NEW p \in Person, NEW u \in UserId, Owns(u, p) PROVE Owns(u, p)'
    OBVIOUS
  <2>1. users[u] # NoUser
    BY Rows, NamesAssumption DEF Owns
  <2> QED BY <1>0, <2>1 DEF RowsStay, Owns
<1> SUFFICES ASSUME NEW p \in Person
             PROVE  /\ reg'[p] \in {"refresh", "created"} => \E u \in UserId : Owns(u, p)'
                    /\ reg'[p] = "conflict" => Taken(Username[p])'
  BY DEF Registered
<1>3. Username[p] \in Name
  BY NamesAssumption
<1>4. CASE reg'[p] = reg[p]
  BY <1>1, <1>2, <1>3, <1>4 DEF Registered
<1>5. ASSUME NEW q \in Person, Register(q), reg'[p] # reg[p]
      PROVE  /\ reg'[p] \in {"refresh", "created"} => \E u \in UserId : Owns(u, p)'
             /\ reg'[p] = "conflict" => Taken(Username[p])'
  <2>1. p = q
    BY <1>5 DEF Register, Find, Insert, InsertConflict, Created, RegisterFails,
                Answer, TypeOK
  <2>2. CASE Find(q)
    BY <1>1, <1>3, <2>1, <2>2 DEF Find, Answer, TypeOK
  <2>3. CASE Insert(q)
    <3>1. PICK u \in UserId :
            users' = [users EXCEPT ![u] =
                        [name |-> Username[p], by |-> p, active |-> TRUE]]
      BY <2>1, <2>3 DEF Insert
    <3>2. Owns(u, p)'
      BY <3>1 DEF Owns, TypeOK
    <3>3. reg'[p] = "refresh"
      BY <2>1, <2>3 DEF Insert, Answer, TypeOK
    <3> QED BY <3>2, <3>3
  <2>4. CASE InsertConflict(q)
    BY <1>1, <1>3, <2>1, <2>4 DEF InsertConflict, Answer, TypeOK
  <2>5. CASE Created(q)
    BY <1>2, <2>1, <2>5 DEF Created, Answer, TypeOK, Registered
  <2>6. CASE RegisterFails(q)
    BY <2>1, <2>6 DEF RegisterFails, Answer, TypeOK
  <2> QED BY <1>5, <2>2, <2>3, <2>4, <2>5, <2>6 DEF Register
<1>6. (\E q \in Person : Register(q)) \/ UNCHANGED reg
  BY DEF Next, Register, Login, CreateToken, Authenticated, Authorize, Decodes,
         Store, StoreFails, Consume, ConsumeFails, Lookup, Deactivate, Tick,
         vars, accounts
<1> QED BY <1>4, <1>5, <1>6

LEMMA NextOneAccount ==
  ASSUME TypeOK, OneAccountPerName, [Next]_vars
  PROVE  OneAccountPerName'
<1> SUFFICES ASSUME NEW u \in UserId, NEW v \in UserId,
                    users'[u] # NoUser, users'[v] # NoUser, users'[u].name = users'[v].name
             PROVE  u = v
  BY DEF OneAccountPerName
<1>1. CASE \E p \in Person : Insert(p)
  <2>1. PICK p \in Person : Insert(p)
    BY <1>1
  <2>2. PICK w \in UserId :
          /\ users[w] = NoUser
          /\ users' = [users EXCEPT ![w] =
                         [name |-> Username[p], by |-> p, active |-> TRUE]]
    BY <2>1 DEF Insert, IsNext
  <2>3. \A x \in UserId : users[x].name # Username[p]
    BY <2>1 DEF Insert, Taken
  <2>4. \A x \in UserId :
          users'[x] = IF x = w THEN [name |-> Username[p], by |-> p, active |-> TRUE]
                      ELSE users[x]
    BY <2>2 DEF TypeOK
  <2> QED BY <2>3, <2>4 DEF OneAccountPerName
<1>2. CASE \E w \in UserId : Deactivate(w)
  <2>1. PICK w \in UserId : Deactivate(w)
    BY <1>2
  <2>2. \A x \in UserId : users'[x] # NoUser => users[x] # NoUser
    <3> SUFFICES ASSUME NEW x \in UserId, users[x] = NoUser PROVE users'[x] = NoUser
      OBVIOUS
    <3>1. x # w
      BY <2>1 DEF Deactivate, NoUser
    <3> QED BY <2>1, <3>1 DEF Deactivate, TypeOK
  <2>3. users'[u].name = users[u].name /\ users'[v].name = users[v].name
    BY <2>2, NextRowsStay DEF RowsStay
  <2> QED BY <2>2, <2>3 DEF OneAccountPerName
<1>3. CASE UNCHANGED users
  BY <1>3 DEF OneAccountPerName
<1> QED
  BY <1>1, <1>2, <1>3
     DEF Next, Register, Find, InsertConflict, Created, RegisterFails, Login,
         CreateToken, Authenticated, Authorize, Decodes, Store, StoreFails,
         Consume, ConsumeFails, Lookup, Tick, vars, accounts

-----------------------------------------------------------------------------
(* The chain.                                                              *)

LEMMA NextLoggedIn ==
  ASSUME TypeOK, LoggedIn, [Next]_vars
  PROVE  LoggedIn'
<1> SUFFICES ASSUME NEW p \in Person
             PROVE  /\ tokenTtl'[p] > 0 => subject'[p] # NoId
                    /\ subject'[p] # NoId => users'[subject'[p]].by = p
  BY DEF LoggedIn
<1>1. CASE \E q \in Person : Login(q)
  <2>1. PICK q \in Person : Login(q)
    BY <1>1
  <2>2. CASE p = q
    BY <2>1, <2>2 DEF Login, CreateToken, Authenticated, TypeOK, accounts,
                      UserId, NoId
  <2>3. CASE p # q
    BY <2>1, <2>3 DEF Login, CreateToken, Authenticated, TypeOK, accounts,
                      LoggedIn
  <2> QED BY <2>2, <2>3
<1>2. CASE UNCHANGED subject /\ (Tick \/ UNCHANGED tokenTtl)
  <2>1. tokenTtl'[p] > 0 => tokenTtl[p] > 0
    BY <1>2, TtlAssumption DEF Tick, Less, TypeOK
  <2>2. ASSUME subject[p] # NoId PROVE users'[subject[p]].by = p
    <3>1. subject[p] \in UserId /\ users[subject[p]].by = p
      BY <2>2 DEF LoggedIn, TypeOK
    <3>2. users[subject[p]] # NoUser
      BY <3>1, Rows, NamesAssumption
    <3> QED BY <3>1, <3>2, NextRowsStay DEF RowsStay
  <2> QED BY <1>2, <2>1, <2>2 DEF LoggedIn
<1> QED
  BY <1>1, <1>2
     DEF Next, Register, Find, Insert, InsertConflict, Created, RegisterFails,
         Authorize, Decodes, Store, StoreFails, Consume, ConsumeFails, Lookup,
         Deactivate, Tick, vars, tokens

LEMMA NextBought ==
  ASSUME TypeOK, LoggedIn, Bought, [Next]_vars
  PROVE  Bought'
<1> SUFFICES ASSUME NEW t \in Ticket, issue'[t] # "none"
             PROVE  /\ asker'[t] \in Person /\ buyer'[t] \in UserId
                    /\ users'[buyer'[t]].by = asker'[t]
  BY DEF Bought
<1>1. ASSUME NEW p \in Person, Authorize(t, p)
      PROVE  /\ asker'[t] \in Person /\ buyer'[t] \in UserId
             /\ users'[buyer'[t]].by = asker'[t]
  <2>1. subject[p] \in UserId /\ users[subject[p]].by = p
    BY <1>1 DEF Authorize, Decodes, LoggedIn, TypeOK
  <2>2. asker'[t] = p /\ buyer'[t] = subject[p] /\ users' = users
    BY <1>1 DEF Authorize, Decodes, TypeOK, accounts
  <2> QED BY <2>1, <2>2
<1>2. CASE issue[t] # "none" /\ asker'[t] = asker[t] /\ buyer'[t] = buyer[t]
  <2>1. /\ asker[t] \in Person /\ buyer[t] \in UserId
        /\ users[buyer[t]].by = asker[t]
    BY <1>2 DEF Bought
  <2>2. users[buyer[t]] # NoUser
    BY <2>1, Rows, NamesAssumption
  <2> QED BY <1>2, <2>1, <2>2, NextRowsStay DEF RowsStay
<1>3. ASSUME NEW x \in Ticket, NEW p \in Person, Authorize(x, p), x # t
      PROVE  issue[t] # "none" /\ asker'[t] = asker[t] /\ buyer'[t] = buyer[t]
  BY <1>3 DEF Authorize, Decodes, TypeOK
<1>4. ASSUME NEW x \in Ticket, Store(x) \/ StoreFails(x)
      PROVE  issue[t] # "none" /\ asker'[t] = asker[t] /\ buyer'[t] = buyer[t]
  BY <1>4 DEF Store, StoreFails, TypeOK
<1>5. CASE UNCHANGED <<issue, asker, buyer>>
  BY <1>2, <1>5
<1> QED
  BY <1>1, <1>2, <1>3, <1>4, <1>5
     DEF Next, Register, Find, Insert, InsertConflict, Created, RegisterFails,
         Login, CreateToken, Authenticated, Consume, ConsumeFails, Lookup,
         Deactivate, Tick, vars, tickets

LEMMA NextBacked ==
  ASSUME TypeOK, Backed, [Next]_vars
  PROVE  Backed'
<1> SUFFICES ASSUME NEW t \in Ticket, stored'[t] # NoId
             PROVE  issue'[t] \in {"issued", "failed"} /\ stored'[t] = buyer'[t]
  BY DEF Backed
<1>1. CASE Store(t) \/ StoreFails(t)
  <2>1. issue'[t] \in {"issued", "failed"} /\ buyer' = buyer
    BY <1>1 DEF Store, StoreFails, TypeOK
  <2>2. CASE Put(t)
    BY <2>1, <2>2 DEF Put, TypeOK
  <2>3. CASE UNCHANGED stored
    BY <2>1, <2>3 DEF Backed
  <2> QED BY <1>1, <2>2, <2>3 DEF Store, StoreFails
<1>2. CASE stored'[t] = stored[t] /\ issue'[t] = issue[t] /\ buyer'[t] = buyer[t]
  BY <1>2 DEF Backed
<1>3. ASSUME NEW x \in Ticket, x # t, Store(x) \/ StoreFails(x)
      PROVE  stored'[t] = stored[t] /\ issue'[t] = issue[t] /\ buyer'[t] = buyer[t]
  BY <1>3 DEF Store, StoreFails, Put, TypeOK
<1>4. ASSUME NEW x \in Ticket, NEW p \in Person, Authorize(x, p)
      PROVE  stored'[t] = stored[t] /\ issue'[t] = issue[t] /\ buyer'[t] = buyer[t]
  <2>1. x # t
    BY <1>4 DEF Authorize, Decodes, Backed
  <2> QED BY <1>4, <2>1 DEF Authorize, Decodes, TypeOK
<1>5. ASSUME NEW x \in Ticket, NEW s \in Socket, Consume(s, x) \/ ConsumeFails(s, x)
      PROVE  stored'[t] = stored[t] /\ issue'[t] = issue[t] /\ buyer'[t] = buyer[t]
  BY <1>5 DEF Consume, ConsumeFails, GetDel, TypeOK, NoId
<1>6. CASE Tick
  BY <1>2, <1>6 DEF Tick
<1>7. CASE UNCHANGED <<stored, issue, buyer>>
  BY <1>2, <1>7
<1> QED
  BY <1>1, <1>2, <1>3, <1>4, <1>5, <1>6, <1>7
     DEF Next, Register, Find, Insert, InsertConflict, Created, RegisterFails,
         Login, CreateToken, Authenticated, Lookup, Deactivate, vars, tickets

LEMMA NextOpened ==
  ASSUME TypeOK, Backed, Opened, [Next]_vars
  PROVE  Opened'
<1> DEFINE Open(s) == /\ shown[s] \in Ticket /\ issue[shown[s]] = "issued"
                      /\ user[s] = buyer[shown[s]] /\ stored[shown[s]] = NoId
<1> SUFFICES ASSUME NEW s \in Socket, sock'[s] \in {"lookup", "accepted"}
             PROVE  Open(s)'
  BY DEF Opened
<1>1. ASSUME NEW t \in Ticket, Consume(s, t) PROVE Open(s)'
  BY <1>1 DEF Consume, Present, GetDel, Backed, TypeOK
<1>2. CASE /\ sock[s] \in {"lookup", "accepted"}
           /\ shown'[s] = shown[s] /\ user'[s] = user[s]
  <2>1. Open(s)
    BY <1>2 DEF Opened
  <2>2. shown[s] \in Ticket /\ shown'[s] = shown[s]
    BY <1>2, <2>1
  <2>3. /\ issue'[shown[s]] = issue[shown[s]] /\ buyer'[shown[s]] = buyer[shown[s]]
        /\ stored'[shown[s]] = NoId
    <3>1. ASSUME NEW x \in Ticket, NEW p \in Person, Authorize(x, p) PROVE <2>3
      BY <2>1, <3>1 DEF Authorize, Decodes, TypeOK
    <3>2. ASSUME NEW x \in Ticket, Store(x) \/ StoreFails(x) PROVE <2>3
      <4>1. x # shown[s]
        BY <2>1, <3>2 DEF Store, StoreFails
      <4> QED BY <2>1, <3>2, <4>1 DEF Store, StoreFails, Put, TypeOK
    <3>3. ASSUME NEW x \in Ticket, NEW z \in Socket, Consume(z, x) \/ ConsumeFails(z, x)
          PROVE  <2>3
      BY <2>1, <3>3 DEF Consume, ConsumeFails, GetDel, TypeOK
    <3>4. CASE Tick
      BY <2>1, <3>4 DEF Tick
    <3>5. CASE UNCHANGED <<issue, buyer, stored>>
      BY <2>1, <3>5
    <3> QED
      BY <3>1, <3>2, <3>3, <3>4, <3>5
         DEF Next, Register, Find, Insert, InsertConflict, Created,
             RegisterFails, Login, CreateToken, Authenticated, Lookup,
             Deactivate, vars, tickets
  <2> QED BY <1>2, <2>1, <2>2, <2>3
<1>3. ASSUME NEW z \in Socket, NEW t \in Ticket, Consume(z, t) \/ ConsumeFails(z, t),
             ~ Consume(s, t)
      PROVE  /\ sock[s] \in {"lookup", "accepted"}
             /\ shown'[s] = shown[s] /\ user'[s] = user[s]
  <2>1. z # s
    BY <1>3 DEF ConsumeFails, TypeOK
  <2> QED BY <1>3, <2>1 DEF Consume, ConsumeFails, Present, TypeOK
<1>4. ASSUME NEW z \in Socket, Lookup(z)
      PROVE  /\ sock[s] \in {"lookup", "accepted"}
             /\ shown'[s] = shown[s] /\ user'[s] = user[s]
  BY <1>4 DEF Lookup, TypeOK
<1>5. UNCHANGED sockets =>
        /\ sock[s] \in {"lookup", "accepted"}
        /\ shown'[s] = shown[s] /\ user'[s] = user[s]
  BY DEF sockets
<1>6. \/ UNCHANGED sockets
      \/ \E z \in Socket : Lookup(z)
      \/ \E z \in Socket, t \in Ticket : Consume(z, t) \/ ConsumeFails(z, t)
  BY DEF Next, Register, Find, Insert, InsertConflict, Created, RegisterFails,
         Login, CreateToken, Authenticated, Authorize, Decodes, Store,
         StoreFails, Deactivate, Tick, vars, sockets
<1> QED BY <1>1, <1>2, <1>3, <1>4, <1>5, <1>6

LEMMA NextOnce ==
  ASSUME TypeOK, Opened, TicketOpensOneSocket, [Next]_vars
  PROVE  TicketOpensOneSocket'
<1> DEFINE Through == {"lookup", "accepted"}
<1> SUFFICES ASSUME NEW s \in Socket, NEW z \in Socket,
                    sock'[s] \in Through, sock'[z] \in Through, shown'[s] = shown'[z]
             PROVE  s = z
  BY DEF TicketOpensOneSocket
<1>1. ASSUME NEW x \in Socket, NEW t \in Ticket, Consume(x, t), stored[t] # NoId
      PROVE  s = z
  <2>1. \A y \in Socket : y # x /\ sock[y] \in Through => shown[y] # t
    BY <1>1 DEF Opened
  <2>2. \A y \in Socket : y # x => sock'[y] = sock[y] /\ shown'[y] = shown[y]
    BY <1>1 DEF Consume, Present, TypeOK
  <2>3. shown'[x] = t
    BY <1>1 DEF Consume, Present, TypeOK
  <2> QED BY <2>1, <2>2, <2>3 DEF TicketOpensOneSocket
<1>2. CASE \A y \in Socket : sock'[y] \in Through =>
             sock[y] \in Through /\ shown'[y] = shown[y]
  BY <1>2 DEF TicketOpensOneSocket
<1>3. ASSUME NEW x \in Socket, NEW t \in Ticket,
             ConsumeFails(x, t) \/ (Consume(x, t) /\ stored[t] = NoId),
             NEW y \in Socket, sock'[y] \in Through
      PROVE  sock[y] \in Through /\ shown'[y] = shown[y]
  <2>1. y # x
    BY <1>3 DEF ConsumeFails, Consume, TypeOK
  <2> QED BY <1>3, <2>1 DEF ConsumeFails, Consume, Present, TypeOK
<1>4. ASSUME NEW x \in Socket, Lookup(x), NEW y \in Socket, sock'[y] \in Through
      PROVE  sock[y] \in Through /\ shown'[y] = shown[y]
  BY <1>4 DEF Lookup, TypeOK
<1>5. CASE UNCHANGED sockets
  BY <1>2, <1>5 DEF sockets
<1>6. \/ UNCHANGED sockets
      \/ \E x \in Socket : Lookup(x)
      \/ \E x \in Socket, t \in Ticket : Consume(x, t) \/ ConsumeFails(x, t)
  BY DEF Next, Register, Find, Insert, InsertConflict, Created, RegisterFails,
         Login, CreateToken, Authenticated, Authorize, Decodes, Store,
         StoreFails, Deactivate, Tick, vars, sockets
<1> QED BY <1>1, <1>2, <1>3, <1>4, <1>5, <1>6

-----------------------------------------------------------------------------
(* The theorems.                                                           *)

LEMMA Inductive == IInv /\ [Next]_vars => IInv'
BY NextTypeOK, NextRegistered, NextOneAccount, NextLoggedIn, NextBought, NextBacked,
   NextOpened, NextOnce
   DEF IInv, Chain

LEMMA Invariant == Spec => []IInv
BY InitInvariant, Inductive, PTL DEF Spec

(* Every reachable state has the types stated.                             *)
THEOREM TypeCorrect == Spec => []TypeOK
<1>1. IInv => TypeOK
  BY DEF IInv
<1> QED BY Invariant, <1>1, PTL

(* OneAccountPerName: the registrations of one name leave one account.     *)
THEOREM OneAccount == Spec => []OneAccountPerName
<1>1. IInv => OneAccountPerName
  BY DEF IInv
<1> QED BY Invariant, <1>1, PTL

(* AnswersAreTrue: what a registration answered stays true.                *)
THEOREM TrueAnswers == Spec => []AnswersAreTrue
<1>1. IInv => AnswersAreTrue
  BY DEF IInv, Registered, Owns, AnswersAreTrue
<1> QED BY Invariant, <1>1, PTL

(* TicketOpensOneSocket: a ticket is redeemed at most once.                *)
THEOREM TicketOnce == Spec => []TicketOpensOneSocket
<1>1. IInv => TicketOpensOneSocket
  BY DEF IInv
<1> QED BY Invariant, <1>1, PTL

(* SocketsBelongToTheirAskers: the chain from password to socket holds.    *)
THEOREM SocketOwners == Spec => []SocketsBelongToTheirAskers
<1>1. IInv => SocketsBelongToTheirAskers
  BY DEF IInv, Chain, Bought, Opened, SocketsBelongToTheirAskers
<1> QED BY Invariant, <1>1, PTL

(* DeactivationHolds: an account that is switched off gets no socket.      *)
THEOREM DeactivatedStayOut == Spec => DeactivationHolds
<1>1. ASSUME TypeOK, [Next]_vars, NEW s \in Socket,
             sock[s] # "accepted", sock'[s] = "accepted"
      PROVE  users[user[s]].active
  <2>1. ASSUME NEW z \in Socket, Lookup(z) PROVE users[user[s]].active
    BY <1>1, <2>1 DEF Lookup, TypeOK
  <2>2. ASSUME NEW z \in Socket, NEW t \in Ticket, Consume(z, t) \/ ConsumeFails(z, t)
        PROVE  FALSE
    BY <1>1, <2>2 DEF Consume, ConsumeFails, TypeOK
  <2>3. CASE UNCHANGED sockets
    BY <1>1, <2>3 DEF sockets
  <2> QED
    BY <1>1, <2>1, <2>2, <2>3
       DEF Next, Register, Find, Insert, InsertConflict, Created,
           RegisterFails, Login, CreateToken, Authenticated, Authorize,
           Decodes, Store, StoreFails, Deactivate, Tick, vars, sockets
<1>2. TypeOK /\ [Next]_vars =>
        [\A s \in Socket : sock[s] # "accepted" /\ sock'[s] = "accepted" =>
           users[user[s]].active]_vars
  BY <1>1
<1> QED BY TypeCorrect, <1>2, PTL DEF Spec, DeactivationHolds

-----------------------------------------------------------------------------
(* The life of a ticket in Redis: while it is there it has an expiry that  *)
(* comes no later than its lifetime, ...                                   *)
TicketsExpire ==
  \A t \in Ticket : stored[t] # NoId => ticketTtl[t] \in 1..TicketTtl

(* ... which is never put off; and once its request has sent the SET and   *)
(* the ticket is not there, it is not there again.                         *)
Spent ==
  \A t \in Ticket :
    /\ stored[t] # NoId => ticketTtl'[t] <= ticketTtl[t]
    /\ issue[t] \in {"issued", "failed"} /\ stored[t] = NoId => stored'[t] = NoId

NoTicketRevives == [][Spent]_vars

LEMMA NextTicket ==
  ASSUME IInv, TicketsExpire, [Next]_vars, NEW t \in Ticket
  PROVE  /\ stored'[t] # NoId => ticketTtl'[t] \in 1..TicketTtl
         /\ stored[t] # NoId => ticketTtl'[t] <= ticketTtl[t]
         /\ issue[t] \in {"issued", "failed"} /\ stored[t] = NoId => stored'[t] = NoId
<1> USE TtlAssumption
<1>1. /\ ticketTtl[t] \in 0..TicketTtl
      /\ stored[t] # NoId => ticketTtl[t] \in 1..TicketTtl /\ issue[t] \in {"issued", "failed"}
  BY DEF IInv, Chain, Backed, TypeOK, TicketsExpire
<1>2. ASSUME NEW q \in Ticket, Store(q) \/ StoreFails(q), ~ UNCHANGED <<stored, ticketTtl>>
      PROVE  /\ issue[q] = "storing"
             /\ stored' = [stored EXCEPT ![q] = buyer[q]]
             /\ ticketTtl' = [ticketTtl EXCEPT ![q] = TicketTtl]
  BY <1>2 DEF Store, StoreFails, Put
<1>3. CASE \E q \in Ticket : Store(q) \/ StoreFails(q)
  BY <1>1, <1>2, <1>3 DEF IInv, TypeOK
<1>4. CASE \E s \in Socket, q \in Ticket : Consume(s, q) \/ ConsumeFails(s, q)
  <2>1. PICK s \in Socket, q \in Ticket : Consume(s, q) \/ ConsumeFails(s, q)
    BY <1>4
  <2>2. GetDel(q) \/ UNCHANGED <<stored, ticketTtl>>
    BY <2>1 DEF Consume, ConsumeFails
  <2> QED BY <1>1, <2>2 DEF GetDel, IInv, TypeOK
<1>5. CASE Tick
  BY <1>1, <1>5 DEF Tick, Less
<1>6. CASE UNCHANGED <<stored, ticketTtl>>
  BY <1>1, <1>6
<1> QED
  BY <1>3, <1>4, <1>5, <1>6
     DEF Next, Register, Find, Insert, InsertConflict, Created, RegisterFails, Login,
         Authorize, Lookup, Deactivate, vars, tickets

(* No ticket outlives its lifetime, and a ticket that a handshake consumed *)
(* or Redis expired opens nothing later: no lost reply, retry or failing   *)
(* SET brings it back.                                                     *)
THEOREM TicketsArePerishable == Spec => []TicketsExpire /\ NoTicketRevives
<1>1. Init => TicketsExpire
  BY DEF Init, TicketsExpire
<1>2. IInv /\ TicketsExpire /\ [Next]_vars => TicketsExpire' /\ Spent
  BY NextTicket DEF TicketsExpire, Spent
<1> QED BY <1>1, <1>2, Invariant, PTL DEF Spec, NoTicketRevives
=============================================================================
