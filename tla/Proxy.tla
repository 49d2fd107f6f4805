-------------------------------- MODULE Proxy -------------------------------
(***************************************************************************)
(* Proxy: one connection of a PostgreSQL client, from the constructor's    *)
(* accept on.  The proxy answers the handshake, then reads a query, has    *)
(* the replica execute it, writes the result, and so on for ever.  Bytes   *)
(* are counted, not modelled: what matters is where a message ends.  main  *)
(* does not construct a Proxy; the client and the network are those the    *)
(* class is written for.                                                   *)
(***************************************************************************)
EXTENDS Totals, SequencesExt

CONSTANTS Rests,      (* bytes after the length of a start-up, password or query *)
          Results,    (* what a query may return: name lengths and value lengths *)
          MaxQueries

ASSUME ProxyAssumption ==
    /\ Rests \subseteq Nat /\ \A n \in Rests : n >= 4
    /\ \A res \in Results : res.columns \in Seq(Nat) /\ res.rows \in Seq(Seq(Nat))

VARIABLES sent,      (* the client's messages *)
          arrived,   (* bytes of them that have arrived *)
          consumed,  (* bytes the proxy has read *)
          whole,     (* whether the network delivers messages in one piece *)
          short,     (* history: a read has returned less than was asked for *)
          reading,   (* what the proxy reads next *)
          msglen,
          executed,  (* history: the messages taken for queries *)
          results,   (* history: what the replica returned *)
          written,   (* the proxy's messages *)
          awaits,    (* what the client waits for *)
          taken      (* messages of the proxy it has seen *)

proxyVars == <<sent, arrived, consumed, whole, short, reading, msglen, executed,
               results, written, awaits, taken>>
clientVars == <<sent, awaits, taken>>

(* A message of the client: some have a type first, all a length. *)
Size(m) == (IF m.typed THEN 1 ELSE 0) + 4 + m.rest
Total == TotalOf([j \in DOMAIN sent |-> Size(sent[j])])
StartOf(k) == TotalOf([j \in 1..(k - 1) |-> Size(sent[j])])
LengthAt(k) == StartOf(k) + (IF sent[k].typed THEN 1 ELSE 0)

(* A message of the proxy: its type, the length it states, and the sizes   *)
(* of the pieces written after the type.                                   *)
Message(type, length, pieces) == [type |-> type, length |-> length, pieces |-> pieces]

ProxyInit == /\ sent = <<>> /\ arrived = 0 /\ consumed = 0
             /\ whole \in BOOLEAN
             /\ short = FALSE
             /\ reading = "ssl length" /\ msglen = 0
             /\ executed = <<>> /\ results = <<>> /\ written = <<>>
             /\ awaits = "connected" /\ taken = 0
-----------------------------------------------------------------------------
(* The client and the network.                                             *)

Send(m, next) == /\ sent' = Append(sent, m)
                 /\ awaits' = next

Typed(kind, rest) == [kind |-> kind, typed |-> TRUE, rest |-> rest]
Untyped(kind, rest) == [kind |-> kind, typed |-> FALSE, rest |-> rest]

(* The client takes the next message if it is of the type it waits for. *)
Take(type) == /\ taken < Len(written)
              /\ written[taken + 1].type = type
              /\ taken' = taken + 1

QueriesAsked == Len(SelectSeq(sent, LAMBDA m : m.kind = "query"))

Ask == \/ /\ QueriesAsked < MaxQueries
          /\ \E n \in Rests : Send(Typed("query", n), "T")
       \/ Send(Typed("terminate", 0), "gone")

Client ==
    /\ \/ awaits = "connected" /\ Send(Untyped("ssl", 4), "N") /\ UNCHANGED taken
       \/ awaits = "N" /\ Take("N") /\ \E n \in Rests : Send(Untyped("startup", n), "R")
       \/ awaits = "R" /\ Take("R") /\ \E n \in Rests : Send(Typed("password", n), "ok")
       \/ awaits = "ok" /\ Take("R") /\ awaits' = "Z" /\ UNCHANGED sent
       \/ awaits = "T" /\ Take("T") /\ awaits' = "D" /\ UNCHANGED sent
       \/ awaits = "D" /\ Take("D") /\ UNCHANGED <<awaits, sent>>
       \/ awaits = "D" /\ Take("C") /\ awaits' = "Z" /\ UNCHANGED sent
       \/ awaits = "Z" /\ Take("Z") /\ Ask
    /\ UNCHANGED <<arrived, consumed, whole, short, reading, msglen, executed, results, written>>

Deliver == /\ \E n \in (arrived + 1)..Total : arrived' = n /\ (whole => n = Total)
           /\ UNCHANGED <<clientVars, consumed, whole, short, reading, msglen, executed,
                          results, written>>
-----------------------------------------------------------------------------
(* What the proxy writes.                                                  *)

Notice      == [type |-> "N", length |-> 0, pieces |-> <<>>]
AuthRequest == Message("R", 8, <<4, 4>>)
AuthOk      == Message("R", 8, <<4, 4>>)

(* Mutant: it is told once, before the loop. *)
Nothing == <<>>

ReadyForQuery == <<Message("Z", 5, <<4, 1>>)>>

RowDescriptor(columns) ==
    Message("T", TotalOf([c \in DOMAIN columns |-> columns[c] + 1 + 4 + 2 + 4 + 2 + 4 + 2]) + 6,
            <<4, 2>> \o FlattenSeq([c \in DOMAIN columns |->
                                        <<columns[c], 1, 4, 2, 4, 2, 4, 2>>]))

(* A NULL reads as an empty string. *)
RowData(row) == Message("D", 6 + TotalOf([c \in DOMAIN row |-> 4 + row[c]]),
                        <<4, 2>> \o FlattenSeq([c \in DOMAIN row |-> <<4, row[c]>>]))

Complete == Message("C", 6 + 4 + 1, <<4, 7>>)

(* A query that failed is a result without columns and rows. *)
Answer(res) == <<RowDescriptor(res.columns)>>
               \o [r \in DOMAIN res.rows |-> RowData(res.rows[r])]
               \o <<Complete>>
-----------------------------------------------------------------------------
(* What the proxy reads.  No read is repeated if it returns less than was  *)
(* asked for.                                                              *)

Lengths == {"ssl length", "startup length", "auth length", "length"}

(* Mutant: eight bytes are taken off everywhere, as for the start-up. *)
EightLess == CASE reading \in {"startup rest", "password", "sql"} -> msglen - 8
               [] reading \in {"auth type", "code"}               -> 1
               [] OTHER                                           -> 4

(* How many bytes the next read asks for. *)
Requested == CASE reading = "startup rest"          -> msglen - 8
               [] reading \in {"password", "sql"}   -> msglen - 4
               [] reading \in {"auth type", "code"} -> 1
               [] OTHER                             -> 4

ReadSSL            == <<"ssl length", "ssl code">>
ReadStartupMessage == <<"startup length", "startup version", "startup rest">>
ReadAuth           == <<"auth type", "auth length", "password">>
ReadQuery          == <<"code", "length", "sql">>

Reads == ReadSSL \o ReadStartupMessage \o ReadAuth \o ReadQuery

(* A query that has been read is executed.                                 *)
NextRead == LET place(p) == SelectInSeq(Reads, LAMBDA q : q = p)
            IN [p \in ToSet(Reads) |-> Append(Reads, "execute")[place(p) + 1]]

(* What is written before the next read. *)
Written == CASE reading = "ssl code"     -> <<Notice>>
             [] reading = "startup rest" -> <<AuthRequest>>
             [] reading = "password"     -> <<AuthOk>> \o ReadyForQuery
             [] OTHER               -> <<>>

(* The message that was read from its first byte after the length to its   *)
(* last, as a whole.                                                       *)
QueryRead(got) == {k \in DOMAIN sent : LengthAt(k) + 4 = consumed /\ sent[k].rest = got}

(* A length that is not one, and a query that nobody asked, lead astray:   *)
(* so does the client's good-bye, for the type of a message is not looked  *)
(* at and the loop has no end.                                             *)
Read ==
    /\ reading \in DOMAIN NextRead
    /\ Requested > 0 => consumed < arrived
    /\ LET got  == IF Requested <= arrived - consumed THEN Requested ELSE arrived - consumed
           here == {k \in DOMAIN sent : LengthAt(k) = consumed /\ got = 4}
       IN  /\ consumed' = consumed + got
           /\ short' = (short \/ got < Requested)
           /\ msglen' = IF reading \in Lengths /\ here # {}
                        THEN sent[CHOOSE k \in here : TRUE].rest + 4 ELSE msglen
           /\ CASE reading \in Lengths /\ here = {} -> reading' = "astray" /\ UNCHANGED executed
                [] reading = "sql" ->
                     LET ks == {k \in QueryRead(got) : sent[k].kind = "query"}
                     IN  IF ks = {} THEN reading' = "astray" /\ UNCHANGED executed
                         ELSE /\ reading' = "execute"
                              /\ executed' = Append(executed, CHOOSE k \in ks : TRUE)
                [] OTHER -> reading' = NextRead[reading] /\ UNCHANGED executed
    /\ written' = written \o Written
    /\ UNCHANGED <<clientVars, arrived, whole, results>>

(* The replica executes the query, its result is written, and the client   *)
(* may ask the next.                                                       *)
ProcessQuery ==
    /\ reading = "execute"
    /\ \E res \in Results :
          /\ results' = Append(results, res)
          /\ written' = written \o Answer(res) \o ReadyForQuery
    /\ reading' = "code"
    /\ UNCHANGED <<clientVars, arrived, consumed, whole, short, msglen, executed>>

ProxyNext == Client \/ Deliver \/ Read \/ ProcessQuery

(* The proxy has one thread, which does nothing else, and a query ends;    *)
(* the network delivers.                                                   *)
ProxySpec == /\ ProxyInit /\ [][ProxyNext]_proxyVars
             /\ WF_proxyVars(Client) /\ WF_proxyVars(Deliver) /\ WF_proxyVars(Read) /\ WF_proxyVars(ProcessQuery)
-----------------------------------------------------------------------------
(* The message the proxy is at, and the byte of it a read begins with. *)
Expected == CASE reading \in {"ssl length", "ssl code"}                            -> 1
              [] reading \in {"startup length", "startup version", "startup rest"} -> 2
              [] reading \in {"auth type", "auth length", "password"}              -> 3
              [] OTHER                                                        -> Len(executed) + 4

Offset == CASE reading \in {"ssl length", "startup length", "auth type", "code"} -> 0
            [] reading \in {"auth length", "length"}                             -> 1
            [] reading = "startup rest"                                          -> 8
            [] reading \in {"password", "sql"}                                   -> 5
            [] OTHER                                                        -> 4

(* As long as no read comes back short, proxy and client are in step: each *)
(* read begins at the byte of the client's stream it is meant for, each    *)
(* query is executed once and in the order they were asked, and the        *)
(* lengths the proxy states, computed apart from what it writes, lead the  *)
(* client from message to message (proxy.cpp 38-52, 67-141, 194-243).      *)
InStep ==
    ~ short =>
       /\ reading \in DOMAIN NextRead =>
             Expected <= Len(sent) + 1 /\ consumed = StartOf(Expected) + Offset
       /\ executed = [j \in DOMAIN executed |-> j + 3]
       /\ \A j \in DOMAIN written : written[j].length = TotalOf(written[j].pieces)

(* If messages come in one piece, neither side waits for the other for     *)
(* ever: the client gets a whole answer to every query it asks, and can    *)
(* say good-bye.                                                           *)
EveryQueryAnswered == whole ~> awaits = "gone" /\ Len(results) = QueriesAsked
=============================================================================
