----------------------------- MODULE DurableStore -----------------------------
(***************************************************************************)
(* What srrdb promises of the tables of a database across crashes: a       *)
(* statement takes effect at one instant, whole or not at all, and nothing *)
(* but a statement changes what a restart would find.                      *)
(*                                                                         *)
(* A table is the set of its rows: neither row ids nor how often a row is  *)
(* there are part of this promise.                                         *)
(***************************************************************************)
EXTENDS Storage

CONSTANTS
  Menu,          \* the statements that may be issued
  InitContent    \* the tables at the start

VARIABLE content \* the rows of each table that exists

Issued(op, t) == {st \in Menu : st.op = op /\ st.tbl = t}

Create(t) == /\ Issued("create_table", t) # {}
             /\ t \notin DOMAIN content
             /\ content' = put(content, t, {})

Drop(t) == /\ Issued("drop_table", t) # {}
           /\ t \in DOMAIN content
           /\ content' = [u \in DOMAIN content \ {t} |-> content[u]]

\* The row is what the statement gives, with its NULLs replaced or not.
completes(row, given) == \A c \in Columns : given[c] # Null => row[c] = given[c]

\* Every row given is there afterwards, and no row that was not given is new.
Insert(t) ==
  \E st \in Issued("insert", t) :
    LET new == content'[t]
    IN  /\ content' = [content EXCEPT ![t] = new]
        /\ content[t] \subseteq new
        /\ \A i \in DOMAIN st.rows : \E r \in new : completes(r, st.rows[i])
        /\ \A r \in new \ content[t] :
             \E i \in DOMAIN st.rows : completes(r, st.rows[i])

Delete(t) ==
  \E st \in Issued("delete", t) :
    content' = [content EXCEPT ![t] = {r \in @ : ~matches(r, st.sel)}]

Update(t) ==
  \E st \in Issued("update", t) :
    content' = [content EXCEPT ![t] =
                  {IF matches(r, st.sel) THEN assign(r, st.set) ELSE r : r \in @}]

Init == content = InitContent

Next == \/ \E t \in Tables : Create(t) \/ Drop(t)
        \/ \E t \in DOMAIN content : Insert(t) \/ Delete(t) \/ Update(t)

Spec == Init /\ [][Next]_content
=============================================================================
