-------------------------- MODULE InventoryQueries --------------------------
(***************************************************************************)
(* How the inventory is asked: what a query means once it is parsed and    *)
(* turned into SQL, whose comparisons with NULL are neither true nor       *)
(* false; what a client that follows page cursors is given while rows come *)
(* and go between its requests; and what an export of many batches holds.  *)
(* A comparison of a text column, whose NULL the code reads as the empty   *)
(* text, is an equation: prefixes and substrings differ from it in nothing *)
(* the properties tell apart.                                              *)
(***************************************************************************)
EXTENDS Naturals, FiniteSets, Sequences, SequencesExt, OrderedRows

CONSTANTS
    Atoms,        \* field comparisons a query may name
    BadQuery,     \* the query is refused
    MaxTokens,    \* tokens of a query
    MaxClauses,   \* MAX_INVENTORY_QUERY_CLAUSES
    ProviderNames,
    Unset,        \* NULL
    Keysets,      \* cursors: the direction, "asc" or "desc", of each column
    RowTimes,     \* the rows of a table: row number n is the tuple <<RowTimes[n], n>>
    PageLimits,   \* page and batch sizes
    Reads         \* requests between which the table changes

ASSUME InventoryAssumption ==
    /\ MaxTokens \in Nat /\ MaxClauses \in Nat /\ Reads \in Nat \ {0}
    /\ Unset \notin ProviderNames
    /\ BadQuery \notin Seq(Seq([atom : Atoms, negated : BOOLEAN]))
    /\ Keysets \subseteq Seq({"asc", "desc"}) /\ \A dirs \in Keysets : Len(dirs) \in 1..2
    /\ RowTimes \in Seq(Nat)
    /\ PageLimits \subseteq Nat \ {0}

\* ------------------------------------------------------------------ the query

\* A token is a word, or a comparison whose sign is that of its own marks ("!", "!=", "!~").
Clauses == [word : {"clause"}, atom : Atoms, negated : BOOLEAN]
Word(w) == [word |-> w]
Tokens  == {Word("AND"), Word("OR"), Word("NOT")} \cup Clauses
Queries == UNION {[1..n -> Tokens] : n \in 0..MaxTokens}

\* Mutant of Joined: OR stays in force until another connective is named.
JoinedSticky(conn, token) == IF token.word \in {"AND", "OR"} THEN token.word ELSE conn
\* The connective that joins the next clause: one that is not named is AND.
Joined(conn, token) == IF token.word \in {"AND", "OR"} THEN token.word ELSE "AND"

\* The alternatives read so far, and what is expected next: a clause, a connective, or
\* nothing any more because the query is refused.
NothingParsed == [groups |-> <<>>, conn |-> "AND", not |-> FALSE, expect |-> "clause", count |-> 0]

\* A clause joined by AND belongs to the last alternative.
Added(groups, conn, clause) ==
    IF groups = <<>> THEN <<<<clause>>>>
    ELSE IF conn = "AND" THEN [groups EXCEPT ![Len(groups)] = Append(@, clause)]
    ELSE Append(groups, <<clause>>)

\* One turn of the parser's loop.  Without a connective the token is read as the next clause.
ReadToken(p, token) ==
    LET conn == IF p.expect = "connective" THEN Joined(p.conn, token) ELSE p.conn IN
    CASE p.expect = "error" -> p
      [] p.expect = "connective" /\ token.word \in {"AND", "OR"} ->
            [p EXCEPT !.conn = conn, !.expect = "clause"]
      [] p.expect # "error" /\ token.word = "NOT" /\ ~p.not ->
            [p EXCEPT !.conn = conn, !.not = TRUE, !.expect = "clause"]
      [] p.expect # "error" /\ token.word = "clause" /\ p.count < MaxClauses ->
            [groups |-> Added(p.groups, conn,
                              [atom |-> token.atom, negated |-> (token.negated # p.not)]),
             conn |-> conn, not |-> FALSE, expect |-> "connective", count |-> p.count + 1]
      [] OTHER -> [p EXCEPT !.expect = "error"]

\* parse_inventory_query: alternatives of clauses that must hold together.
Parse(tokens) ==
    LET parsed[n \in 0..Len(tokens)] ==
            IF n = 0 THEN NothingParsed ELSE ReadToken(parsed[n - 1], tokens[n])
        end == parsed[Len(tokens)]
    IN  IF tokens = <<>> THEN <<>>
        ELSE IF end.expect = "connective" THEN end.groups ELSE BadQuery

\* ------------------------------------------------- conditions, as SQL has them

Sql == {"true", "false", "null"}
Is(b) == IF b THEN "true" ELSE "false"
Not(a) == CASE a = "true" -> "false" [] a = "false" -> "true" [] OTHER -> "null"
Every(conditions) == IF "false" \in conditions THEN "false"
                   ELSE IF "null" \in conditions THEN "null" ELSE "true"
Some(conditions) == Not(Every({Not(a) : a \in conditions}))
Equals(x, y) == IF Unset \in {x, y} THEN "null" ELSE Is(x = y)
IsUnset(x) == Is(x = Unset)
\* coalesce(columns...)
Coalesce(columns) ==
    IF \A n \in DOMAIN columns : columns[n] = Unset THEN Unset
    ELSE columns[CHOOSE n \in DOMAIN columns :
                    columns[n] # Unset /\ \A m \in 1..n - 1 : columns[m] = Unset]
\* Mutant of Text: the column is compared as it is.
TextUnread(x, y) == Equals(x, y)
\* _string_match_expression: NULL is the empty text, which no value equals.
Text(x, y) == Is(x = y)

\* _apply_inventory_query_groups: Condition gives each clause its SQL.
Selected(groups, Condition(_)) ==
    \/ groups = <<>>
    \/ Some({Every({IF groups[n][m].negated THEN Not(Condition(groups[n][m].atom))
                 ELSE Condition(groups[n][m].atom) : m \in DOMAIN groups[n]}) :
               n \in DOMAIN groups}) = "true"

\* A row and the providers it and its parents name; "type" is what its resource's type says.
MaybeProvider == ProviderNames \cup {Unset}
ResourceRows  == [resource : MaybeProvider, endpoint : MaybeProvider, type : MaybeProvider]
ItemRows      == [item : MaybeProvider, resource : MaybeProvider, endpoint : MaybeProvider,
                  type : MaybeProvider]
EndpointRows  == [endpoint : MaybeProvider,
                  children : SUBSET [resource : MaybeProvider, type : MaybeProvider]]

\* _resource_provider_expression, _item_provider_expression and, for an endpoint, what
\* the export shows.
ResourceShown(r) == Coalesce(<<r.resource, r.endpoint, r.type>>)
ItemShown(i)     == Coalesce(<<i.item, i.resource, i.endpoint, i.type>>)
ChildShown(c)    == Coalesce(<<c.resource, c.type>>)
EndpointShown(e) ==
    LET shown == {ChildShown(c) : c \in e.children} \ {Unset} IN
    Coalesce(<<e.endpoint, IF Cardinality(shown) = 1 THEN CHOOSE p \in shown : TRUE ELSE Unset>>)

\* _resource_provider_equals_expression
ResourceProvider(r, p) ==
    Some({Equals(r.resource, p),
         Every({IsUnset(r.resource), Equals(r.endpoint, p)}),
         Every({IsUnset(r.resource), IsUnset(r.endpoint), Equals(r.type, p)})})
ChildProvider(c, p) ==
    Some({Equals(c.resource, p), Every({IsUnset(c.resource), Equals(c.type, p)})})
\* Mutant of ItemProvider: the endpoint's provider counts although the resource names one.
ItemProviderLoose(i, p) ==
    Some({Equals(i.item, p),
         Every({IsUnset(i.item), Equals(i.resource, p)}),
         Every({IsUnset(i.item), Equals(i.endpoint, p)}),
         Every({IsUnset(i.item), IsUnset(i.resource), IsUnset(i.endpoint), Equals(i.type, p)})})
\* _item_provider_equals_expression
ItemProvider(i, p) ==
    Some({Equals(i.item, p),
         Every({IsUnset(i.item), Equals(i.resource, p)}),
         Every({IsUnset(i.item), IsUnset(i.resource), Equals(i.endpoint, p)}),
         Every({IsUnset(i.item), IsUnset(i.resource), IsUnset(i.endpoint), Equals(i.type, p)})})
\* The endpoint's own provider, or that of any of its resources.
EndpointProvider(e, p) ==
    Some({Equals(e.endpoint, p), Is(\E c \in e.children : ChildProvider(c, p) = "true")})

\* A clause on columns of the row and its parents, and one on the live items below it.
TextClause(columns, v) == Some({Text(columns[n], v) : n \in DOMAIN columns})
Live(children) == {c \in children : ~c.deleted}
ItemsClause(children, v) == Is(\E c \in Live(children) : Text(c.value, v) = "true")

\* _item_inventory_clause_expression, _resource_inventory_clause_expression and
\* _endpoint_inventory_clause_expression: how each of a row's fields is asked.
ItemClause(field, entry, v) ==
    IF field = "provider" THEN ItemProvider(entry, v) ELSE TextClause(entry.columns, v)
ResourceClause(field, entry, v) ==
    CASE field = "provider" -> ResourceProvider(entry, v)
      [] field = "items"    -> ItemsClause(entry.children, v)
      [] OTHER              -> TextClause(entry.columns, v)
EndpointClause(field, entry, v) ==
    CASE field = "provider"  -> EndpointProvider(entry, v)
      [] field = "resources" -> Is(\E n \in DOMAIN entry.columns : Text(entry.columns[n], v) = "true")
      [] field = "items"     -> ItemsClause(entry.children, v)
      [] OTHER               -> TextClause(entry.columns, v)

\* What the worker stores: a resource and an item name the provider of their type
\* (_normalize_provider), an endpoint of the network collector may name none.
StoredResource(r) == r.type # Unset /\ r.resource = r.type
StoredItem(i)     == StoredResource([resource |-> i.resource, type |-> i.type]) /\ i.item = i.type
StoredEndpoint(e) == \A c \in e.children : StoredResource(c)

\* ------------------------------------------------------------------ the pages

RowTuple(n) == <<RowTimes[n], n>>
Tables == SUBSET (1..Len(RowTimes))
\* The values of a row in a cursor's columns: the time comes first when there are two.
Columns(dirs, n) == IF Len(dirs) = 2 THEN RowTuple(n) ELSE <<n>>

\* Mutant of Beyond: rows equal in the first column are not told apart by the second.
BeyondFirst(dirs, n, m) ==
    LET x == Columns(dirs, n)
        y == Columns(dirs, m)
    IN  IF dirs[1] = "asc" THEN x[1] > y[1] ELSE x[1] < y[1]
\* build_keyset_filter: row n comes after the cursor of row m.
Beyond(dirs, n, m) ==
    LET x == Columns(dirs, n)
        y == Columns(dirs, m)
    IN  \E c \in DOMAIN dirs :
           /\ \A b \in 1..c - 1 : x[b] = y[b]
           /\ IF dirs[c] = "asc" THEN x[c] > y[c] ELSE x[c] < y[c]
Beginning == 0
\* _order_by_clauses: row n is listed before row m, column by column.
Comes(x, y, direction) == IF direction = "asc" THEN x < y ELSE x > y
Before(dirs, n, m) ==
    LET x == Columns(dirs, n)
        y == Columns(dirs, m)
    IN  \/ Comes(x[1], y[1], dirs[1])
        \/ Len(dirs) = 2 /\ x[1] = y[1] /\ Comes(x[2], y[2], dirs[2])
InOrder(dirs, found) == Ordered(found, {p \in found \X found : Before(dirs, p[1], p[2])})

FirstRows(found, limit) == SubSeq(found, 1, Min({limit, Len(found)}))
Fetch(dirs, table, cursor, limit) ==
    FirstRows(InOrder(dirs, {n \in table : cursor = Beginning \/ Beyond(dirs, n, cursor)}), limit)

\* Mutant of Page: the cursor is the row fetched to see whether there is another page.
PageFromNext(found, limit) ==
    IF Len(found) <= limit THEN [rows |-> found, next |-> Beginning]
    ELSE [rows |-> SubSeq(found, 1, limit), next |-> found[limit + 1]]
\* paginate_rows, of the rows apply_keyset_pagination fetched, one more than a page has.
Page(found, limit) ==
    IF Len(found) <= limit THEN [rows |-> found, next |-> Beginning]
    ELSE [rows |-> SubSeq(found, 1, limit), next |-> found[limit]]

\* The table as each of a client's requests finds it; it stays as the last one found it.
Histories == [1..Reads -> Tables]
Seen(history, n) == history[Min({n, Reads})]
\* A listing never needs more requests than there are rows, and one.
MaxRequestsOf == Len(RowTimes) + 1

\* What a client holds after so many requests, each with the cursor the one before it gave.
Listing(dirs, history, limit) ==
    LET after[n \in 0..MaxRequestsOf] ==
            IF n = 0 THEN [rows |-> <<>>, next |-> Beginning, more |-> TRUE]
            ELSE LET past == after[n - 1] IN
                 IF ~past.more THEN past
                 ELSE LET page == Page(Fetch(dirs, Seen(history, n), past.next, limit + 1), limit) IN
                      [rows |-> past.rows \o page.rows, next |-> page.next,
                       more |-> page.next # Beginning]
    IN  after[MaxRequestsOf]

\* Mutant of ExportBatch: the last row of a batch is the first of the next one.
ExportBatchInclusive(table, mark, after, size) ==
    Fetch(<<"desc">>, {n \in table : n <= mark}, after + 1, size)
\* _inventory_export_batch, after the first: rows up to the mark and below the last one.
ExportBatch(table, mark, after, size) ==
    Fetch(<<"desc">>, {n \in table : n <= mark}, after, size)

\* export_inventory_csv and _inventory_csv_stream: the first batch sets the mark, and a
\* batch that is not full is the last.
Export(history, size) ==
    LET first == Fetch(<<"desc">>, Seen(history, 1), Beginning, size)
        mark  == IF first = <<>> THEN 0 ELSE first[1]
        after[n \in 0..MaxRequestsOf] ==
            IF n = 0 THEN [rows |-> first, more |-> Len(first) = size]
            ELSE LET past == after[n - 1] IN
                 IF ~past.more THEN past
                 ELSE LET batch == ExportBatch(Seen(history, n + 1), mark, Last(past.rows), size) IN
                      [rows |-> past.rows \o batch, more |-> Len(batch) = size]
        end == after[MaxRequestsOf]
    IN  [mark |-> mark, rows |-> end.rows, more |-> end.more]

-----------------------------------------------------------------------------

\* The grammar a reader of a query has in mind: alternatives between ORs, in each of them
\* clauses with or without AND between them, each clause with at most one NOT before it.
Alternative(tokens) ==
    /\ tokens # <<>> /\ tokens[Len(tokens)].word = "clause" /\ tokens[1].word # "AND"
    /\ \A n \in DOMAIN tokens :
          /\ tokens[n].word = "NOT" => tokens[n + 1].word = "clause"
          /\ tokens[n].word = "AND" => tokens[n + 1].word # "AND"
\* The alternatives of a query, as the intervals between its ORs.
Between(tokens) ==
    LET ors == {0, Len(tokens) + 1} \cup {n \in DOMAIN tokens : tokens[n].word = "OR"} IN
    {SubSeq(tokens, p[1] + 1, p[2] - 1) : p \in
        {q \in ors \X ors : q[1] < q[2] /\ ~\E k \in ors : q[1] < k /\ k < q[2]}}
ClauseCount(tokens) == Cardinality({n \in DOMAIN tokens : tokens[n].word = "clause"})
WellFormed(tokens) == \A part \in Between(tokens) : Alternative(part)
Holds(part, Truth) ==
    \A n \in DOMAIN part : part[n].word = "clause" =>
        ((part[n].atom \in Truth) = (part[n].negated = (n > 1 /\ part[n - 1].word = "NOT")))

\* A query means what it reads: it is refused exactly when it is not of that grammar or
\* names too many clauses, and selects a row exactly when the row satisfies every clause of
\* one of its alternatives, whichever connectives are left out and however signs combine.
QueryMeansWhatItReads ==
    \A tokens \in Queries \ {<<>>} :
        LET groups == Parse(tokens) IN
        /\ groups = BadQuery <=> ~WellFormed(tokens) \/ ClauseCount(tokens) > MaxClauses
        /\ groups # BadQuery => \A truth \in SUBSET Atoms :
              LET Condition(atom) == Is(atom \in truth) IN
              Selected(groups, Condition) = (\E part \in Between(tokens) : Holds(part, truth))

\* The provider a query asks for is the provider shown, whichever of a row and its parents
\* names it.  Of the rows the worker stores, NOT selects those the comparison does not,
\* columns that are NULL and rows without children included; only endpoints that name no
\* provider it selects never, because their comparison is NULL.
ClausesSelectComplements ==
    \A p \in ProviderNames :
        /\ \A r \in ResourceRows :
              /\ ResourceClause("provider", r, p) = "true" <=> ResourceShown(r) = p
              /\ StoredResource(r) =>
                    (Not(ResourceClause("provider", r, p)) = "true" <=> ResourceShown(r) # p)
        /\ \A i \in ItemRows :
              /\ ItemClause("provider", i, p) = "true" <=> ItemShown(i) = p
              /\ StoredItem(i) => (Not(ItemClause("provider", i, p)) = "true" <=> ItemShown(i) # p)
        /\ \A e \in EndpointRows :
              /\ EndpointShown(e) = p => EndpointClause("provider", e, p) = "true"
              /\ StoredEndpoint(e) =>
                    (Not(EndpointClause("provider", e, p)) = "true" <=>
                        /\ e.endpoint # Unset
                        /\ p \notin {e.endpoint} \cup {ChildShown(c) : c \in e.children})
        /\ \A entry \in [columns : [1..2 -> MaybeProvider]] :
              LET differs == \A n \in 1..2 : entry.columns[n] # p IN
              /\ Not(ItemClause("text", entry, p)) = "true" <=> differs
              /\ \A field \in {"text", "resources"} :
                    Not(EndpointClause(field, entry, p)) = "true" <=> differs
              /\ Not(ResourceClause("text", entry, p)) = "true" <=> differs
        /\ \A entry \in [children : SUBSET [value : MaybeProvider, deleted : BOOLEAN]] :
              LET differs == \A c \in entry.children : c.deleted \/ c.value # p IN
              /\ Not(ResourceClause("items", entry, p)) = "true" <=> differs
              /\ Not(EndpointClause("items", entry, p)) = "true" <=> differs

\* What a query selects is what it says.
QueriesHold == QueryMeansWhatItReads /\ ClausesSelectComplements

\* A client that follows the cursors of a listing ends, is given no row twice, only rows
\* that were there when it asked, in the listing's order, and is given every row that was
\* there all along, whatever other rows are added and deleted between its requests.
Lasting(history) == {m \in 1..Len(RowTimes) : \A n \in 1..Reads : m \in history[n]}
ListedOnce(dirs, given, history) ==
    /\ ToSet(given) \subseteq UNION {history[n] : n \in 1..Reads}
    /\ \A n \in 2..Len(given) : Beyond(dirs, given[n], given[n - 1])
    /\ Lasting(history) \subseteq ToSet(given)
PagesLoseNothing ==
    \A dirs \in Keysets, history \in Histories, limit \in PageLimits :
        LET listing == Listing(dirs, history, limit) IN
        ~listing.more /\ ListedOnce(dirs, listing.rows, history)

\* An export ends, holds no row twice, no row above the watermark it declares, and every row at
\* or below it that was there all along, whatever is added and deleted while it streams.
ExportedOnce(export, history) ==
    /\ ~export.more
    /\ \A n \in ToSet(export.rows) : n <= export.mark
    /\ \A n \in 2..Len(export.rows) : export.rows[n] < export.rows[n - 1]
    /\ Lasting(history) \subseteq ToSet(export.rows)
ExportIsBounded ==
    \A history \in Histories, size \in PageLimits : ExportedOnce(Export(history, size), history)

\* Whoever reads page by page or batch by batch misses nothing that stays.
ReadersMissNothing == PagesLoseNothing /\ ExportIsBounded
=============================================================================
