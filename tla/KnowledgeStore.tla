----------------------------- MODULE KnowledgeStore -----------------------------
(***************************************************************************)
(* PolicyStore: policy documents cut into chunks with an id, found by tenant *)
(* and query, and cited as policy@version#seq.  Names, ids and citations are  *)
(* sequences of characters: a name may hold the separators.                   *)
(***************************************************************************)
EXTENDS Naturals, Sequences, FiniteSets, FiniteSetsExt

CONSTANTS DocKey,    \* the <<tenant, policy, version>> documents may have
          Digits,    \* the characters of a number
          Content,   \* documents' texts: sequences of Text
          TopK,
          NoDoc

ASSUME DocKeyAssumption == DocKey \subseteq Seq(STRING) \X Seq(STRING) \X Nat
ASSUME ContentAssumption == Content \subseteq Seq({"refund", "other", "injection"})
ASSUME NoDocAssumption == NoDoc \notin [content : Content, active : BOOLEAN]

Number == {key[3] : key \in DocKey} \cup UNION {DOMAIN content : content \in Content}

\* the characters of a number are no separators, and tell it from another number
ASSUME DigitsAssumption ==
  /\ \A n \in Number : Digits[n] \in Seq(STRING \ {":", "@", "#"})
  /\ \A m, n \in Number : Digits[m] = Digits[n] => m = n

VARIABLES
  docs,      \* <<tenant, policy, version>> -> [content, active]
  chunks,    \* set of [id, tenant, policy, version, seq, text], one for an id
  poisoned,  \* ids a search has excluded for their text
  found      \* the last answer: [tenant, hits]

storeVars == <<docs, chunks, poisoned, found>>

KTenant == {key[1] : key \in DocKey}

Characters(name) == {name[i] : i \in DOMAIN name}

\* what is behind the tenant in an id
Place(key, seq) ==
  key[2] \o (<<":">> \o (Digits[key[3]] \o (<<":">> \o (<<"c">> \o Digits[seq]))))

\* mutant: the tenant is not part of the id
ChunkIdShared(key, seq) == Place(key, seq)

\* a chunk's id, from its document's key and its place
ChunkId(key, seq) == key[1] \o (<<":">> \o Place(key, seq))

Chunk(key, content, seq) ==
  [id |-> ChunkId(key, seq), tenant |-> key[1], policy |-> key[2], version |-> key[3],
   seq |-> seq, text |-> content[seq]]

Cut(key, content) == {Chunk(key, content, seq) : seq \in DOMAIN content}

\* register: once; the same again changes nothing, other contents are refused
Register(key, doc) ==
  /\ docs[key] = NoDoc
  /\ docs' = [docs EXCEPT ![key] = doc]
  /\ LET new == IF doc.active THEN Cut(key, doc.content) ELSE {} IN
     chunks' = {c \in chunks : c.id \notin {n.id : n \in new}} \cup new
  /\ UNCHANGED <<poisoned, found>>

\* the index of words knows ids only: also those of a chunk whose id another one took
Indexed(id) ==
  \E key \in DocKey :
    /\ docs[key] # NoDoc /\ docs[key].active
    /\ \E seq \in DOMAIN docs[key].content :
         ChunkId(key, seq) = id /\ docs[key].content[seq] # "other"

\* what a query for refunds matches: in the tenant, by word or by vector
Matching(tenant) == {c \in chunks : c.tenant = tenant /\ Indexed(c.id)}
Excluded(c) == c.text = "injection"

\* search: the best TopK of what is left; the ranking is left open, and so is how many
\* excluded ones it passes before it has enough
Search(tenant) ==
  LET matching == Matching(tenant)
      clean == {c \in matching : ~Excluded(c)}
      bad == matching \ clean
  IN \E hits \in SUBSET clean :
       /\ Cardinality(hits) = Min({TopK, Cardinality(clean)})
       /\ \E passed \in IF Cardinality(hits) < TopK THEN {bad} ELSE SUBSET bad :
            poisoned' = poisoned \cup {c.id : c \in passed}
       /\ found' = [tenant |-> tenant, hits |-> hits]
       /\ UNCHANGED <<docs, chunks>>

\* a query with an injected text raises; one without a token finds nothing
SearchNothing(tenant) ==
  /\ found' = [tenant |-> tenant, hits |-> {}]
  /\ UNCHANGED <<docs, chunks, poisoned>>

Citation(policy, version, seq) ==
  policy \o (<<"@">> \o (Digits[version] \o (<<"#">> \o Digits[seq])))

\* validate_citation: the chunks a text stands for, none when it is refused.  What is
\* before the first "@" is the policy, before the next "#" the version.
ValidateCitation(tenant, text) ==
  {c \in chunks :
     \E key \in DocKey, seq \in Number :
       /\ key[1] = tenant /\ "@" \notin Characters(key[2])
       /\ text = Citation(key[2], key[3], seq)
       /\ docs[key] # NoDoc /\ docs[key].active
       /\ c.id = ChunkId(key, seq)}

StoreInit ==
  /\ docs = [key \in DocKey |-> NoDoc]
  /\ chunks = {} /\ poisoned = {}
  /\ found = [tenant |-> CHOOSE t \in KTenant : TRUE, hits |-> {}]

StoreNext ==
  \/ \E key \in DocKey, content \in Content, active \in BOOLEAN :
       Register(key, [content |-> content, active |-> active])
  \/ \E tenant \in KTenant : Search(tenant) \/ SearchNothing(tenant)

StoreSpec == StoreInit /\ [][StoreNext]_storeVars

-----------------------------------------------------------------------------
(* Properties *)

\* No separator in the names of a document.  With colons in one's tenant and another's
\* policy, two documents may share the ids of their chunks, and the one registered later
\* takes the other's place; a policy with an "@" cannot be cited.
Plain(tenant, policy) ==
  ":" \notin Characters(tenant) /\ ":" \notin Characters(policy) /\ "@" \notin Characters(policy)

\* search, validate_citation, register: what a tenant was ever answered from a document
\* whose names are plain is and stays citable by it, as the very text of this document,
\* which is active and has no injected instruction; whatever is registered later, under
\* any names, in this tenant or another, and in any version.
FoundStaysCitable ==
  \A c \in found.hits :
    /\ c.tenant = found.tenant /\ c.text # "injection"
    /\ Plain(c.tenant, c.policy) =>
         /\ ValidateCitation(found.tenant, Citation(c.policy, c.version, c.seq)) = {c}
         /\ docs[<<c.tenant, c.policy, c.version>>].content[c.seq] = c.text
=============================================================================
