------------------------- MODULE DocumentSyncProofs --------------------------
(***************************************************************************)
(* Theorems about DocumentSync, for every value of its constants: any      *)
(* specs, secrets and members, any number of edits, failures, restarts and *)
(* misreads, with the unique index and without it.                         *)
(***************************************************************************)
EXTENDS DocumentSync, SequenceTheorems, TLAPS

-----------------------------------------------------------------------------
(* What the operators of the model return.                                 *)

LEMMA DesiredType == ASSUME NEW obj \in Object PROVE Desired(obj) \in Document
  BY DEF Desired, Object, Document, Contents, Envs

LEMMA MergedType ==
    ASSUME NEW old \in Document, NEW new \in Document PROVE Merged(old, new) \in Document
  BY DEF Merged, Document

\* An updated document has what the object says, and the keys that it had.
LEMMA MergedEffect ==
    ASSUME NEW old \in Document, NEW new \in Document
    PROVE  /\ SaysManaged(Merged(old, new), new)
           /\ Merged(old, new).made = old.made
           /\ Merged(old, new).rules = old.rules \cap new.envs
  BY DEF Merged, SaysManaged, Document

\* A document that may be found equal to the object says what it says.
LEMMA EqualSays ==
    ASSUME NEW old \in Document, NEW new \in Document, MayEqual(old, new)
    PROVE  SaysManaged(old, new)
  BY MergedEffect DEF MayEqual

LEMMA HeadTypes ==
    ASSUME NEW S, NEW s \in Seq(S), s # <<>>
    PROVE  Head(s) \in S /\ Tail(s) \in Seq(S) /\ Len(Tail(s)) = Len(s) - 1
                /\ Len(s) \in Nat /\ Len(s) > 0 /\ Head(s) = s[1]
  BY HeadTailProperties

\* Replacing the first element of a sequence, if there is one.
LEMMA ReplaceFirst ==
    ASSUME NEW S, NEW s \in Seq(S), NEW d \in S
    PROVE  /\ [s EXCEPT ![1] = d] \in Seq(S)
           /\ Len([s EXCEPT ![1] = d]) = Len(s)
           /\ DOMAIN [s EXCEPT ![1] = d] = DOMAIN s
           /\ \A n \in DOMAIN s \ {1} : [s EXCEPT ![1] = d][n] = s[n]
           /\ s # <<>> => /\ [s EXCEPT ![1] = d] # <<>> /\ Head([s EXCEPT ![1] = d]) = d
                          /\ 1 \in DOMAIN s /\ [s EXCEPT ![1] = d][1] = d
  <1> DEFINE t == [s EXCEPT ![1] = d]
  <1>1. Len(s) \in Nat /\ s \in [1 .. Len(s) -> S]
    BY LenProperties
  <1>2. t \in [1 .. Len(s) -> S]
    BY <1>1
  <1>3. t \in Seq(S) /\ Len(t) = Len(s)
    BY <1>1, <1>2
  <1>4. ASSUME s # <<>> PROVE t # <<>> /\ Head(t) = d /\ 1 \in DOMAIN s /\ t[1] = d
    BY <1>1, <1>3, <1>4, HeadTypes
  <1>5. DOMAIN t = DOMAIN s /\ \A n \in DOMAIN s \ {1} : t[n] = s[n]
    OBVIOUS
  <1> QED
    BY <1>3, <1>4, <1>5

-----------------------------------------------------------------------------
(* The type invariant.                                                     *)

LEMMA TypeInit == Init => TypeOK
  <1> SUFFICES ASSUME Init PROVE TypeOK
    OBVIOUS
  <1>1. object \in Object
    BY DEF Init, Fitting, Object
  <1>2. desired \in Document /\ existing \in Document
    BY <1>1, DesiredType DEF Init
  <1>3. payload \in [Envs -> Contents \cup {None}]
    BY DEF Init
  <1>4. col \in Seq(Document)
    BY DEF Init
  <1> QED
    BY <1>1, <1>2, <1>3, <1>4, ConstantsAssumption DEF Init, TypeOK, PC

LEMMA TypeNext == TypeOK /\ [Next]_vars => TypeOK'
  <1> SUFFICES ASSUME TypeOK, [Next]_vars PROVE TypeOK'
    OBVIOUS
  <1> USE ConstantsAssumption DEF setting, dbVars, passVars, faultVars, PC
  <1>1. CASE Begin
    <2>1. Desired(object) \in Document
      BY DesiredType DEF TypeOK
    <2> QED
      BY <1>1, <2>1 DEF Begin, TypeOK
  <1>2. CASE FindOne
    <2>1. ASSUME col # <<>> PROVE Head(col) \in Document
      BY <2>1, HeadTypes DEF TypeOK
    <2> QED
      BY <1>2, <2>1 DEF FindOne, Fault, TypeOK
  <1>3. CASE InsertOne
    <2>1. [desired EXCEPT !.made = nextKey] \in Document
      BY DEF TypeOK, Document
    <2>2. col' \in Seq(Document)
      BY <1>3, <2>1, AppendProperties DEF InsertOne, TypeOK
    <2> QED
      BY <1>3, <2>2 DEF InsertOne, AfterWrite, TypeOK
  <1>4. CASE RefuseInsert
    BY <1>4 DEF RefuseInsert, TypeOK
  <1>5. CASE UpdateOne
    <2>1. Merged(existing, desired) \in Document
      BY MergedType DEF TypeOK
    <2>2. col' \in Seq(Document)
      BY <1>5, <2>1, ReplaceFirst DEF UpdateOne, TypeOK
    <2> QED
      BY <1>5, <2>2 DEF UpdateOne, AfterWrite, TypeOK
  <1>6. CASE ClearPayloadCache
    BY <1>6 DEF ClearPayloadCache, TypeOK
  <1>7. CASE Done
    BY <1>7 DEF Done, TypeOK
  <1>8. CASE DeleteOne
    <2>1. col' \in Seq(Document)
      BY <1>8, HeadTypes DEF DeleteOne, TypeOK
    <2> QED
      BY <1>8, <2>1 DEF DeleteOne, TypeOK
  <1>9. CASE Release
    BY <1>9 DEF Release, TypeOK, Object
  <1>10. CASE Fail
    BY <1>10 DEF Fail, Fault, TypeOK
  <1>11. CASE EditObject
    <2>1. PICK s \in Fitting, x \in Secrets, m \in SUBSET Users :
             object' = [object EXCEPT !.spec = s, !.secret = x, !.members = m]
      BY <1>11 DEF EditObject
    <2>2. object' \in Object
      BY <2>1 DEF TypeOK, Object, Fitting
    <2> QED
      BY <1>11, <2>2 DEF EditObject, UserEdit, TypeOK
  <1>12. CASE DeleteObject
    <2>1. object' \in Object
      BY <1>12 DEF DeleteObject, TypeOK, Object
    <2> QED
      BY <1>12, <2>1 DEF DeleteObject, UserEdit, TypeOK
  <1>13. CASE CreateObject
    BY <1>13 DEF CreateObject, UserEdit, TypeOK, Object
  <1>14. CASE AddRule
    <2>1. PICK e \in Head(col).envs \ Head(col).rules :
             col' = [col EXCEPT ![1].rules = @ \cup {e}]
      BY <1>14 DEF AddRule
    <2>2. Head(col) \in Document /\ Head(col) = col[1]
      BY <1>14, HeadTypes DEF AddRule, TypeOK
    <2>3. [col[1] EXCEPT !.rules = @ \cup {e}] \in Document
      BY <2>1, <2>2 DEF Document, Envs
    <2>4. PICK d \in Document : col' = [col EXCEPT ![1] = d]
      BY <2>1, <2>3
    <2>5. col' \in Seq(Document)
      BY <2>4, ReplaceFirst DEF TypeOK
    <2> QED
      BY <1>14, <2>5 DEF AddRule, UserEdit, TypeOK
  <1>15. CASE Serve
    <2>1. Head(col) \in Document
      BY <1>15, HeadTypes DEF Serve, TypeOK
    <2>2. payload' \in [Envs -> Contents \cup {None}]
      BY <1>15, <2>1 DEF Serve, TypeOK, Document
    <2> QED
      BY <1>15, <2>2 DEF Serve, TypeOK
  <1>16. CASE UNCHANGED vars
    BY <1>16 DEF vars, TypeOK
  <1> QED
    BY <1>1, <1>2, <1>3, <1>4, <1>5, <1>6, <1>7, <1>8, <1>9, <1>10, <1>11, <1>12,
       <1>13, <1>14, <1>15, <1>16 DEF Next, Pass

\* Every variable keeps its type, whatever is written into specs and secrets.
THEOREM DocumentTypeCorrect == Spec => []TypeOK
  BY TypeInit, TypeNext, PTL DEF Spec

-----------------------------------------------------------------------------
(* The inductive invariant.                                                *)

\* A decision to insert is taken on the absence of the document, which lasts until
\* the insert, or on a misread, or is tested by the index.
InsertInv == pc = "insert" /\ ~indexed => Len(col) <= misreads

\* An update is about the document that was read: it still has its keys, though
\* a rule may have been added to it.
UpdateInv == pc = "update" => col # <<>> /\ Head(col).made = existing.made

\* What was written stays written until the pass is over.
WrittenInv == pc \in {"clear", "done"} => Says(desired)

\* A pass is about an object, and prunes only for one that is deleted; it
\* releases the object after its document is gone.
ObjectInv ==
    /\ pc # "idle" => object.status # "absent"
    /\ pc \in {"delete", "release"} => object.status = "deleting"
    /\ pc = "release" => Len(col) <= misreads

\* Without a failure what growthbook has cached for the environment of a client
\* is what the document says, but between the write and the clearing.
CacheInv ==
    faults = 0 /\ kind = "clients" /\ col # <<>> /\ pc # "clear" =>
        \A e \in Head(col).envs : payload[e] \in {None, Head(col).content}

DocumentInv ==
    /\ TypeOK
    /\ OneDocument
    /\ InsertInv /\ UpdateInv /\ WrittenInv /\ ObjectInv /\ CacheInv

LEMMA DocumentInit == Init => DocumentInv
  <1> SUFFICES ASSUME Init PROVE DocumentInv
    OBVIOUS
  <1>1. OneDocument
    BY EmptySeq DEF Init, OneDocument
  <1>2. InsertInv /\ UpdateInv /\ WrittenInv /\ ObjectInv /\ CacheInv
    BY DEF Init, InsertInv, UpdateInv, WrittenInv, ObjectInv, CacheInv
  <1> QED
    BY <1>1, <1>2, TypeInit DEF DocumentInv

\* Without misreads there is one document, and it is the one that says it.
LEMMA OneSays ==
    ASSUME TypeOK, OneDocument, misreads = 0, NEW new, Says(new)
    PROVE  col # <<>> /\ SaysManaged(Head(col), new)
  <1>1. col \in Seq(Document) /\ Len(col) \in Nat /\ Len(col) <= 1 /\ DOMAIN col = 1 .. Len(col)
    BY LenProperties DEF TypeOK, OneDocument
  <1>2. PICK n \in DOMAIN col : SaysManaged(col[n], new)
    BY DEF Says
  <1>3. n = 1 /\ Len(col) = 1
    BY <1>1, <1>2
  <1>4. col # <<>>
    BY <1>1, <1>3, EmptySeq
  <1> QED
    BY <1>1, <1>2, <1>3, <1>4, HeadTypes

\* The first document is one of them.
LEMMA HeadSays ==
    ASSUME TypeOK, col # <<>>, NEW new, SaysManaged(Head(col), new)
    PROVE  Says(new)
  <1>1. col \in Seq(Document) /\ Len(col) \in Nat /\ Len(col) > 0 /\ Head(col) = col[1]
    BY HeadTypes DEF TypeOK
  <1>2. 1 \in DOMAIN col
    BY <1>1, LenProperties
  <1> QED
    BY <1>1, <1>2 DEF Says

LEMMA AtMostOne ==
    ASSUME TypeOK, Len(col) <= 0
    PROVE  col = <<>>
  BY EmptySeq, LenProperties DEF TypeOK

\* What a step does to the documents.
LEMMA DeleteEffect ==
    ASSUME TypeOK, OneDocument, DeleteOne
    PROVE  /\ Len(col') <= misreads
           /\ col # <<>> => Len(col') = Len(col) - 1
  <1>1. CASE col = <<>>
    BY <1>1, EmptySeq DEF DeleteOne, TypeOK
  <1>2. CASE col # <<>>
    <2>1. Len(Tail(col)) = Len(col) - 1 /\ Len(col) \in Nat /\ col' = Tail(col)
      BY <1>2, HeadTypes DEF DeleteOne, TypeOK
    <2> QED
      BY <1>2, <2>1 DEF OneDocument, TypeOK
  <1> QED
    BY <1>1, <1>2

LEMMA InsertEffect ==
    ASSUME TypeOK, InsertInv, InsertOne
    PROVE  /\ Len(col) \in Nat /\ Len(col) <= misreads
           /\ Len(col') = Len(col) + 1 /\ col' # <<>>
           /\ Says(desired)'
           /\ col = <<>> => Head(col') = [desired EXCEPT !.made = nextKey]
           /\ col # <<>> => Head(col') = Head(col)
  <1> DEFINE d == [desired EXCEPT !.made = nextKey]
  <1>1. d \in Document /\ d.content = desired.content /\ d.envs = desired.envs
        /\ d.secret = desired.secret /\ d.members = desired.members
    BY DEF TypeOK, Document
  <1>2. col' = Append(col, d) /\ col \in Seq(Document) /\ Len(col) \in Nat
        /\ desired' = desired /\ kind' = kind
    BY LenProperties DEF InsertOne, TypeOK, setting
  <1> HIDE DEF d
  <1>3. /\ col' \in Seq(Document) /\ Len(col') = Len(col) + 1
        /\ col'[Len(col) + 1] = d
        /\ \A n \in 1 .. Len(col) : col'[n] = col[n]
    BY <1>1, <1>2, AppendProperties
  <1>4. Len(col) <= misreads
    BY EmptySeq DEF InsertOne, InsertInv, TypeOK
  <1>5. col' # <<>> /\ Head(col') = col'[1] /\ DOMAIN col' = 1 .. Len(col')
    BY <1>2, <1>3, EmptySeq, HeadTypes, LenProperties
  <1>7. Says(desired)'
    <2>1. Len(col) + 1 \in DOMAIN col'
      BY <1>2, <1>3, <1>5
    <2>2. SaysManaged(d, desired)
      BY <1>1 DEF SaysManaged
    <2> QED
      BY <1>2, <1>3, <2>1, <2>2 DEF Says, SaysManaged
  <1>8. col = <<>> => Head(col') = d
    BY <1>3, <1>5, EmptySeq
  <1>9. col # <<>> => Head(col') = Head(col)
    BY <1>2, <1>3, <1>5, HeadTypes
  <1> QED
    BY <1>2, <1>3, <1>4, <1>5, <1>7, <1>8, <1>9 DEF d

LEMMA UpdateEffect ==
    ASSUME TypeOK, UpdateInv, UpdateOne
    PROVE  /\ col # <<>> /\ Len(col') = Len(col) /\ col' # <<>>
           /\ Head(col') = Merged(existing, desired)
           /\ Head(col').made = Head(col).made
           /\ Says(desired)'
  <1> DEFINE d == Merged(existing, desired)
  <1>1. col \in Seq(Document) /\ col # <<>> /\ Head(col).made = existing.made
    BY DEF UpdateOne, UpdateInv, TypeOK
  <1>2. d \in Document /\ d.made = existing.made /\ SaysManaged(d, desired)
    BY MergedType, MergedEffect DEF TypeOK
  <1>3. col' = [col EXCEPT ![1] = d] /\ desired' = desired /\ kind' = kind
    BY DEF UpdateOne, setting
  <1> HIDE DEF d
  <1>4. /\ Len(col') = Len(col) /\ col' # <<>> /\ Head(col') = d
        /\ 1 \in DOMAIN col' /\ col'[1] = d
    BY <1>1, <1>2, <1>3, ReplaceFirst
  <1>5. Says(desired)'
    BY <1>2, <1>3, <1>4 DEF Says, SaysManaged
  <1> QED
    BY <1>1, <1>2, <1>4, <1>5 DEF d

\* A rule changes nothing that the object says.
LEMMA AddRuleEffect ==
    ASSUME TypeOK, AddRule
    PROVE  /\ col # <<>> /\ Len(col') = Len(col) /\ col' # <<>>
           /\ \E r \in SUBSET Envs :
                 Head(col).rules \subseteq r /\ Head(col') = [Head(col) EXCEPT !.rules = r]
           /\ Says(desired) => Says(desired)'
  <1>1. PICK e \in Head(col).envs \ Head(col).rules :
           col' = [col EXCEPT ![1].rules = @ \cup {e}]
    BY DEF AddRule
  <1>2. Head(col) \in Document /\ Head(col) = col[1] /\ col # <<>>
    BY HeadTypes DEF AddRule, TypeOK
  <1> DEFINE d == [col[1] EXCEPT !.rules = col[1].rules \cup {e}]
  <1>3. d \in Document /\ d.rules = col[1].rules \cup {e}
    BY <1>1, <1>2 DEF Document, Envs
  <1>4. col' = [col EXCEPT ![1] = d]
    BY <1>1
  <1>5. col \in Seq(Document)
    BY DEF TypeOK
  <1>6. SaysManaged(col[1], desired) => SaysManaged(d, desired)
    BY <1>2 DEF SaysManaged, Document
  <1>7. d = [Head(col) EXCEPT !.rules = d.rules]
    BY <1>2, <1>3
  <1> HIDE DEF d
  <1>8. /\ Len(col') = Len(col) /\ col' # <<>> /\ Head(col') = d
        /\ DOMAIN col' = DOMAIN col /\ col'[1] = d
        /\ \A n \in DOMAIN col \ {1} : col'[n] = col[n]
    BY <1>2, <1>3, <1>4, <1>5, ReplaceFirst
  <1>9. d.rules \in SUBSET Envs /\ Head(col).rules \subseteq d.rules
    BY <1>2, <1>3 DEF Document
  <1>10. ASSUME Says(desired) PROVE Says(desired)'
    <2>1. PICK n \in DOMAIN col : SaysManaged(col[n], desired)
      BY <1>10 DEF Says
    <2>2. SaysManaged(col'[n], desired)
      BY <1>6, <1>8, <2>1
    <2>3. kind' = kind /\ desired' = desired
      BY DEF AddRule, setting, passVars
    <2> QED
      BY <1>8, <2>2, <2>3 DEF Says, SaysManaged
  <1> QED
    BY <1>2, <1>7, <1>8, <1>9, <1>10

\* As long as nothing is misread: the document is inserted where there is none.
LEMMA InsertAlone ==
    ASSUME TypeOK, InsertInv, misreads = 0, InsertOne
    PROVE  /\ col = <<>> /\ col' # <<>>
           /\ Head(col') = [desired EXCEPT !.made = nextKey]
  <1>1. Len(col) <= 0
    BY InsertEffect
  <1>2. col = <<>>
    BY <1>1, AtMostOne
  <1> QED
    BY <1>2, InsertEffect

LEMMA DocumentNext == DocumentInv /\ [Next]_vars => DocumentInv'
  <1> SUFFICES ASSUME DocumentInv, [Next]_vars PROVE DocumentInv'
    OBVIOUS
  <1> USE DEF setting, dbVars, passVars, faultVars
  <1> DEFINE Inv == OneDocument /\ InsertInv /\ UpdateInv /\ WrittenInv /\ ObjectInv /\ CacheInv
  <1>0. TypeOK /\ Inv /\ TypeOK'
    BY TypeNext DEF DocumentInv
  <1>l. Len(col) \in Nat /\ faults \in Nat /\ misreads \in Nat
    BY <1>0, LenProperties DEF TypeOK
  <1> SUFFICES Inv'
    BY <1>0 DEF DocumentInv
  <1> USE <1>0, <1>l DEF OneDocument, InsertInv, UpdateInv, WrittenInv, ObjectInv,
          CacheInv
  <1>1. CASE Begin
    BY <1>1 DEF Begin, TypeOK, Object
  <1>2. CASE FindOne
    <2>1. CASE pc' = "insert" /\ col = <<>>
      BY <1>2, <2>1, EmptySeq DEF FindOne, Fault, TypeOK
    <2>2. CASE pc' = "insert" /\ col # <<>>
      BY <1>2, <2>2 DEF FindOne, Fault, TypeOK
    <2>3. CASE col # <<>> /\ pc' = "update" /\ existing' = Head(col)
      BY <1>2, <2>3 DEF FindOne, Fault, TypeOK
    <2>4. CASE col # <<>> /\ pc' = "done" /\ MayEqual(Head(col), desired)
      <3>1. Says(desired)
        BY <2>4, EqualSays, HeadTypes, HeadSays DEF TypeOK
      <3> QED
        BY <1>2, <2>4, <3>1 DEF FindOne, Fault, TypeOK, Says, SaysManaged
    <2> QED
      BY <1>2, <2>1, <2>2, <2>3, <2>4 DEF FindOne
  <1>3. CASE InsertOne
    <2>1. pc' \in {"clear", "done"} /\ (kind = "clients" => pc' = "clear")
      BY <1>3 DEF InsertOne, AfterWrite
    <2>2. OneDocument' /\ WrittenInv' /\ InsertInv' /\ UpdateInv'
      BY <1>3, <2>1, InsertEffect DEF InsertOne
    <2> QED
      BY <1>3, <2>1, <2>2 DEF InsertOne
  <1>4. CASE RefuseInsert
    BY <1>4 DEF RefuseInsert
  <1>5. CASE UpdateOne
    <2>1. pc' \in {"clear", "done"} /\ (kind = "clients" => pc' = "clear")
      BY <1>5 DEF UpdateOne, AfterWrite
    <2>2. OneDocument' /\ WrittenInv' /\ InsertInv' /\ UpdateInv'
      BY <1>5, <2>1, UpdateEffect DEF UpdateOne
    <2> QED
      BY <1>5, <2>1, <2>2 DEF UpdateOne
  <1>6. CASE ClearPayloadCache
    <2>1. ASSUME faults = 0 PROVE \A e \in Head(col).envs : payload'[e] = None
      <3>1. misreads = 0
        BY <2>1 DEF TypeOK
      <3>2. col # <<>> /\ Head(col).envs = desired.envs /\ Head(col) \in Document
        BY <1>6, <3>1, OneSays, HeadTypes DEF ClearPayloadCache, SaysManaged, TypeOK
      <3> QED
        BY <1>6, <3>2 DEF ClearPayloadCache, Document, Envs
    <2> QED
      BY <1>6, <2>1 DEF ClearPayloadCache, Says, SaysManaged
  <1>7. CASE Done
    BY <1>7 DEF Done
  <1>8. CASE DeleteOne
    <2>1. Len(col') <= misreads /\ misreads' = misreads /\ faults' = faults
      BY <1>8, DeleteEffect DEF DeleteOne
    <2>2. faults = 0 => col' = <<>>
      <3>1. CASE col = <<>>
        BY <1>8, <3>1 DEF DeleteOne
      <3>2. CASE col # <<>> /\ faults = 0
        <4>1. col' \in Seq(Document) /\ Len(col') <= 0
          BY <2>1, <3>2 DEF TypeOK
        <4> QED
          BY <4>1, EmptySeq, LenProperties
      <3> QED
        BY <3>1, <3>2
    <2> QED
      BY <1>8, <2>1, <2>2 DEF DeleteOne
  <1>9. CASE Release
    BY <1>9 DEF Release
  <1>10. CASE Fail
    BY <1>10 DEF Fail, Fault, TypeOK
  <1>11. CASE EditObject
    BY <1>11 DEF EditObject, Says, SaysManaged, TypeOK, Object
  <1>12. CASE DeleteObject
    BY <1>12 DEF DeleteObject, Says, SaysManaged, TypeOK, Object
  <1>13. CASE CreateObject
    BY <1>13 DEF CreateObject, Says, SaysManaged, TypeOK, Object
  <1>14. CASE AddRule
    <2>1. PICK r \in SUBSET Envs :
             Head(col).rules \subseteq r /\ Head(col') = [Head(col) EXCEPT !.rules = r]
      BY <1>14, AddRuleEffect
    <2>2. Head(col) \in Document
      BY <1>14, HeadTypes DEF AddRule, TypeOK
    <2>3. Head(col').made = Head(col).made /\ Head(col').envs = Head(col).envs
          /\ Head(col').content = Head(col).content
      BY <2>1, <2>2 DEF Document
    <2> QED
      BY <1>14, <2>3, AddRuleEffect DEF AddRule
  <1>15. CASE Serve
    BY <1>15 DEF Serve, Says, SaysManaged, TypeOK
  <1>16. CASE UNCHANGED vars
    BY <1>16 DEF vars, Says, SaysManaged
  <1> QED
    BY <1>1, <1>2, <1>3, <1>4, <1>5, <1>6, <1>7, <1>8, <1>9, <1>10, <1>11, <1>12,
       <1>13, <1>14, <1>15, <1>16 DEF Next, Pass

LEMMA DocumentInvariant == Spec => []DocumentInv
  BY DocumentInit, DocumentNext, PTL DEF Spec

-----------------------------------------------------------------------------
(* The safety properties.                                                  *)

\* However many reads fail in a collection without the unique index, an object never
\* has more documents besides its own than these: no retry, no failure of another call
\* and no restart adds one, and with the index, or with no such misread, there is one.
THEOREM OneDocumentAndMisreads == Spec => []OneDocument
  <1>1. DocumentInv => OneDocument
    BY DEF DocumentInv
  <1> QED
    BY <1>1, DocumentInvariant, PTL

\* An update that returns without an error has left a document with what the
\* object said.
THEOREM UpdatesAreComplete == Spec => []SyncedDocument
  <1>1. DocumentInv => SyncedDocument
    BY DEF DocumentInv, WrittenInv, SyncedDocument
  <1> QED
    BY <1>1, DocumentInvariant, PTL

\* As long as no call fails and nothing restarts, growthbook serves no payload
\* that was computed before the last update of the client.
THEOREM PayloadsAreFresh == Spec => []PayloadFreshWithoutFaults
  <1>1. ASSUME DocumentInv PROVE PayloadFreshWithoutFaults
    <2>1. faults = 0 => misreads = 0
      BY <1>1 DEF DocumentInv, TypeOK
    <2>2. faults = 0 /\ pc = "done" => col # <<>> /\ SaysManaged(Head(col), desired)
      BY <1>1, <2>1, OneSays DEF DocumentInv, WrittenInv
    <2> QED
      BY <1>1, <2>2 DEF DocumentInv, CacheInv, PayloadFreshWithoutFaults, PayloadFresh, SaysManaged
  <1> QED
    BY <1>1, DocumentInvariant, PTL

-----------------------------------------------------------------------------
(* The action properties.                                                  *)

\* What a step that deletes none does to the first document: it is written by an
\* update, or a user of growthbook adds to it.
LEMMA DocumentSteps ==
    ASSUME DocumentInv, [Next]_vars, col # <<>>, Len(col') >= Len(col)
    PROVE  \/ Head(col') = Head(col)
           \/ UpdateOne
           \/ AddRule
  <1> USE DEF setting, dbVars, passVars
  <1>1. InsertOne => Head(col') = Head(col)
    BY InsertEffect DEF DocumentInv
  <1>2. ~DeleteOne
    <2>1. Len(col) \in Nat
      BY LenProperties DEF DocumentInv, TypeOK
    <2> QED
      BY <2>1, DeleteEffect DEF DocumentInv
  <1>3. UNCHANGED col \/ InsertOne \/ UpdateOne \/ AddRule
    BY <1>2 DEF Next, Pass, Begin, FindOne, RefuseInsert, ClearPayloadCache, Done,
       Release, Fail, EditObject, DeleteObject, CreateObject, Serve, vars
  <1> QED
    BY <1>1, <1>3

\* The keys of a document are those of its insertion for as long as it is there.
THEOREM KeysStay == Spec => KeysKept
  <1>1. ASSUME DocumentInv, [Next]_vars, col # <<>>, Len(col') >= Len(col)
        PROVE  Head(col').made = Head(col).made
    <2>1. CASE UpdateOne
      BY <1>1, <2>1, UpdateEffect DEF DocumentInv
    <2>2. CASE AddRule
      <3>1. Head(col) \in Document
        BY <1>1, HeadTypes DEF DocumentInv, TypeOK
      <3> QED
        BY <1>1, <2>2, <3>1, AddRuleEffect DEF DocumentInv, Document
    <2> QED
      BY <1>1, <2>1, <2>2, DocumentSteps
  <1>2. DocumentInv /\ [Next]_vars =>
           [col # <<>> /\ Len(col') >= Len(col) => Head(col').made = Head(col).made]_vars
    BY <1>1
  <1> QED
    BY <1>2, DocumentInvariant, PTL DEF Spec, KeysKept

\* A rule that a user of growthbook has added stays in the environments that the
\* object names, unless it came between the read and the write.
THEOREM RulesStay == Spec => KnownRulesKept
  <1>1. ASSUME DocumentInv, [Next]_vars, NEW e \in Envs, col # <<>>, Len(col') >= Len(col),
               e \in Head(col).rules, pc = "update" => e \in existing.rules
        PROVE  e \in Head(col').rules \/ e \notin desired.envs
    <2>1. CASE UpdateOne
      <3>1. Head(col').rules = existing.rules \cap desired.envs
        BY <1>1, <2>1, UpdateEffect, MergedEffect DEF DocumentInv, TypeOK
      <3> QED
        BY <1>1, <2>1, <3>1 DEF UpdateOne
    <2>2. CASE AddRule
      <3>1. Head(col) \in Document
        BY <1>1, HeadTypes DEF DocumentInv, TypeOK
      <3> QED
        BY <1>1, <2>2, <3>1, AddRuleEffect DEF DocumentInv, Document
    <2> QED
      BY <1>1, <2>1, <2>2, DocumentSteps
  <1>2. DocumentInv /\ [Next]_vars =>
           [\A e \in Envs :
               col # <<>> /\ Len(col') >= Len(col) /\ e \in Head(col).rules
               /\ (pc = "update" => e \in existing.rules)
                  => e \in Head(col').rules \/ e \notin desired.envs]_vars
    BY <1>1
  <1> QED
    BY <1>2, DocumentInvariant, PTL DEF Spec, KnownRulesKept

-----------------------------------------------------------------------------
(* The calls to the database implement GuardedDocument.                    *)

\* Every step of a pass, of users and of growthbook is one that GuardedDocument
\* allows for the object and its document, or none.
LEMMA GuardedStep ==
    ASSUME DocumentInv, misreads = 0, [Next]_vars
    PROVE  Guarded!Next \/ UNCHANGED Guarded!vars
  <1> USE DEF setting, dbVars, passVars, faultVars
  <1> DEFINE Same == object'.status = object.status /\ ((col' # <<>>) <=> (col # <<>>))
  <1>1. ASSUME Same PROVE UNCHANGED Guarded!vars
    BY <1>1 DEF Guarded!vars
  <1>2. CASE InsertOne
    <2>1. object.status # "absent" /\ col' # <<>>
      BY <1>2, InsertAlone DEF InsertOne, DocumentInv, ObjectInv
    <2> QED
      BY <1>2, <2>1 DEF InsertOne, Guarded!Next, Guarded!Write
  <1>3. CASE UpdateOne
    BY <1>1, <1>3, UpdateEffect DEF UpdateOne, DocumentInv
  <1>4. CASE AddRule
    BY <1>1, <1>4, AddRuleEffect DEF AddRule, DocumentInv
  <1>5. CASE DeleteOne
    <2>1. object.status = "deleting"
      BY <1>5 DEF DeleteOne, DocumentInv, ObjectInv
    <2>2. Len(col') <= 0 /\ col' \in Seq(Document)
      BY <1>5, DeleteEffect, TypeNext DEF DocumentInv, TypeOK
    <2>3. col' = <<>>
      BY <2>2, EmptySeq, LenProperties
    <2> QED
      BY <1>5, <2>1, <2>3 DEF DeleteOne, Guarded!Next, Guarded!Remove
  <1>6. CASE Release
    <2>1. object.status # "absent" /\ object'.status = "absent" /\ col = <<>>
      BY <1>6, AtMostOne DEF Release, DocumentInv, ObjectInv, TypeOK, Object
    <2> QED
      BY <1>6, <2>1 DEF Release, Guarded!Next, Guarded!Leave
  <1>7. CASE DeleteObject
    <2>1. object.status = "live" /\ object'.status = "deleting"
      BY <1>7 DEF DeleteObject, DocumentInv, TypeOK, Object
    <2> QED
      BY <1>7, <2>1 DEF DeleteObject, Guarded!Next, Guarded!Delete
  <1>8. CASE CreateObject
    <2>1. object.status = "absent" /\ object'.status = "live"
      BY <1>8 DEF CreateObject, DocumentInv, TypeOK, Object
    <2> QED
      BY <1>8, <2>1 DEF CreateObject, Guarded!Next, Guarded!Create
  <1>9. CASE EditObject
    BY <1>1, <1>9 DEF EditObject, DocumentInv, TypeOK, Object
  <1>10. CASE \/ Begin \/ FindOne \/ RefuseInsert \/ ClearPayloadCache \/ Done
              \/ Fail \/ Serve \/ UNCHANGED vars
    BY <1>1, <1>10 DEF Begin, FindOne, RefuseInsert, ClearPayloadCache, Done, Fail,
       Serve, vars
  <1> QED
    BY <1>2, <1>3, <1>4, <1>5, <1>6, <1>7, <1>8, <1>9, <1>10 DEF Next, Pass

\* The calls to MongoDB, any of which may fail, amount to what GuardedDocument
\* allows: no document is written for an object that is not there, none goes while
\* its object is live, and none stays behind; unless, without the unique index, a read
\* failed on an existing document.
THEOREM CallsImplementGuardedDocument == Spec => ImplementsGuardedDocument
  <1>1. Init => Guarded!Init
    BY DEF Init, Guarded!Init
  <1>2. DocumentInv /\ [Next]_vars =>
           [misreads > 0 \/ Guarded!Next \/ UNCHANGED Guarded!vars]_vars
    <2>1. ASSUME DocumentInv, [Next]_vars, ~(misreads > 0)
          PROVE  Guarded!Next \/ UNCHANGED Guarded!vars
      <3>1. misreads = 0
        BY <2>1 DEF DocumentInv, TypeOK
      <3> QED
        BY <2>1, <3>1, GuardedStep
    <2> QED
      BY <2>1
  <1> QED
    BY <1>1, <1>2, DocumentInvariant, PTL DEF Spec, ImplementsGuardedDocument

=============================================================================
