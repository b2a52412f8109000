-------------------------------- MODULE CmsCache -------------------------------
(* One content key of the CMS in its locales: getContent reads through a cache *)
(* of an hour, upsertContent writes the row and then deletes the cached entry. *)
(* Redis may fail silently; then get misses, and set and del do nothing.       *)
EXTENDS Serving

CONSTANTS
  Locales,    \* "en", the fallback, and others
  MaxVersions \* bound: texts written for a locale

ASSUME CmsBounds == "en" \in Locales /\ MaxVersions \in Nat

VARIABLES
  content,  \* per locale: its row, or version 0
  cached,   \* per locale: what the cache holds for it
  serving,  \* what each request is doing
  unsure    \* locales whose cache a race or a lost deletion has touched

cmsVars == <<content, cached, serving, unsure>>

Texts == [from : Locales, version : 1..MaxVersions]

NoEntry == [from |-> "none"]

\* timed: the entry expires.
Entries == {NoEntry} \cup
  [from : Locales, version : 1..MaxVersions, timed : BOOLEAN]

NotServing == [pc |-> "idle"]

Serves ==
  {NotServing} \cup [pc : {"own", "fallback", "find", "del"}, locale : Locales]
  \cup [pc : {"set"}, locale : Locales, text : Texts]
  \cup [pc : {"save"}, locale : Locales, found : BOOLEAN]

CmsInit ==
  /\ content = [l \in Locales |-> [version |-> 0, active |-> FALSE]]
  /\ cached = [l \in Locales |-> NoEntry]
  /\ serving = [r \in Requests |-> NotServing]
  /\ unsure = {}

CmsTypeOK ==
  /\ content \in [Locales -> [version : 0..MaxVersions, active : BOOLEAN]]
  /\ cached \in [Locales -> Entries]
  /\ serving \in [Requests -> Serves]
  /\ unsure \subseteq Locales

Go(r, step) == serving' = [serving EXCEPT ![r] = step]

Text(l) == [from |-> l, version |-> content[l].version]

Published(l) == content[l].version > 0 /\ content[l].active

(*--------------------------------- getContent --------------------------------*)

\* A miss, or a Redis that does not answer; a hit changes nothing.
GetMisses(r, l) ==
  /\ serving[r] = NotServing
  /\ Go(r, [pc |-> "own", locale |-> l])
  /\ UNCHANGED <<content, cached, unsure>>

\* The text of the locale, else the English one, else 404.
ReadContent(r) ==
  LET l == serving[r].locale IN
  /\ \/ /\ serving[r].pc = "own"
        /\ Go(r, IF Published(l)
                 THEN [pc |-> "set", locale |-> l, text |-> Text(l)]
                 ELSE IF l # "en" THEN [pc |-> "fallback", locale |-> l]
                 ELSE NotServing)
     \/ /\ serving[r].pc = "fallback"
        /\ Go(r, IF Published("en")
                 THEN [pc |-> "set", locale |-> l, text |-> Text("en")]
                 ELSE NotServing)
  /\ UNCHANGED <<content, cached, unsure>>

\* Mutant: an entry without a time to live.
MutCachedText(text) ==
  [from |-> text.from, version |-> text.version, timed |-> FALSE]

\* set(cacheKey, content, 3600), under the locale asked for.
CachedText(text) ==
  [from |-> text.from, version |-> text.version, timed |-> TRUE]

FillCache(r) ==
  LET l == serving[r].locale IN
  /\ serving[r].pc = "set"
  /\ cached' \in {cached, [cached EXCEPT ![l] = CachedText(serving[r].text)]}
  /\ Go(r, NotServing)
  /\ UNCHANGED <<content, unsure>>

EntryExpires(l) ==
  /\ cached[l] # NoEntry /\ cached[l].timed
  /\ cached' = [cached EXCEPT ![l] = NoEntry]
  /\ UNCHANGED <<content, serving, unsure>>

(*-------------------------------- upsertContent ------------------------------*)

BeginUpsert(r, l) ==
  /\ serving[r] = NotServing
  /\ Go(r, [pc |-> "find", locale |-> l])
  /\ UNCHANGED <<content, cached, unsure>>

FindRow(r) ==
  LET l == serving[r].locale IN
  /\ serving[r].pc = "find"
  /\ Go(r, [pc |-> "save", locale |-> l, found |-> content[l].version > 0])
  /\ UNCHANGED <<content, cached, unsure>>

\* A reader of l still has to cache what it read of l.
ReaderHolds(l) ==
  \E r \in Requests : serving[r].pc = "set" /\ serving[r].text.from = l
                      /\ serving[r].locale = l

\* UPDATE with is_published, or with the is_active that was read, or INSERT,
\* which the unique key refuses when a row has appeared meanwhile.
SaveContent(r) ==
  LET l == serving[r].locale IN
  /\ serving[r].pc = "save"
  /\ serving[r].found \/ content[l].version = 0
  /\ content[l].version < MaxVersions
  /\ \E active \in BOOLEAN :
       content' = [content EXCEPT ![l] =
                     [version |-> @.version + 1, active |-> active]]
  /\ unsure' = unsure \cup {k \in {l} : ReaderHolds(k)}
  /\ Go(r, [pc |-> "del", locale |-> l])
  /\ UNCHANGED cached

\* Mutant: the key that is deleted is the English one.
MutDeletedKey(l) == "en"

\* CACHE_KEYS.CMS_CONTENT(key, locale); entries that fell back to l stay.
DeletedKey(l) == l

DeleteEntry(r) ==
  LET l == serving[r].locale IN
  /\ serving[r].pc = "del"
  /\ \/ cached' = [cached EXCEPT ![DeletedKey(l)] = NoEntry] /\ UNCHANGED unsure
     \/ cached' = cached /\ unsure' = unsure \cup {l}
  /\ Go(r, NotServing)
  /\ UNCHANGED content

\* A statement fails or the process dies; after the save, before the deletion,
\* the entry stays.
ServingFails(r) ==
  /\ serving[r] # NotServing
  /\ unsure' = unsure \cup
       (IF serving[r].pc = "del" THEN {serving[r].locale} ELSE {})
  /\ Go(r, NotServing)
  /\ UNCHANGED <<content, cached>>

CmsNext ==
  \/ \E r \in Requests, l \in Locales : GetMisses(r, l) \/ BeginUpsert(r, l)
  \/ \E r \in Requests :
       \/ ReadContent(r) \/ FillCache(r) \/ FindRow(r) \/ SaveContent(r)
       \/ DeleteEntry(r) \/ ServingFails(r)
  \/ \E l \in Locales : EntryExpires(l)

CmsSpec == CmsInit /\ [][CmsNext]_cmsVars

\* Redis drops what has expired.
CmsFairness == \A l \in Locales : WF_cmsVars(EntryExpires(l))

(*--------------------------------- Properties --------------------------------*)

Deleting(l) == \E r \in Requests : serving[r].pc = "del" /\ serving[r].locale = l

\* The cache never holds an old text of a locale under its own key, unless a
\* reader was caching what it had read when the text was saved, or Redis or the
\* process failed between the save and the deletion, which may also be pending.
StaleOnlyByRace ==
  \A l \in Locales :
    cached[l] # NoEntry /\ cached[l].from = l
      => \/ Published(l) /\ cached[l].version = content[l].version
         \/ Deleting(l) \/ l \in unsure

\* An entry that getContent would not read from the tables any more: old, or a
\* fallback that has changed or is no longer needed.
Stale(l) ==
  /\ cached[l] # NoEntry
  /\ \/ ~Published(cached[l].from)
     \/ cached[l].version # content[cached[l].from].version
     \/ cached[l].from # l /\ Published(l)

\* However it got there, a stale entry is gone within its hour.
StaleExpires == \A l \in Locales : Stale(l) ~> ~Stale(l)
===============================================================================
