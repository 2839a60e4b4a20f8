--------------------------- MODULE FeedNormalizer -----------------------------
(***************************************************************************)
(* parseRSS and parseAtom (internal/feed/parser.go): what they make of the *)
(* tree that decodeTree has built.  A text is a sequence of words, blanks  *)
(* and commas, and <<>> is the empty string; a name is a lower-case local  *)
(* name, for the parser ignores both the case and the namespace.           *)
(***************************************************************************)
EXTENDS Integers, Sequences, SequencesExt, FiniteSets

CONSTANTS
    Words,       \* what texts are made of, among them Blank and Comma
    Lower,       \* the lower-case form of a word
    Instant,     \* the texts that one of the layouts of parseDate accepts, with their time
    Number,      \* the texts that strconv.Atoi accepts, with their value
    ImageTypes,  \* the MIME types, in lower case, that begin with image/
    SourceURL,   \* the argument of Parse, a text
    NoTime       \* a nil *time.Time

ASSUME WordsAssumption == Lower \in [Words -> Words] /\ \A w \in Words : Lower[Lower[w]] = Lower[w]
ASSUME DatesAssumption == \A t \in DOMAIN Instant : Instant[t] # NoTime
ASSUME NumbersAssumption == \A t \in DOMAIN Number : Number[t] \in Int

\* The nodes in the order in which they were opened: name, attrs (a sequence), text
\* and parent, which is 0 for the root.  0 stands for a nil *xmlNode.
VARIABLE tree

-------------------------------------------------------------------------------
Blank == " "
Comma == ","

Trim(text) ==
    LET solid == {i \in DOMAIN text : text[i] # Blank} IN
    IF solid = {} THEN <<>> ELSE SubSeq(text, Min(solid), Max(solid))

Folded(text) == [i \in DOMAIN text |-> Lower[text[i]]]

\* strings.Split at commas.
Split(text) ==
    FoldLeft(LAMBDA parts, w : IF w = Comma THEN Append(parts, <<>>)
                               ELSE [parts EXCEPT ![Len(parts)] = Append(@, w)],
             << <<>> >>, text)

FirstNonEmpty(values) ==
    LET solid == {i \in DOMAIN values : Trim(values[i]) # <<>>} IN
    IF solid = {} THEN <<>> ELSE Trim(values[Min(solid)])

ParseDate(raw) == IF Trim(raw) \in DOMAIN Instant THEN Instant[Trim(raw)] ELSE NoTime

ParsePositiveInt(raw) ==
    IF Trim(raw) \in DOMAIN Number /\ Number[Trim(raw)] >= 0 THEN Number[Trim(raw)] ELSE 0

Mapped(F(_), s) == [i \in DOMAIN s |-> F(s[i])]

Named(n, local) == {i \in DOMAIN tree : tree[i].parent = n /\ tree[i].name = local}

\* Those nodes of the tree that are in S, in the order in which they were opened.
InOrder(S) == FoldLeft(LAMBDA found, i : IF i \in S THEN Append(found, i) ELSE found,
                       <<>>, [i \in DOMAIN tree |-> i])

Children(n, local) == InOrder(Named(n, local))

Child(n, local) == IF Named(n, local) = {} THEN 0 ELSE Min(Named(n, local))

Value(n) == IF n = 0 THEN <<>> ELSE Trim(tree[n].text)

Attr(n, local) ==
    LET named == {i \in DOMAIN tree[n].attrs : tree[n].attrs[i].name = local} IN
    IF named = {} THEN <<>> ELSE Trim(tree[n].attrs[Min(named)].value)

ChildValue(n, local) == IF n = 0 THEN <<>> ELSE Value(Child(n, local))

\* The first of several children that has a value.
FirstChildValue(n, locals) == FirstNonEmpty(Mapped(LAMBDA l : ChildValue(n, l), locals))

Rel(link) == Folded(FirstNonEmpty(<<Attr(link, "rel"), <<"alternate">> >>))

AtomLink(n, wantedRel) ==
    LET links  == {l \in Named(n, "link") : Attr(l, "href") # <<>>}
        wanted == {l \in links : Rel(l) = wantedRel} IN
    IF links = {} THEN <<>> ELSE Attr(Min(IF wanted = {} THEN links ELSE wanted), "href")

AtomAuthor(n) ==
    LET author == Child(n, "author") IN
    FirstNonEmpty(<<ChildValue(author, "name"), ChildValue(author, "email"), Value(author)>>)

-------------------------------------------------------------------------------
AddUnique(target, raw) ==
    LET v == Trim(raw) IN
    IF v = <<>> \/ \E e \in ToSet(target) : Folded(e) = Folded(v) THEN target ELSE Append(target, v)

\* Faulty variant: a medium replaces the one that is listed under its URL.
AddByURLLatest(target, v) ==
    IF v.url = <<>> THEN target
    ELSE Append(SelectSeq(target, LAMBDA e : e.url # v.url), v)

AddByURL(target, v) ==
    IF v.url = <<>> \/ \E e \in ToSet(target) : e.url = v.url THEN target ELSE Append(target, v)

\* What an element says of a medium; an enclosure has no size.
Enclosed(n, href) ==
    [url |-> Attr(n, href), type |-> Attr(n, "type"), width |-> 0, height |-> 0, medium |-> <<>>]
Described(n) ==
    [url |-> Attr(n, "url"), type |-> Attr(n, "type"), medium |-> Attr(n, "medium"),
     width |-> ParsePositiveInt(Attr(n, "width")), height |-> ParsePositiveInt(Attr(n, "height"))]
Thumbnail(n) == [Described(n) EXCEPT !.medium = <<"image">>]

IsImage(m) == Folded(m.medium) = <<"image">> \/ Folded(m.type) \in ImageTypes

AddMediaOrImage(lists, m) ==
    IF IsImage(m)
    THEN [lists EXCEPT !.images = AddByURL(@, [url |-> m.url, width |-> m.width, height |-> m.height])]
    ELSE [lists EXCEPT !.media = AddByURL(@, [url |-> m.url, type |-> m.type,
                                              width |-> m.width, height |-> m.height])]

-------------------------------------------------------------------------------
\* What the loops over the children of an item or an entry visit, in their order.
RSSCategories(item) == Mapped(Value, Children(item, "category"))
RSSKeywords(item) ==
    FoldLeft(LAMBDA all, k : all \o Split(Value(k)), <<>>, Children(item, "keywords"))
RSSTags(item) == Mapped(Value, Children(item, "tag")) \o RSSKeywords(item)
RSSMedia(item) == Mapped(LAMBDA e : Enclosed(e, "url"), Children(item, "enclosure"))
                  \o Mapped(Described, Children(item, "content"))
                  \o Mapped(Thumbnail, Children(item, "thumbnail"))
AtomCategories(entry) ==
    Mapped(LAMBDA c : FirstNonEmpty(<<Attr(c, "term"), Value(c)>>), Children(entry, "category"))
AtomMedia(entry) ==
    Mapped(LAMBDA l : Enclosed(l, "href"),
           InOrder({l \in Named(entry, "link") : Rel(l) = <<"enclosure">>}))

Listed(categories, tags, media) ==
    [categories |-> FoldLeft(AddUnique, <<>>, categories),
     tags       |-> FoldLeft(AddUnique, <<>>, tags),
     attached   |-> FoldLeft(AddMediaOrImage, [media |-> <<>>, images |-> <<>>], media)]

\* An article, with the element it comes from and the texts of its two dates.
RSSArticle(item, language) ==
    LET url == ChildValue(item, "link")  summary == ChildValue(item, "description") IN
    [element    |-> item,
     identifier |-> FirstNonEmpty(<<ChildValue(item, "guid"), url>>),
     url        |-> url,
     title      |-> ChildValue(item, "title"),
     author     |-> FirstChildValue(item, <<"author", "creator">>),
     summary    |-> summary,
     content    |-> FirstNonEmpty(<<ChildValue(item, "encoded"), summary>>),
     language   |-> FirstNonEmpty(<<ChildValue(item, "language"), language>>),
     published  |-> FirstChildValue(item, <<"pubdate", "published">>),
     updated    |-> FirstChildValue(item, <<"updated", "modified">>),
     lists      |-> Listed(RSSCategories(item), RSSTags(item), RSSMedia(item))]

AtomArticle(entry, language) ==
    LET url == AtomLink(entry, <<"alternate">>)  summary == ChildValue(entry, "summary") IN
    [element    |-> entry,
     identifier |-> FirstNonEmpty(<<ChildValue(entry, "id"), url>>),
     url        |-> url,
     title      |-> ChildValue(entry, "title"),
     author     |-> AtomAuthor(entry),
     summary    |-> summary,
     content    |-> FirstNonEmpty(<<ChildValue(entry, "content"), summary>>),
     language   |-> FirstNonEmpty(<<Attr(entry, "lang"), language>>),
     published  |-> ChildValue(entry, "published"),
     updated    |-> ChildValue(entry, "updated"),
     lists      |-> Listed(AtomCategories(entry), <<>>, AtomMedia(entry))]

IsEmpty(a) == a.title = <<>> /\ a.url = <<>> /\ a.identifier = <<>> /\ a.content = <<>>

DateWarning(raw, warning) ==
    IF raw # <<>> /\ ParseDate(raw) = NoTime THEN <<warning>> ELSE <<>>

\* Faulty variant: an empty article is passed over before its dates are looked at.
AddArticleEarly(parsed, a) ==
    IF IsEmpty(a) THEN parsed
    ELSE [parsed EXCEPT !.articles = Append(@, [a EXCEPT !.published = ParseDate(@),
                                                         !.updated = ParseDate(@)])]

\* The end of the loop over the items: dates, then an empty article is skipped.
AddArticle(parsed, a) ==
    LET dates == DateWarning(a.published, "published") \o DateWarning(a.updated, "updated") IN
    IF IsEmpty(a) THEN [parsed EXCEPT !.warnings = @ \o dates \o <<"skipped">>]
    ELSE [parsed EXCEPT !.warnings = @ \o dates,
                        !.articles = Append(@, [a EXCEPT !.published = ParseDate(@),
                                                         !.updated = ParseDate(@)])]

Normalized(feed, articles) ==
    LET all == FoldLeft(AddArticle, [feed |-> feed, articles |-> <<>>, warnings |-> <<>>], articles) IN
    [all EXCEPT !.warnings = @ \o IF feed.title = <<>> THEN <<"untitled">> ELSE <<>>]

ParseRSS(channel) ==
    LET images == Children(channel, "image")
        feed == [url |-> FirstNonEmpty(<<ChildValue(channel, "link"), SourceURL>>),
                 title |-> ChildValue(channel, "title"),
                 description |-> ChildValue(channel, "description"),
                 icon |-> <<>>,
                 image |-> FirstNonEmpty(<<ChildValue(Child(channel, "image"), "url")>>
                                         \o Mapped(LAMBDA i : Attr(i, "href"), images)),
                 language |-> ChildValue(channel, "language")] IN
    Normalized(feed, Mapped(LAMBDA i : RSSArticle(i, feed.language), Children(channel, "item")))

ParseAtom(root) ==
    LET link == AtomLink(root, <<"alternate">>)
        feed == [url |-> IF link = <<>> THEN SourceURL ELSE link,
                 title |-> ChildValue(root, "title"),
                 description |-> FirstChildValue(root, <<"subtitle", "summary">>),
                 icon |-> ChildValue(root, "icon"),
                 image |-> ChildValue(root, "logo"),
                 language |-> FirstNonEmpty(<<Attr(root, "lang"), Attr(root, "language")>>)] IN
    Normalized(feed, Mapped(LAMBDA e : AtomArticle(e, feed.language), Children(root, "entry")))
===============================================================================
