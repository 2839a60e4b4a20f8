----------------------------- MODULE FeedParser -------------------------------
(***************************************************************************)
(* Parse and decodeTree (internal/feed/parser.go): the tokens of an XML    *)
(* decoder become a tree by way of a stack, within limits of depth and     *)
(* size, and the tree becomes a feed.  encoding/xml with Strict = false is *)
(* external: an end tag that does not fit closes the innermost element and *)
(* stays to be read again, one with nothing to close is an error, and so   *)
(* is the end of the document while elements are open.                     *)
(***************************************************************************)
EXTENDS FeedNormalizer

CONSTANTS Documents, MaxDepth, MaxNodes

ASSUME LimitsAssumption == MaxDepth \in Nat \ {0} /\ MaxNodes \in Nat \ {0}

\* A document consists of "start" tags (self-closing or not), "end" tags, "text",
\* "directive"s (a DOCTYPE or ENTITY in them is unsafe), "other" markup, comments for
\* example, and "garbage" that the decoder cannot read.
Attributes == Seq([name : STRING, value : Seq(Words)])
Markups ==
    [kind : {"start"}, name : STRING, attrs : Attributes, selfClosing : BOOLEAN]
    \cup [kind : {"end"}, name : STRING] \cup [kind : {"text"}, text : Seq(Words)]
    \cup [kind : {"directive"}, unsafe : BOOLEAN] \cup [kind : {"other", "garbage"}]

ASSUME DocumentsAssumption == Documents \subseteq Seq(Markups)

VARIABLES
    doc,      \* the document, the markup as it is written
    pos,      \* what the decoder reads next
    open,     \* the decoder's own stack of names
    closing,  \* the end tag that the decoder has to read again, if any
    stack,    \* the stack of decodeTree: nodes of the tree
    outcome,  \* "parsing", or how Parse has ended
    result    \* the ParsedFeed that it returns, as a sequence of at most one

vars == <<tree, doc, pos, open, closing, stack, outcome, result>>

Init ==
    /\ doc \in Documents
    /\ pos = 1 /\ open = <<>> /\ closing = <<>>
    /\ tree = <<>> /\ stack = <<>> /\ result = <<>>
    /\ outcome = IF \A i \in DOMAIN doc : doc[i].kind = "text" /\ Trim(doc[i].text) = <<>>
                 THEN "empty" ELSE "parsing"

\* What the decoder reads next.
Markup ==
    IF closing # <<>> THEN [kind |-> "end", name |-> closing[1]]
    ELSE IF pos <= Len(doc) THEN doc[pos] ELSE [kind |-> "eof"]

\* Decoder.Token, as far as its next state is concerned.
Advance == /\ outcome = "parsing"
           /\ pos' = IF closing = <<>> THEN pos + 1 ELSE pos
           /\ UNCHANGED doc

Fail(error) == outcome' = error /\ UNCHANGED <<tree, stack, result>>

SyntaxError ==
    /\ \/ Markup.kind = "garbage"
       \/ Markup.kind = "end" /\ open = <<>>
       \/ Markup.kind = "eof" /\ open # <<>>
    /\ Advance
    /\ Fail("malformed")
    /\ UNCHANGED <<open, closing>>

Directive ==
    /\ Markup.kind = "directive"
    /\ Advance
    /\ IF Markup.unsafe THEN Fail("unsafe") ELSE UNCHANGED <<tree, stack, result, outcome>>
    /\ UNCHANGED <<open, closing>>

\* Faulty variant: the depth is compared before the element is counted.
RefusalOffByOne ==
    IF Len(stack) > MaxDepth \/ Len(tree) + 1 > MaxNodes THEN "tooComplex"
    ELSE IF stack = <<>> /\ tree # <<>> THEN "multipleRoots" ELSE "none"

\* The limits come first.
Refusal == IF Len(stack) + 1 > MaxDepth \/ Len(tree) + 1 > MaxNodes THEN "tooComplex"
           ELSE IF stack = <<>> /\ tree # <<>> THEN "multipleRoots" ELSE "none"

StartElement ==
    /\ Markup.kind = "start"
    /\ Advance
    /\ open' = Append(open, Markup.name)
    /\ closing' = IF Markup.selfClosing THEN <<Markup.name>> ELSE <<>>
    /\ IF Refusal # "none" THEN Fail(Refusal)
       ELSE /\ tree' = Append(tree, [name |-> Markup.name, attrs |-> Markup.attrs, text |-> <<>>,
                                     parent |-> IF stack = <<>> THEN 0 ELSE Last(stack)])
            /\ stack' = Append(stack, Len(tree) + 1)
            /\ UNCHANGED <<outcome, result>>

\* Faulty variant: what is popped is looked for by the name that the end tag has.
EndElementByName ==
    /\ Markup.kind = "end" /\ open # <<>>
    /\ Advance
    /\ open' = Front(open)
    /\ closing' = IF Markup.name = Last(open) THEN <<>> ELSE <<Markup.name>>
    /\ stack' = IF tree[Last(stack)].name = Markup.name THEN Front(stack) ELSE stack
    /\ UNCHANGED <<tree, outcome, result>>

\* The decoder gives the end of the innermost element, whatever the tag says.
EndElement ==
    /\ Markup.kind = "end" /\ open # <<>>
    /\ Advance
    /\ open' = Front(open)
    /\ closing' = IF Markup.name = Last(open) THEN <<>> ELSE <<Markup.name>>
    /\ stack' = IF stack # <<>> THEN Front(stack) ELSE stack
    /\ UNCHANGED <<tree, outcome, result>>

CharData ==
    /\ Markup.kind = "text"
    /\ Advance
    /\ tree' = IF stack = <<>> THEN tree
               ELSE [tree EXCEPT ![Last(stack)].text = @ \o Markup.text]
    /\ UNCHANGED <<open, closing, stack, outcome, result>>

Other ==
    /\ Markup.kind = "other"
    /\ Advance
    /\ UNCHANGED <<tree, open, closing, stack, outcome, result>>

\* The warnings of decodeTree come before those of the feed.
Parsed(feed) ==
    [feed EXCEPT !.warnings = (IF stack # <<>> THEN <<"unclosed">> ELSE <<>>) \o @]

\* io.EOF: the loop ends, and Parse normalizes what it has by its root element.
EndOfDocument ==
    /\ outcome = "parsing" /\ Markup.kind = "eof" /\ open = <<>>
    /\ LET Root(local) == tree # <<>> /\ tree[1].name = local IN
       \/ tree = <<>> /\ outcome' = "empty" /\ UNCHANGED result
       \/ Root("rss") /\ Child(1, "channel") = 0 /\ outcome' = "noChannel" /\ UNCHANGED result
       \/ Root("rss") /\ Child(1, "channel") # 0 /\ outcome' = "ok"
          /\ result' = <<Parsed(ParseRSS(Child(1, "channel")))>>
       \/ Root("feed") /\ outcome' = "ok" /\ result' = <<Parsed(ParseAtom(1))>>
       \/ tree # <<>> /\ ~Root("rss") /\ ~Root("feed") /\ outcome' = "unsupported" /\ UNCHANGED result
    /\ UNCHANGED <<tree, doc, pos, open, closing, stack>>

Next == \/ SyntaxError \/ Directive \/ StartElement \/ EndElement
        \/ CharData \/ Other \/ EndOfDocument

Spec == Init /\ [][Next]_vars
-------------------------------------------------------------------------------
\* The stack of decodeTree leads from the root to the element that the decoder is in.
StackIsPath ==
    /\ Len(stack) = Len(open)
    /\ \A i \in DOMAIN stack : /\ tree[stack[i]].name = open[i]
                               /\ tree[stack[i]].parent = IF i = 1 THEN 0 ELSE stack[i - 1]

\* Whatever end tags are missing, superfluous or out of place, the stack of decodeTree
\* is the path from the root to the element that the decoder is in, and empty once the
\* decoder has reached the end: text and children go where the markup puts them.
StackMirrorsDecoder ==
    outcome \in {"parsing", "ok"} =>
        StackIsPath /\ \A p \in ToSet(result) : "unclosed" \notin ToSet(p.warnings)

\* A document is too complex exactly when it opens an element inside of MaxDepth others
\* or more than MaxNodes elements, also where tags close themselves or each other.
LimitsAreExact ==
    outcome = "tooComplex" <=>
        \/ Len(open) > MaxDepth
        \/ Cardinality({i \in DOMAIN doc : i < pos /\ doc[i].kind = "start"}) > MaxNodes

Items == IF tree[1].name = "rss" THEN Children(Child(1, "channel"), "item")
                                 ELSE Children(1, "entry")
HasText(item, locals) == \E l \in locals : ChildValue(item, l) # <<>>
IsBlank(item) ==
    IF tree[1].name = "rss" THEN ~HasText(item, {"title", "guid", "link", "description", "encoded"})
    ELSE /\ ~HasText(item, {"title", "id", "summary", "content"})
         /\ \A l \in Named(item, "link") : Attr(l, "href") = <<>>
DateText(item) ==
    FirstChildValue(item, IF tree[1].name = "rss" THEN <<"pubdate", "published">> ELSE <<"published">>)
Count(seq, e) == Cardinality({i \in DOMAIN seq : seq[i] = e})

\* No item is lost without a word: the articles are the items in their order, none of
\* them twice, less those that have neither title nor identifier nor link nor content;
\* there is a warning for each of these, and for each publication date that no layout
\* accepts.
ItemsAreAccountedFor ==
    \A p \in ToSet(result) :
        LET kept == Mapped(LAMBDA a : a.element, p.articles)
            blank == {i \in ToSet(Items) : IsBlank(i)} IN
        /\ ToSet(kept) = ToSet(Items) \ blank
        /\ \A i, j \in DOMAIN kept : i < j => kept[i] < kept[j]
        /\ Count(p.warnings, "skipped") = Cardinality(blank)
        /\ Count(p.warnings, "published") =
              Cardinality({i \in ToSet(Items) : DateText(i) # <<>> /\ ParseDate(DateText(i)) = NoTime})
        /\ \A a \in ToSet(p.articles) : a.published = ParseDate(DateText(a.element))

\* No medium of the same sort, image or other, has the URL of named[i] before it.
NamesFirst(named, i) ==
    \A j \in 1 .. i - 1 : named[j].url = named[i].url => (IsImage(named[j]) <=> ~IsImage(named[i]))

\* The folding of lists by case and of media by URL neither loses nor repeats a value:
\* whichever of three elements name a URL, as an image or as another medium, it is in
\* the lists it is named for, with the type and the size of the first that does so.
ListsAreComplete ==
    \A p \in ToSet(result) : \A a \in ToSet(p.articles) :
        LET rss == tree[1].name = "rss"
            categories == IF rss THEN RSSCategories(a.element) ELSE AtomCategories(a.element)
            tags == IF rss THEN RSSTags(a.element) ELSE <<>>
            named == IF rss THEN RSSMedia(a.element) ELSE AtomMedia(a.element)
            Texts(list) == {Folded(Trim(t)) : t \in ToSet(list)} \ {<<>>}
            URLs(media) == {m.url : m \in media} \ {<<>>} IN
        /\ Texts(a.lists.categories) = Texts(categories)
        /\ Texts(a.lists.tags) = Texts(tags)
        /\ URLs(ToSet(a.lists.attached.images)) = URLs({m \in ToSet(named) : IsImage(m)})
        /\ URLs(ToSet(a.lists.attached.media)) = URLs({m \in ToSet(named) : ~IsImage(m)})
        /\ Len(a.lists.categories) = Cardinality(Texts(categories))
        /\ Len(a.lists.tags) = Cardinality(Texts(tags))
        /\ Len(a.lists.attached.images) = Cardinality(URLs(ToSet(a.lists.attached.images)))
        /\ Len(a.lists.attached.media) = Cardinality(URLs(ToSet(a.lists.attached.media)))
        /\ \A e \in ToSet(a.lists.attached.images) : \E i \in DOMAIN named :
              /\ IsImage(named[i]) /\ NamesFirst(named, i)
              /\ e = [url |-> named[i].url, width |-> named[i].width, height |-> named[i].height]
        /\ \A e \in ToSet(a.lists.attached.media) : \E i \in DOMAIN named :
              /\ ~IsImage(named[i]) /\ NamesFirst(named, i)
              /\ e = [url |-> named[i].url, type |-> named[i].type,
                      width |-> named[i].width, height |-> named[i].height]
===============================================================================
