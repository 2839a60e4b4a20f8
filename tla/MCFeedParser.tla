----------------------------- MODULE MCFeedParser -----------------------------
(***************************************************************************)
(* Documents for FeedParser: every short run of markup inside of a         *)
(* channel, and feeds with two items of up to two elements each, with end  *)
(* tags as they should be, or missing at different places.                 *)
(***************************************************************************)
EXTENDS FeedParser

A(name, value) == [name |-> name, value |-> value]
Tag(name, attrs, selfClosing) ==
    <<[kind |-> "start", name |-> name, attrs |-> attrs, selfClosing |-> selfClosing]>>
Open(name)  == Tag(name, <<>>, FALSE)
End(name)   == <<[kind |-> "end", name |-> name]>>
Text(t)     == <<[kind |-> "text", text |-> t]>>
Void(name, attrs)  == Tag(name, attrs, TRUE)
Filled(name, t)    == Open(name) \o Text(t) \o End(name)
Prolog(unsafe)     == <<[kind |-> "directive", unsafe |-> unsafe]>>
Comment     == <<[kind |-> "other"]>>
Garbage     == <<[kind |-> "garbage"]>>

MCWords   == {" ", ",", "image", "Image", "enclosure", "alternate", "image/png", "audio",
              "x", "go", "Go", "today", "soon", "10", "-1"}
MCLower   == [w \in MCWords |-> CASE w = "Go" -> "go" [] w = "Image" -> "image" [] OTHER -> w]
MCInstant == [t \in {<<"today">>} |-> 1]
MCNumber  == [t \in {<<"10">>, <<"-1">>} |-> IF t = <<"10">> THEN 10 ELSE -1]
MCImageTypes == {<<"image/png">>}
MCSourceURL  == <<"x">>

\* Every run of up to four pieces, at the end of a document that has a channel open.
Pieces == {Open("item"), Open("title"), Void("x", <<>>), End("item"), End("title"), End("channel"),
           End("rss"), Text(<<"x">>), Prolog(TRUE), Garbage}
Runs == {Open("rss") \o Open("channel") \o FlattenSeq(run) : run \in BoundedSeq(Pieces, 4)}

Photo == <<A("url", <<"x">>), A("type", <<"image/png">>)>>
Sound == <<A("type", <<"audio">>), A("url", <<"x">>), A("url", <<"go">>)>>
Sized == <<A("url", <<"x">>), A("medium", <<"Image">>), A("width", <<" ", "10">>), A("height", <<"-1">>)>>

ItemElements ==
    {<<>>, Filled("guid", <<" ", "x">>), Filled("link", <<"x">>), Filled("description", <<"x">>),
     Filled("summary", <<"x">>),
     Open("title") \o Comment \o Text(<<"x">>) \o Void("x", <<>>) \o Text(<<" ">>) \o End("title"),
     Filled("pubdate", <<"today", " ">>), Filled("pubdate", <<"soon">>), Filled("published", <<"today">>),
     Filled("category", <<"Go">>), Filled("category", <<"go", " ">>),
     Filled("tag", <<"go">>), Filled("keywords", <<"x", ",", " ", "Go", ",">>),
     Void("enclosure", Photo), Void("enclosure", Sound), Void("content", Sound), Void("content", Sized),
     Void("content", <<>>), Void("thumbnail", Photo), Open("description") \o Text(<<"x">>)}

EntryElements ==
    {<<>>, Filled("id", <<"x">>), Filled("guid", <<"x">>), Filled("title", <<" ">>), Filled("published", <<"soon">>),
     Filled("summary", <<"x">>), Open("author") \o Text(<<" ">>) \o Filled("email", <<"x">>) \o End("author"),
     Void("category", <<A("term", <<"Go">>)>>), Filled("category", <<"go">>),
     Void("link", <<A("href", <<"x">>)>>), Void("link", <<A("rel", <<"alternate">>)>>),
     Void("link", <<A("rel", <<"enclosure">>), A("href", <<"x">>)>>),
     Void("link", <<A("rel", <<"enclosure">>), A("href", <<"x">>), A("type", <<"image/png">>)>>)}

\* The second item closes what the first one may have left open, as the ends do.
RSS(a, b, c, d) == Prolog(FALSE) \o Open("rss") \o Open("channel") \o a
                   \o Open("item") \o b \o c \o End("item") \o Open("item") \o d \o End("rss")
Atom(a, b, c, d) == Open("feed") \o a \o Open("entry") \o b \o c \o End("entry")
                    \o Open("entry") \o d \o End("entry") \o End("feed")

FeedElements == {<<>>, Filled("title", <<"x">>)}
RSSFeeds  == {RSS(a, b, c, d) : a \in FeedElements, b \in ItemElements, c \in ItemElements,
                                d \in {<<>>, Filled("title", <<"x">>)}}
ListElements == {Filled("category", <<"Go">>), Filled("category", <<"go", " ">>), Filled("tag", <<"go">>),
                 Filled("keywords", <<"x", ",", " ", "Go", ",">>), Void("enclosure", Photo),
                 Void("enclosure", Sound), Void("content", Sound), Void("content", Sized),
                 Void("thumbnail", Photo)}
ListFeeds == {RSS(<<>>, Filled("title", <<"x">>) \o b, c, <<>>) : b \in ListElements,
                 c \in {d \o e : d \in ListElements, e \in ListElements}}
AtomFeeds == {Atom(a, b, c, d) : a \in FeedElements, b \in EntryElements, c \in EntryElements,
                                 d \in {<<>>, Filled("title", <<"x">>)}}
Oddities  == {<<>>, Text(<<" ">>), Comment, Prolog(TRUE), Filled("opml", <<"x">>),
              Filled("rss", <<"x">>), Void("rss", <<>>) \o Void("rss", <<>>), Filled("feed", <<>>) \o End("feed")}

MCDocuments == Runs \cup RSSFeeds \cup ListFeeds \cup AtomFeeds \cup Oddities
===============================================================================
