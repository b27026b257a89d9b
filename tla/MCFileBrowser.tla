--------------------------- MODULE MCFileBrowser ---------------------------
EXTENDS FileBrowser

\* Two directories, a and b, with a file of the same name in each, and another
\* file in b.
MCPaths == {<<>>, <<"a">>, <<"b">>, <<"a", "a">>, <<"a", "b">>, <<"b", "a">>, <<"b", "b">>}
MCStart == [p \in MCPaths |->
               IF p \in {<<>>, <<"a">>, <<"b">>} THEN "dir"
               ELSE IF p \in {<<"a", "b">>, <<"b", "a">>, <<"b", "b">>} THEN "file" ELSE "none"]
MCHome == <<"a">>
MCTyped == {<<"b">>}
MCVisited == {<<"a">>, <<"b">>}
=============================================================================
