------------------------ MODULE MCTreeConstruction ------------------------
(* Six kinds of documents for TreeConstruction.  In the first, table cells, captions    *)
(* and selects are nested; the second has objects among them; the third mixes formatting *)
(* elements with others; the fourth has heads, framesets and whatever may come at the    *)
(* wrong place; the fifth has formatting in captions; the last has definition lists and  *)
(* foreign elements, whose start tags pop what they have not looked at.                  *)
EXTENDS TreeConstruction

MCTables == [start |-> {"table", "td", "th", "caption", "select", "option", "colgroup"},
             end |-> {"table", "tr", "td", "th", "caption", "select", "html"},
             self_closing |-> {}, depth |-> 9]

MCObjects == [start |-> {"table", "td", "caption", "select", "object"},
              end |-> {"table", "td", "caption", "object"},
              self_closing |-> {}, depth |-> 7]

MCFormatting == [start |-> {"b", "a", "p", "object"},
                 end |-> {"b", "a", "p", "object"},
                 self_closing |-> {}, depth |-> 6]

MCStructure == [start |-> {"html", "head", "body", "frameset", "frame", "title", "script",
                           "noscript", "li", "plaintext", "form"},
                end |-> {"head", "body", "html", "frameset", "noscript", "br", "li", "form"},
                self_closing |-> {}, depth |-> 5]

MCCaptions == [start |-> {"table", "caption", "b", "p"},
               end |-> {"table", "caption", "b", "p"},
               self_closing |-> {}, depth |-> 6]

MCDefinitions == [start |-> {"dl", "dd", "dt", "p", "table", "td", "svg"},
                  end |-> {"dl", "dd", "table"},
                  self_closing |-> {"svg"}, depth |-> 8]

MCVocabularies == {MCTables, MCObjects, MCFormatting, MCCaptions, MCStructure, MCDefinitions}

===========================================================================
