------------------------------ MODULE MCLogPaging ------------------------------
EXTENDS LogPaging

MCLabelTexts == {"", " ", " a=b ", "=b"}
MCTrimmedLabel == [t \in MCLabelTexts |->
                    CASE t = " " -> "" [] t = " a=b " -> "a=b" [] OTHER -> t]
=============================================================================
